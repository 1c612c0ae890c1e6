---------------------------- MODULE Negotiation ----------------------------
(***************************************************************************)
(* How two participants agree to take tokens out of their channel          *)
(* (withdraw) or to end it (cooperative settle) without a dispute: Channel *)
(* composed with the requests and responses of messagehandler.go and       *)
(* photonService.go, the states they put the channel into, and withDraw    *)
(* and cooperativeSettle of the contract TokensNetwork.                    *)
(*                                                                         *)
(* A request goes through the queue of the channel, behind the balance     *)
(* proofs sent before it, and is resent until it is accepted; a response   *)
(* goes beside the queue.  An answer with an error code is shown to the    *)
(* user and changes nothing, so it is left out.  A withdrawal opens the    *)
(* channel anew with a new open block, here its epoch: the sender drops    *)
(* messages of an old epoch, the receiver refuses those of another one.    *)
(* What follows a close, and secrets on chain, are Settlement's; locks that*)
(* their receiver gives up are Channel's.                                  *)
(***************************************************************************)
EXTENDS Channel

CONSTANTS
    WithdrawAmounts,    \* the amounts users withdraw
    MaxEpoch            \* bound: no request is made in this epoch

ASSUME NegotiationAssumption ==
    /\ WithdrawAmounts \subseteq Nat
    /\ MaxEpoch \in Nat

VARIABLES
    state,          \* state[n]: channel.State at n; "Settled": n has removed it
    epoch,          \* epoch[n]: ChannelIdentifier.OpenBlockNumber
    responses,      \* responses[n]: the responses n still resends
    pendingDeposit, \* pendingDeposit[n]: n's deposit call is not mined yet
    calls,          \* the calls on their way to the contract
    contract,       \* state and epoch of the channel in the contract
    log,            \* the events of the contract
    seen,           \* seen[n]: how many of them n has handled
    paid,           \* paid[m]: what m has received from the contract
    settleAsked     \* who has sent a SettleRequest in its epoch

negVars == <<settleAsked, state, epoch, responses, pendingDeposit, calls, contract, log, seen, paid>>
allVars == <<vars, negVars>>

PrepareStates == {"PrepareForWithdraw", "PrepareForCooperativeSettle"}
PartnerStates == {"PartnerWithdrawing", "PartnerCooperativeSettling"}
AskedStates == {"Withdraw", "CooprativeSettle"}

Requests ==
    [type : {"WithdrawRequest"}, balance : Nat, amount : Nat]
        \cup [type : {"SettleRequest"}, balances : [Nodes -> Nat]]

Emit(event) == log' = Append(log, event)

\* What each node counts as its own and as its partner's balance.
BalanceOf(n, m) == Balance(end[n][m], end[n][Other(m)])

LocksOf(n, m) == end[n][m].pending \cup end[n][m].unclaimed

-----------------------------------------------------------------------------
(***************************************************************************)
(* What the user asks for.                                                 *)
(***************************************************************************)
SetState(n, s) ==
    /\ state' = [state EXCEPT ![n] = s]
    /\ UNCHANGED <<epoch, responses, pendingDeposit, calls, contract, log, seen, paid>>

prepareForWithdraw(n) ==
    /\ state[n] = "Opened"
    /\ SetState(n, "PrepareForWithdraw")
    /\ UNCHANGED <<vars, settleAsked>>

prepareCooperativeSettleChannel(n) ==
    /\ state[n] = "Opened"
    /\ ~ pendingDeposit[n]
    /\ SetState(n, "PrepareForCooperativeSettle")
    /\ UNCHANGED <<vars, settleAsked>>

cancelPrepareForCooperativeSettleChannelOrWithdraw(n) ==
    /\ state[n] \in PrepareStates
    /\ SetState(n, "Opened")
    /\ UNCHANGED <<vars, settleAsked>>

\* Mutant: the partner's locks are not looked at.
MayCreateRequestWithLocks(n) == end[n][n].pending = {}

\* CreateWithdrawRequest and CreateCooperativeSettleRequest: the node's own
\* locks with a known secret are not looked at (the condition is written
\* twice for its pending ones).
MayCreateRequest(n) ==
    /\ end[n][n].pending = {}
    /\ LocksOf(n, Other(n)) = {}

SendRequest(n, req) ==
    /\ epoch[n] < MaxEpoch
    /\ MayCreateRequest(n)
    /\ queue' = [queue EXCEPT ![n] = Append(@, req)]
    /\ UNCHANGED <<end, announced, disposed, nodeVars, chainVars, fate>>

withdraw(n, amount) ==
    /\ state[n] \in {"Opened", "PrepareForWithdraw"}
    /\ ~ pendingDeposit[n]
    /\ amount <= BalanceOf(n, n)
    /\ SendRequest(n, [type |-> "WithdrawRequest", balance |-> BalanceOf(n, n), amount |-> amount])
    /\ SetState(n, "Withdraw")
    /\ UNCHANGED settleAsked

\* The state was looked at in the database, by the goroutine of the API; the
\* handler does not look again.  Bound: once in an epoch.
cooperativeSettleChannel(n) ==
    /\ state[n] # "Settled"
    /\ n \notin settleAsked
    /\ settleAsked' = settleAsked \cup {n}
    /\ SendRequest(n, [type |-> "SettleRequest", balances |-> [m \in Nodes |-> BalanceOf(n, m)]])
    /\ SetState(n, "CooprativeSettle")

\* A close that hands in no balance proof carries no signature of the partner
\* and is good in every epoch.
prepareSettleOK(call) ==
    /\ contract.state = "open"
    /\ call.signed => call.epoch = contract.epoch

\* Channel.Close, from any state: "We cannot forbid close just because
\* channel state is abnormal."  A call that would revert is not sent.  Bound: one
\* close at a time (Settlement has the others).
Close(n) ==
    LET call == [type |-> "prepareSettle", who |-> n, epoch |-> epoch[n],
                 signed |-> end[n][Other(n)].bp.nonce > 0]
    IN  /\ state[n] \notin {"Closed", "Settled"}
        /\ \A c \in calls : c.type # "prepareSettle"
        /\ prepareSettleOK(call)
        /\ state' = [state EXCEPT ![n] = "Closing"]
        /\ calls' = calls \cup {call}
        /\ UNCHANGED <<vars, epoch, responses, pendingDeposit, contract, log, seen, paid, settleAsked>>

\* The state was looked at in the database here, too.
DepositAsync(n) ==
    /\ state[n] # "Settled"
    /\ contract.state = "open"
    /\ ~ pendingDeposit[n]
    /\ deposit[n] < MaxDeposit
    /\ pendingDeposit' = [pendingDeposit EXCEPT ![n] = TRUE]
    /\ UNCHANGED <<vars, state, epoch, responses, calls, contract, log, seen, paid, settleAsked>>

-----------------------------------------------------------------------------
(***************************************************************************)
(* The partner's requests and responses.                                   *)
(***************************************************************************)
SameEpoch == epoch[A] = epoch[B]

\* RegisterWithdrawRequest and RegisterCooperativeSettleRequest: a lock of the
\* node's own that nobody has the secret of does not matter.
NoDisputedLock(n) == LocksOf(n, Other(n)) = {} /\ end[n][n].unclaimed = {}

\* Mutant: the handlers do not ask for an open channel.
AcceptInAnyState(n, type, s, response) ==
    LET o == Other(n)
    IN  /\ queue[o] # <<>> /\ Head(queue[o]).type = type
        /\ SameEpoch
        /\ state[n] # "Settled"
        /\ NoDisputedLock(n)
        /\ queue' = [queue EXCEPT ![o] = Tail(@)]
        /\ state' = [state EXCEPT ![n] = s]
        /\ responses' = [responses EXCEPT ![n] = @ \cup {response}]
        /\ UNCHANGED <<end, announced, disposed, nodeVars, chainVars, fate,
                       epoch, pendingDeposit, calls, contract, log, seen, paid, settleAsked>>

Accept(n, type, s, response) ==
    LET o == Other(n)
    IN  /\ queue[o] # <<>> /\ Head(queue[o]).type = type
        /\ SameEpoch
        /\ state[n] = "Opened"
        /\ NoDisputedLock(n)
        /\ queue' = [queue EXCEPT ![o] = Tail(@)]
        /\ state' = [state EXCEPT ![n] = s]
        /\ responses' = [responses EXCEPT ![n] = @ \cup {response}]
        /\ UNCHANGED <<end, announced, disposed, nodeVars, chainVars, fate,
                       epoch, pendingDeposit, calls, contract, log, seen, paid, settleAsked>>

messageWithdrawRequest(n) ==
    LET req == Head(queue[Other(n)])
    IN  /\ Accept(n, "WithdrawRequest", "PartnerWithdrawing",
                  [type |-> "WithdrawResponse", epoch |-> epoch[n],
                   balance |-> req.balance, amount |-> req.amount])
        /\ req.balance = BalanceOf(n, Other(n))

messageSettleRequest(n) ==
    LET req == Head(queue[Other(n)])
    IN  /\ Accept(n, "SettleRequest", "PartnerCooperativeSettling",
                  [type |-> "SettleResponse", epoch |-> epoch[n], balances |-> req.balances])
        /\ \A m \in Nodes : req.balances[m] = BalanceOf(n, m)

\* The response of o is accepted and the call is sent, signed by both; counted
\* are the deposits the requester knew of (history).
Call(n, response, call) ==
    /\ response \in responses[Other(n)]
    /\ response.epoch = epoch[n]
    /\ responses' = [responses EXCEPT ![Other(n)] = @ \ {response}]
    /\ calls' = calls \cup {call}
    /\ UNCHANGED <<vars, state, epoch, pendingDeposit, contract, log, seen, paid, settleAsked>>

messageWithdrawResponse(n) ==
    \E r \in responses[Other(n)] :
        /\ r.type = "WithdrawResponse"
        /\ state[n] = "Withdraw"
        /\ r.balance = BalanceOf(n, n)
        /\ LocksOf(n, n) \cup LocksOf(n, Other(n)) = {}
        /\ Call(n, r, [type |-> "withDraw", who |-> n, epoch |-> r.epoch,
                       balance |-> r.balance, amount |-> r.amount,
                       counted |-> end[n][n].contractBalance])

messageSettleResponse(n) ==
    \E r \in responses[Other(n)] :
        /\ r.type = "SettleResponse"
        /\ state[n] = "CooprativeSettle"
        /\ \A m \in Nodes : r.balances[m] = BalanceOf(n, m)
        /\ Call(n, r, [type |-> "cooperativeSettle", who |-> n, epoch |-> r.epoch,
                       balances |-> r.balances,
                       counted |-> end[n][n].contractBalance])

-----------------------------------------------------------------------------
(***************************************************************************)
(* The contract.  A call that would revert stays among the calls: it is    *)
(* never mined.                                                            *)
(***************************************************************************)
Total == deposit[A] + deposit[B]

Mined(call) ==
    /\ call \in calls
    /\ contract.state = "open"
    /\ call.epoch = contract.epoch
    /\ calls' = calls \ {call}
    /\ UNCHANGED <<end, queue, announced, disposed, nodeVars, height, registeredAt, fate,
                   state, epoch, responses, pendingDeposit, seen, settleAsked>>

\* Mutant: what was transferred is not counted.
withDrawIgnoresTransfers(call) ==
    /\ call.type = "withDraw"
    /\ Mined(call)
    /\ call.amount > 0 /\ call.amount <= deposit[call.who]
    /\ deposit' = [deposit EXCEPT ![call.who] = @ - call.amount]
    /\ Emit([type |-> "ChannelWithdraw", balance |-> deposit'])
    /\ contract' = [contract EXCEPT !.epoch = @ + 1]
    /\ paid' = [paid EXCEPT ![call.who] = @ + call.amount]

\* What is not the participant's balance is the partner's.
withDraw(call) ==
    /\ call.type = "withDraw"
    /\ Mined(call)
    /\ call.amount > 0 /\ call.amount <= call.balance
    /\ call.balance <= Total
    /\ deposit' = [m \in Nodes |-> IF m = call.who THEN call.balance - call.amount
                                   ELSE Total - call.balance]
    /\ Emit([type |-> "ChannelWithdraw", balance |-> deposit'])
    /\ contract' = [contract EXCEPT !.epoch = @ + 1]
    /\ paid' = [paid EXCEPT ![call.who] = @ + call.amount]

\* Mutant: the balances need not add up.
cooperativeSettleUnbalanced(call) ==
    /\ call.type = "cooperativeSettle"
    /\ Mined(call)
    /\ paid' = [m \in Nodes |-> paid[m] + call.balances[m]]
    /\ contract' = [contract EXCEPT !.state = "gone"]
    /\ Emit([type |-> "ChannelCooperativeSettled"])
    /\ UNCHANGED deposit

cooperativeSettle(call) ==
    /\ call.type = "cooperativeSettle"
    /\ Mined(call)
    /\ call.balances[A] + call.balances[B] = Total
    /\ paid' = [m \in Nodes |-> paid[m] + call.balances[m]]
    /\ contract' = [contract EXCEPT !.state = "gone"]
    /\ Emit([type |-> "ChannelCooperativeSettled"])
    /\ UNCHANGED deposit

prepareSettle(call) ==
    /\ call.type = "prepareSettle"
    /\ call \in calls
    /\ prepareSettleOK(call)
    /\ calls' = calls \ {call}
    /\ contract' = [contract EXCEPT !.state = "closed"]
    /\ Emit([type |-> "ChannelClosed"])
    /\ UNCHANGED <<vars, state, epoch, responses, pendingDeposit, seen, paid, settleAsked>>

\* depositInternal; the call is no longer pending once its receipt is there,
\* whether or not the event was handled.
depositInternal(n) ==
    /\ pendingDeposit[n]
    /\ contract.state = "open"
    /\ pendingDeposit' = [pendingDeposit EXCEPT ![n] = FALSE]
    /\ deposit' = [deposit EXCEPT ![n] = @ + 1]
    /\ Emit([type |-> "ChannelNewDeposit", participant |-> n, total |-> deposit[n] + 1])
    /\ UNCHANGED <<end, queue, announced, disposed, nodeVars, height, registeredAt, fate,
                   state, epoch, responses, calls, contract, seen, paid, settleAsked>>

-----------------------------------------------------------------------------
(***************************************************************************)
(* The events at a node.                                                   *)
(***************************************************************************)
HandleEvent(n, type) ==
    /\ state[n] # "Settled"
    /\ seen[n] < Len(log)
    /\ log[seen[n] + 1].type = type
    /\ seen' = [seen EXCEPT ![n] = @ + 1]
    /\ UNCHANGED <<disposed, nodeVars, chainVars, fate,
                   responses, pendingDeposit, calls, contract, log, paid>>

handleBalanceEvent(n) ==
    LET ev == log[seen[n] + 1]
    IN  /\ HandleEvent(n, "ChannelNewDeposit")
        /\ end' = [end EXCEPT ![n][ev.participant] = UpdateContractBalance(@, ev.total)]
        /\ UNCHANGED <<queue, announced, state, epoch, settleAsked>>

\* Mutant: only the balances are reset.
handleWithdrawKeepsProofs(n) ==
    LET ev == log[seen[n] + 1]
    IN  /\ HandleEvent(n, "ChannelWithdraw")
        /\ end' = [end EXCEPT ![n] = [m \in Nodes |-> UpdateContractBalance(@[m], ev.balance[m])]]
        /\ epoch' = [epoch EXCEPT ![n] = @ + 1]
        /\ state' = [state EXCEPT ![n] = "Opened"]
        /\ queue' = [queue EXCEPT ![n] = <<>>]
        /\ UNCHANGED announced
        /\ settleAsked' = settleAsked \ {n}

\* Mutant: what was transferred before is subtracted once more.
handleWithdrawNet(n) ==
    LET ev == log[seen[n] + 1]
    IN  /\ HandleEvent(n, "ChannelWithdraw")
        /\ end' = [end EXCEPT ![n] = [m \in Nodes |->
               NewChannelEndState(ev.balance[m] - @[m].bp.transferAmount)]]
        /\ epoch' = [epoch EXCEPT ![n] = @ + 1]
        /\ state' = [state EXCEPT ![n] = "Opened"]
        /\ queue' = [queue EXCEPT ![n] = <<>>]
        /\ settleAsked' = settleAsked \ {n}
        /\ UNCHANGED announced

\* HandleWithdrawed: the history of the channel is thrown away; what n still
\* had to send for the old epoch is dropped, what it would still get is refused.
handleWithdraw(n) ==
    LET ev == log[seen[n] + 1]
    IN  /\ HandleEvent(n, "ChannelWithdraw")
        /\ end' = [end EXCEPT ![n] = [m \in Nodes |-> NewChannelEndState(ev.balance[m])]]
        /\ epoch' = [epoch EXCEPT ![n] = @ + 1]
        /\ state' = [state EXCEPT ![n] = "Opened"]
        /\ queue' = [queue EXCEPT ![n] = <<>>]
        /\ UNCHANGED announced
        /\ settleAsked' = settleAsked \ {n}

handleCooperativeSettled(n) ==
    /\ HandleEvent(n, "ChannelCooperativeSettled")
    /\ state' = [state EXCEPT ![n] = "Settled"]
    /\ queue' = [queue EXCEPT ![n] = <<>>]
    /\ UNCHANGED <<end, announced, epoch, settleAsked>>

handleClosed(n) ==
    /\ HandleEvent(n, "ChannelClosed")
    /\ state' = [state EXCEPT ![n] = "Closed"]
    /\ UNCHANGED <<end, queue, announced, epoch, settleAsked>>

-----------------------------------------------------------------------------
(***************************************************************************)
(* The operations of Channel in these states.                              *)
(***************************************************************************)
\* Mutant: a node that has sent its request still takes transfers.
CanTransferAsked(n) == state[n] \in AskedStates \cup {"Opened"}

CanTransfer(n) == state[n] = "Opened"

\* The Create and Register functions refuse only a channel that IsClosed.
CanUpdate(n) == state[n] \notin {"Closed", "Settled"}

CanDealUnlock(n) == state[n] \in PrepareStates \cup {"Opened"}

CanContinueTransfer(n) == state[n] \notin AskedStates \cup PartnerStates

SendTransfer(n) ==
    /\ \/ CanTransfer(n) /\ \E a \in DirectAmounts : directTransferAsync(n, a)
       \/ CanTransfer(n) /\ \E l \in Locks : eventSendMediatedTransfer(n, l)
       \/ CanUpdate(n) /\ \E l \in Locks : eventSendUnlock(n, l) \/ eventUnlockFailed(n, l)
    /\ UNCHANGED negVars

ReceiveTransfer(n) ==
    /\ SameEpoch
    /\ \/ CanTransfer(n) /\ (messageDirectTransfer(n) \/ messageMediatedTransfer(n))
       \/ CanDealUnlock(n) /\ messageUnlock(n)
       \/ CanUpdate(n) /\ CanContinueTransfer(n) /\ messageRemoveExpiredHashlockTransfer(n)
    /\ UNCHANGED negVars

SecretLearned(n, l) ==
    /\ state[n] # "Settled"
    /\ registerSecret(n, l)
    /\ UNCHANGED negVars

\* Both nodes see a block at once: what the difference does is checked with
\* Channel and Settlement.
BlockStateChange ==
    /\ height < MaxHeight
    /\ height' = height + 1
    /\ blk' = [n \in Nodes |-> height + 1]
    /\ UNCHANGED <<end, queue, announced, disposed, secretSeen, registeredAt, deposit, fate,
                   negVars>>

NegInit ==
    /\ Init
    /\ state = [n \in Nodes |-> "Opened"]
    /\ epoch = [n \in Nodes |-> 0]
    /\ responses = [n \in Nodes |-> {}]
    /\ pendingDeposit = [n \in Nodes |-> FALSE]
    /\ calls = {}
    /\ contract = [state |-> "open", epoch |-> 0]
    /\ log = <<>>
    /\ seen = [n \in Nodes |-> 0]
    /\ paid = [n \in Nodes |-> 0]
    /\ settleAsked = {}

Ask(n) ==
    \/ prepareForWithdraw(n) \/ prepareCooperativeSettleChannel(n)
    \/ cancelPrepareForCooperativeSettleChannelOrWithdraw(n)
    \/ \E a \in WithdrawAmounts : withdraw(n, a)
    \/ cooperativeSettleChannel(n)

Answer(n) ==
    \/ messageWithdrawRequest(n) \/ messageSettleRequest(n)
    \/ messageWithdrawResponse(n) \/ messageSettleResponse(n)

Contract ==
    \/ \E call \in calls : withDraw(call) \/ cooperativeSettle(call) \/ prepareSettle(call)
    \/ \E n \in Nodes : depositInternal(n)

Follow(n) ==
    \/ handleBalanceEvent(n) \/ handleWithdraw(n)
    \/ handleCooperativeSettled(n) \/ handleClosed(n)

NegNext ==
    \/ \E n \in Nodes :
          \/ SendTransfer(n) \/ ReceiveTransfer(n)
          \/ Ask(n) \/ Answer(n) \/ Close(n) \/ DepositAsync(n) \/ Follow(n)
    \/ \E n \in Nodes, l \in Locks : SecretLearned(n, l)
    \/ Contract
    \/ BlockStateChange

NegSpec == NegInit /\ [][NegNext]_allVars

-----------------------------------------------------------------------------
CallTypes == {"withDraw", "cooperativeSettle", "prepareSettle"}

\* The type invariant of what the negotiation adds to the channel.
NegTypeOK ==
    /\ end \in [Nodes -> [Nodes -> EndState]]
    /\ queue \in [Nodes -> Seq(EnvelopMessage \cup Requests)]
    /\ deposit \in [Nodes -> Nat]
    /\ state \in [Nodes -> {"Opened", "Closing", "Closed", "Settled"}
                            \cup PrepareStates \cup PartnerStates \cup AskedStates]
    /\ epoch \in [Nodes -> Nat]
    /\ \A n \in Nodes : epoch[n] <= contract.epoch
    /\ pendingDeposit \in [Nodes -> BOOLEAN]
    /\ \A call \in calls : call.type \in CallTypes
    /\ contract \in [state : {"open", "closed", "gone"}, epoch : Nat]
    /\ seen \in [Nodes -> 0..Len(log)]
    /\ paid \in [Nodes -> Nat]

Net(n) == end[n][Other(n)].bp.transferAmount - end[n][n].bp.transferAmount

\* What a mined call leaves and pays to m ...
Share(m) ==
    paid'[m] - paid[m] + IF contract'.state = "gone" THEN 0 ELSE deposit'[m]

\* ... and what m's own books say: the deposits it knows of (the requester:
\* knew of when it sent the call) and what it was paid and has paid.
OwnBooks(call, m) ==
    Net(m) + IF m = call.who THEN call.counted ELSE end[m][m].contractBalance

\* An agreement that is mined undoes no payment: between the two signatures
\* and the block, whatever was in flight, neither end registers a transfer or
\* a lock that the agreed balances leave out, and no agreement of an earlier
\* epoch is used ("agreeing does me no harm", messageWithdrawRequest and
\* messageSettleRequest).
NoPaymentUndone ==
    [][\A call \in calls :
          (call \notin calls' /\ call.type # "prepareSettle") =>
              \A m \in Nodes : /\ Share(m) >= OwnBooks(call, m)
                               /\ LocksOf(m, Other(m)) = {}]_allVars

Valid(call) == call.type # "prepareSettle" /\ call.epoch = contract.epoch

\* Requests that cross are never both granted: in one epoch the contract is
\* offered at most one agreement, although cooperativeSettleChannel looks at
\* no state (messageSettleResponse: one end proposes settle, the other
\* withdraw).
OneAgreement ==
    /\ Cardinality({call \in calls : Valid(call)}) <= 1
    /\ ~ (SameEpoch /\ \A n \in Nodes : state[n] \in PartnerStates)

\* Where a queue holds balance proofs, and not requests.
Envelops(q) == {i \in 1..Len(q) : q[i].type \in LockMessages \cup {"DirectTransfer"}}

\* Two nodes that may transfer in the same epoch are in step, before a
\* withdrawal and after it: what the receiver lacks is what the sender's queue
\* holds (handleWithdraw resets both ends and the queue, a request that was
\* sent is never taken back).
OpenedInStep ==
    (SameEpoch /\ \A n \in Nodes : CanTransfer(n)) =>
        \A s \in Nodes :
            Cardinality(Envelops(queue[s])) = end[s][s].bp.nonce - end[Other(s)][s].bp.nonce

\* messageRemoveExpiredHashlockTransfer acknowledges without applying in a
\* channel that cannot continue; no such message ever gets there, since no
\* request is made or granted while the partner's locks are there.
NoneSkipped ==
    \A n \in Nodes :
        (SameEpoch /\ ~ CanContinueTransfer(n) /\ queue[Other(n)] # <<>>)
            => Head(queue[Other(n)]).type # "RemoveExpired"

\* CooperativeSettleChannel creates the request a second time and panics when
\* that fails: a response that is accepted finds the channel without the locks
\* CreateCooperativeSettleRequest refuses.
NoPanicOnResponse ==
    \A n \in Nodes : state[n] \in AskedStates => MayCreateRequest(n)

\* The contract keeps the promise of Escrow over deposits, withdrawals and the
\* agreed settlement.
Ledger ==
    INSTANCE Escrow WITH
        P <- A, Q <- B,
        phase <- contract.state,
        held <- IF contract.state = "gone" THEN 0 ELSE deposit[A] + deposit[B],
        paid <- paid
EscrowKept == Ledger!Spec

=============================================================================
