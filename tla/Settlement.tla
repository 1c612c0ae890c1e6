----------------------------- MODULE Settlement -----------------------------
(***************************************************************************)
(* How a payment channel ends when one participant closes it: Channel      *)
(* composed with the contract TokensNetwork (prepareSettle,                *)
(* updateBalanceProof, unlock, punishObsoleteUnlock, settle), the calls    *)
(* the two nodes send to it and the events they get back                   *)
(* (channel/channel.go, channel/ChannelExternalState.go, eventhandler.go). *)
(*                                                                         *)
(* A call is estimated against the pending block before it is sent: one    *)
(* that would revert is an error of the caller and goes nowhere.  Calls    *)
(* that were sent are mined in the order of the sender's account, in block *)
(* height + 1, or revert there.  Events come back in block order; those of *)
(* the channel and the secrets of one block come in either order.  The     *)
(* deposits stay as they are: Channel has them.                            *)
(***************************************************************************)
EXTENDS Channel

CONSTANTS
    PunishBlockNumber,  \* params.PunishBlockNumber
    TargetLocks,        \* the locks whose receiver is the transfer's target
    Cheaters            \* participants that unlock locks they have disposed of

ASSUME SettlementAssumption ==
    /\ PunishBlockNumber \in Nat
    /\ TargetLocks \subseteq Locks
    /\ Cheaters \subseteq Nodes

VARIABLES
    state,        \* state[n]: channel.State at n; "Settled": n has removed it
    closedBlock,  \* closedBlock[n]: ExternState.ClosedBlock
    onContract,   \* onContract[n][m]: ContractTransferAmount, ContractLocksRoot
    hasUnlocked,  \* hasUnlocked[n]: locks marked by UnlockThisLock
    canPunish,    \* canPunish[n]: locks with a ReceivedAnnounceDisposed
    pool,         \* pool[n]: n's calls that are not mined yet
    contract,     \* the channel in the contract
    log,          \* the events of the contract
    seen,         \* seen[n]: how many of them n has handled
    payout,       \* what settle has paid out
    cheated       \* history: who has unlocked what it had disposed of

settleVars == <<state, closedBlock, onContract, hasUnlocked, canPunish, pool,
                contract, log, seen, payout, cheated>>
allVars == <<vars, settleVars>>

ContractProof == [amount : Nat, root : SUBSET Locks, nonce : Nat]
ChannelRecord ==
    [state : {"open", "closed", "gone"}, closer : Nodes, closedAt : Nat,
     share : [Nodes -> Nat], proof : [Nodes -> ContractProof],
     unlocked : [Nodes -> SUBSET (Nat \X Locks)]]
NoProof == [amount |-> 0, root |-> {}, nonce |-> 0]

MaxUint64 == 2147483647     \* stands for 0xffffffffffffffff

SettleArguments == [Nodes -> [amount : Nat, root : SUBSET Locks]]

\* The calls of the nodes, and the events they cause.
Calls ==
    [type : {"prepareSettle", "updateBalanceProof"}, bp : BalanceProofState]
        \cup [type : {"unlock"}, locks : SUBSET Locks, amount : Nat, root : SUBSET Locks]
        \cup [type : {"punishObsoleteUnlock"}, lock : Locks]
        \cup [type : {"settle"}, args : SettleArguments]

Events ==
    [block : Nat, type : {"ChannelClosed"}, closer : Nodes, amount : Nat, root : SUBSET Locks]
        \cup [block : Nat, type : {"BalanceProofUpdated"}, participant : Nodes,
              amount : Nat, root : SUBSET Locks]
        \cup [block : Nat, type : {"ChannelUnlocked"}, participant : Nodes,
              lock : Locks, amount : Nat]
        \cup [block : Nat, type : {"ChannelPunished"}, beneficiary : Nodes]
        \cup [block : Nat, type : {"ChannelSettled"}]

-----------------------------------------------------------------------------
(***************************************************************************)
(* The contract.  The operators say whether a call of participant n in the *)
(* given block passes its require statements.  The model keeps the record  *)
(* of a settled channel; the contract deletes it.                          *)
(***************************************************************************)
SettleBlock == contract.closedAt + SettleTimeout

prepareSettleOK == contract.state = "open"

updateBalanceProofOK(n, bp, block) ==
    /\ contract.state = "closed"
    /\ SettleBlock >= block
    /\ bp.nonce > contract.proof[Other(n)].nonce

unlockOK(n, l, amount, root, block) ==
    LET proof == contract.proof[Other(n)]
    IN  /\ contract.state = "closed"
        /\ SettleBlock >= block
        /\ registeredAt[l] \in 1..Expiration[l]
        /\ l \in root
        /\ proof.amount = amount /\ proof.root = root
        /\ <<proof.nonce, l>> \notin contract.unlocked[Other(n)]

punishObsoleteUnlockOK(n, l) ==
    /\ contract.state = "closed"
    /\ contract.proof[n].amount # 0 \/ contract.proof[n].root # {}
    /\ <<contract.proof[n].nonce, l>> \in contract.unlocked[n]

settleOK(args, block) ==
    /\ contract.state = "closed"
    /\ SettleBlock + PunishBlockNumber < block
    /\ \A m \in Nodes : /\ contract.proof[m].amount = args[m].amount
                        /\ contract.proof[m].root = args[m].root

\* Mutant: no limit to the total deposit.
SettleAmountsUnlimited ==
    LET total == contract.share[A] + contract.share[B]
        net == contract.share[A] + contract.proof[B].amount - contract.proof[A].amount
        first == IF net < 0 THEN 0 ELSE net
    IN  [m \in Nodes |-> IF m = A THEN first ELSE total - first]

\* What settle pays participant1 (here A) and, as the rest, participant2.
SettleAmounts ==
    LET total == contract.share[A] + contract.share[B]
        net == contract.share[A] + contract.proof[B].amount - contract.proof[A].amount
        first == IF net < 0 THEN 0 ELSE Min({net, total})
    IN  [m \in Nodes |-> IF m = A THEN first ELSE total - first]

\* Whether a call that is not an unlock succeeds in the given block.
CallOK(n, tx, block) ==
    CASE tx.type = "prepareSettle" -> prepareSettleOK
      [] tx.type = "updateBalanceProof" -> updateBalanceProofOK(n, tx.bp, block)
      [] tx.type = "punishObsoleteUnlock" -> punishObsoleteUnlockOK(n, tx.lock)
      [] tx.type = "settle" -> settleOK(tx.args, block)

Emit(event) == log' = Append(log, event)

Mined(n, type) ==
    /\ pool[n] # <<>>
    /\ Head(pool[n]).type = type
    /\ pool' = [pool EXCEPT ![n] = Tail(@)]
    /\ UNCHANGED <<vars, state, closedBlock, onContract, hasUnlocked, canPunish, seen, cheated>>

prepareSettle(n) ==
    LET tx == Head(pool[n])
    IN  /\ Mined(n, "prepareSettle")
        /\ prepareSettleOK
        /\ contract' = [contract EXCEPT
               !.state = "closed", !.closer = n, !.closedAt = height + 1,
               !.share = deposit,
               !.proof[Other(n)] = IF tx.bp.nonce > 0
                                   THEN [amount |-> tx.bp.transferAmount,
                                         root |-> tx.bp.locksRoot, nonce |-> tx.bp.nonce]
                                   ELSE @]
        /\ Emit([block |-> height + 1, type |-> "ChannelClosed", closer |-> n,
                 amount |-> tx.bp.transferAmount, root |-> tx.bp.locksRoot])
        /\ UNCHANGED payout

updateBalanceProof(n) ==
    LET bp == Head(pool[n]).bp
    IN  /\ Mined(n, "updateBalanceProof")
        /\ updateBalanceProofOK(n, bp, height + 1)
        /\ contract' = [contract EXCEPT !.proof[Other(n)] =
               [amount |-> bp.transferAmount, root |-> bp.locksRoot, nonce |-> bp.nonce]]
        /\ Emit([block |-> height + 1, type |-> "BalanceProofUpdated", participant |-> Other(n),
                 amount |-> bp.transferAmount, root |-> bp.locksRoot])
        /\ UNCHANGED payout

\* The calls of one Unlock are sent lock by lock, each with the transferred
\* amount its predecessors leave behind.
AfterUnlock(n, l) ==
    LET tx == Head(pool[n])
    IN  IF tx.locks = {l} THEN Tail(pool[n])
        ELSE <<[type |-> "unlock", locks |-> tx.locks \ {l},
                amount |-> tx.amount + LockAmount[l], root |-> tx.root]>> \o Tail(pool[n])

unlock(n, l) ==
    LET tx == Head(pool[n])
    IN  /\ pool[n] # <<>>
        /\ tx.type = "unlock"
        /\ l \in tx.locks
        /\ pool' = [pool EXCEPT ![n] = AfterUnlock(n, l)]
        /\ unlockOK(n, l, tx.amount, tx.root, height + 1)
        /\ contract' = [contract EXCEPT
               !.unlocked[Other(n)] = @ \cup {<<contract.proof[Other(n)].nonce, l>>},
               !.proof[Other(n)].amount = @ + LockAmount[l]]
        /\ Emit([block |-> height + 1, type |-> "ChannelUnlocked", participant |-> Other(n), lock |-> l,
                 amount |-> tx.amount + LockAmount[l]])
        /\ UNCHANGED <<vars, state, closedBlock, onContract, hasUnlocked, canPunish,
                       seen, payout, cheated>>

\* Mutant: the cheater's deposit stays where it is.
punishKeepsShare(n) ==
    LET l == Head(pool[n]).lock
    IN  /\ Mined(n, "punishObsoleteUnlock")
        /\ punishObsoleteUnlockOK(n, l)
        /\ contract' = [contract EXCEPT
               !.unlocked[n] = @ \ {<<contract.proof[n].nonce, l>>},
               !.proof[n] = [amount |-> 0, root |-> {}, nonce |-> MaxUint64]]
        /\ Emit([block |-> height + 1, type |-> "ChannelPunished", beneficiary |-> n])
        /\ UNCHANGED payout

punishObsoleteUnlock(n) ==
    LET l == Head(pool[n]).lock
    IN  /\ Mined(n, "punishObsoleteUnlock")
        /\ punishObsoleteUnlockOK(n, l)
        /\ contract' = [contract EXCEPT
               !.unlocked[n] = @ \ {<<contract.proof[n].nonce, l>>},
               !.proof[n] = [amount |-> 0, root |-> {}, nonce |-> MaxUint64],
               !.share = [m \in Nodes |-> IF m = n THEN @[A] + @[B] ELSE 0]]
        /\ Emit([block |-> height + 1, type |-> "ChannelPunished", beneficiary |-> n])
        /\ UNCHANGED payout

\* Mutant: the channel is not deleted, it can be settled again.
settleKeepsChannel(n) ==
    /\ Mined(n, "settle")
    /\ settleOK(Head(pool[n]).args, height + 1)
    /\ payout' = SettleAmounts
    /\ UNCHANGED contract
    /\ Emit([block |-> height + 1, type |-> "ChannelSettled"])

settle(n) ==
    /\ Mined(n, "settle")
    /\ settleOK(Head(pool[n]).args, height + 1)
    /\ contract' = [contract EXCEPT !.state = "gone"]
    /\ payout' = SettleAmounts
    /\ Emit([block |-> height + 1, type |-> "ChannelSettled"])

\* A call whose require statements fail in the block it is mined in.
Revert(n) ==
    /\ pool[n] # <<>>
    /\ LET tx == Head(pool[n])
       IN  \/ /\ tx.type # "unlock"
              /\ ~ CallOK(n, tx, height + 1)
              /\ pool' = [pool EXCEPT ![n] = Tail(@)]
           \/ /\ tx.type = "unlock"
              /\ \E l \in tx.locks :
                     /\ ~ unlockOK(n, l, tx.amount, tx.root, height + 1)
                     /\ pool' = [pool EXCEPT ![n] = AfterUnlock(n, l)]
    /\ UNCHANGED <<vars, state, closedBlock, onContract, hasUnlocked, canPunish,
                   contract, log, seen, payout, cheated>>

-----------------------------------------------------------------------------
(***************************************************************************)
(* The calls a node sends.                                                 *)
(***************************************************************************)
\* pool' when the call is estimated and, if that succeeds, sent
Sent(n, tx) ==
    IF CallOK(n, tx, height + 1) THEN [pool EXCEPT ![n] = Append(@, tx)] ELSE pool

\* GetCanUnlockOnChainLocks of PartnerState e
CanUnlockOnChain(e) == e.onChain

\* Mutant: locks that were disposed of are unlocked too.
ToUnlockWithDisposed(n, locks) == locks \ hasUnlocked[n]

\* The locks ExternalState.Unlock does not skip.
ToUnlock(n, locks) == (locks \ hasUnlocked[n]) \ disposed[n]

SendUnlocks(n, locks, amount, root) ==
    /\ locks # {}
    /\ pool' = [pool EXCEPT ![n] = Append(@,
           [type |-> "unlock", locks |-> locks, amount |-> amount, root |-> root])]
    /\ hasUnlocked' = [hasUnlocked EXCEPT ![n] = @ \cup locks]

\* ExternalState.Unlock with Merkle proofs of tree root.  The calls fail at
\* once when they would revert on the newest block; an eth node that estimates
\* on its pending block may still take them.  A cheater skips nothing.
Unlock(n, locks, amount, root) ==
    \/ SendUnlocks(n, ToUnlock(n, locks), amount, root) /\ UNCHANGED cheated
    \/ /\ \A l \in ToUnlock(n, locks) : ~ unlockOK(n, l, amount, root, height + 1)
       /\ UNCHANGED <<pool, hasUnlocked, cheated>>
    \/ /\ n \in Cheaters
       /\ locks \cap disposed[n] # {}
       /\ SendUnlocks(n, locks \ hasUnlocked[n], amount, root)
       /\ cheated' = cheated \cup {n}

\* The user closes the channel; a node whose close is on its way may do it
\* again when that call is lost.
Close(n) ==
    LET tx == [type |-> "prepareSettle", bp |-> end[n][Other(n)].bp]
    IN  /\ state[n] \in {"Opened", "Closing"}
        /\ closedBlock[n] = 0
        /\ pool[n] = <<>>
        /\ CallOK(n, tx, height + 1)
        /\ pool' = Sent(n, tx)
        /\ state' = [state EXCEPT ![n] = "Closing"]
        /\ UNCHANGED <<vars, closedBlock, onContract, hasUnlocked, canPunish,
                       contract, log, seen, payout, cheated>>

Settle(n) ==
    LET tx == [type |-> "settle", args |-> onContract[n]]
    IN  /\ state[n] = "Closed"
        /\ closedBlock[n] + SettleTimeout + PunishBlockNumber <= blk[n]
        /\ CallOK(n, tx, height + 1)
        /\ pool' = Sent(n, tx)
        /\ state' = [state EXCEPT ![n] = "Settling"]
        /\ UNCHANGED <<vars, closedBlock, onContract, hasUnlocked, canPunish,
                       contract, log, seen, payout, cheated>>

-----------------------------------------------------------------------------
(***************************************************************************)
(* The events of the contract at a node.                                   *)
(***************************************************************************)
\* n handles the next event of the channel.
HandleEvent(n, type) ==
    /\ state[n] # "Settled"
    /\ seen[n] < Len(log)
    /\ log[seen[n] + 1].type = type
    /\ log[seen[n] + 1].block <= blk[n]
    /\ seen' = [seen EXCEPT ![n] = @ + 1]
    /\ UNCHANGED <<canPunish, contract, log, payout>>

handleClosed(n) ==
    LET ev == log[seen[n] + 1]
        o == Other(n)
        held == end[n][o]
        proof == [amount |-> ev.amount, root |-> ev.root]
    IN  /\ HandleEvent(n, "ChannelClosed")
        /\ state' = [state EXCEPT ![n] = "Closed"]
        /\ closedBlock' = [closedBlock EXCEPT ![n] = ev.block]
        /\ \/ /\ ev.closer = n
              /\ onContract' = [onContract EXCEPT ![n][o] = proof]
              /\ Unlock(n, CanUnlockOnChain(held), ev.amount, held.tree)
           \/ /\ ev.closer # n
              /\ onContract' = [onContract EXCEPT ![n][n] = proof]
              /\ pool' = Sent(n, [type |-> "updateBalanceProof", bp |-> held.bp])
              /\ UNCHANGED <<hasUnlocked, cheated>>
        /\ UNCHANGED vars

\* Mutant: the new amount and root are not recorded.
handleBalanceProofIgnored(n) ==
    /\ HandleEvent(n, "BalanceProofUpdated")
    /\ UNCHANGED <<vars, state, closedBlock, onContract, pool, hasUnlocked, cheated>>

\* HandleBalanceProofUpdated unlocks at the node whose own proof was updated.
handleBalanceProofOnChain(n) ==
    LET ev == log[seen[n] + 1]
        o == Other(n)
    IN  /\ HandleEvent(n, "BalanceProofUpdated")
        /\ onContract' = [onContract EXCEPT
               ![n][ev.participant] = [amount |-> ev.amount, root |-> ev.root]]
        /\ \/ /\ ev.participant = n
              /\ Unlock(n, CanUnlockOnChain(end[n][o]), onContract[n][o].amount, end[n][o].tree)
           \/ /\ ev.participant # n
              /\ UNCHANGED <<pool, hasUnlocked, cheated>>
        /\ UNCHANGED <<vars, state, closedBlock>>

\* The payer of an unlocked lock punishes its partner when it holds the
\* partner's AnnounceDisposed of that lock.
handleUnlockOnChain(n) ==
    LET ev == log[seen[n] + 1]
    IN  /\ HandleEvent(n, "ChannelUnlocked")
        /\ onContract' = [onContract EXCEPT ![n][ev.participant].amount = ev.amount]
        /\ pool' = IF ev.participant = n /\ ev.lock \in canPunish[n]
                   THEN Sent(n, [type |-> "punishObsoleteUnlock", lock |-> ev.lock])
                   ELSE pool
        /\ UNCHANGED <<vars, state, closedBlock, hasUnlocked, cheated>>

handlePunishedOnChain(n) ==
    LET b == log[seen[n] + 1].beneficiary
    IN  /\ HandleEvent(n, "ChannelPunished")
        /\ onContract' = [onContract EXCEPT ![n][b] = [amount |-> 0, root |-> {}]]
        /\ end' = [end EXCEPT
               ![n][b].contractBalance = @ + end[n][Other(b)].contractBalance,
               ![n][Other(b)].contractBalance = 0]
        /\ UNCHANGED <<queue, announced, disposed, nodeVars, chainVars, fate,
                       state, closedBlock, pool, hasUnlocked, cheated>>

\* removeSettledChannel
handleSettled(n) ==
    /\ HandleEvent(n, "ChannelSettled")
    /\ state' = [state EXCEPT ![n] = "Settled"]
    /\ UNCHANGED <<vars, closedBlock, onContract, pool, hasUnlocked, cheated>>

-----------------------------------------------------------------------------
(***************************************************************************)
(* The operations of Channel under the states of a channel that ends.      *)
(***************************************************************************)
\* CanTransfer
CanTransfer(n) == state[n] = "Opened"

\* The Create and Register functions refuse only a channel that IsClosed.
CanUpdate(n) == state[n] \notin {"Closed", "Settled"}

\* Mutant: a node that has sent its close still takes unlocks.
CanDealUnlockClosing(n) == state[n] \in {"Opened", "Closing"}

\* CanDealUnlock
CanDealUnlock(n) == state[n] = "Opened"

\* CanContinueTransfer
CanContinueTransfer(n) == state[n] # "Settling"

SendTransfer(n) ==
    /\ \/ CanTransfer(n) /\ \E a \in DirectAmounts : directTransferAsync(n, a)
       \/ CanTransfer(n) /\ \E l \in Locks : eventSendMediatedTransfer(n, l)
       \/ CanUpdate(n) /\ \E l \in Locks : eventSendUnlock(n, l) \/ eventUnlockFailed(n, l)
       \/ state[n] # "Settled" /\ \E l \in Locks : eventSendAnnouncedDisposed(n, l)
    /\ UNCHANGED settleVars

\* messageRemoveExpiredHashlockTransfer in a channel that cannot continue:
\* the message is acknowledged and not applied.
AcknowledgeOnly(n) ==
    /\ ~ CanContinueTransfer(n)
    /\ queue[Other(n)] # <<>>
    /\ Head(queue[Other(n)]).type = "RemoveExpired"
    /\ queue' = [queue EXCEPT ![Other(n)] = Tail(@)]
    /\ UNCHANGED <<end, announced, disposed, nodeVars, chainVars, fate>>

ReceiveTransfer(n) ==
    /\ \/ CanTransfer(n) /\ (messageDirectTransfer(n) \/ messageMediatedTransfer(n))
       \/ CanDealUnlock(n) /\ messageUnlock(n)
       \/ CanUpdate(n) /\ CanContinueTransfer(n) /\ messageRemoveExpiredHashlockTransfer(n)
       \/ CanUpdate(n) /\ messageAnnounceDisposedResponse(n)
       \/ AcknowledgeOnly(n)
    /\ UNCHANGED settleVars

\* The AnnounceDisposed is kept for a punishment; a closed channel sends no
\* balance proof without the lock any more.
ReceiveAnnounceDisposed(n, l) ==
    /\ state[n] # "Settled"
    /\ \/ CanUpdate(n) /\ messageAnnounceDisposed(n, l)
       \/ /\ ~ CanUpdate(n)
          /\ l \in announced[Other(n)]
          /\ announced' = [announced EXCEPT ![Other(n)] = @ \ {l}]
          /\ UNCHANGED <<end, queue, disposed, nodeVars, chainVars, fate>>
    /\ canPunish' = [canPunish EXCEPT ![n] =
           IF IsUnknownSecretLock(end[n][n], l) THEN @ \cup {l} ELSE @]
    /\ UNCHANGED <<state, closedBlock, onContract, hasUnlocked, pool, contract,
                   log, seen, payout, cheated>>

\* The receiver's state machine unlocks on chain when the secret appears
\* after the close: as target only before the expiration block, as mediator
\* or after a restart up to it.
SendsContractUnlock(n, l) ==
    /\ state[n] = "Closed"
    /\ LockSender[l] = Other(n)
    /\ l \in TargetLocks => registeredAt[l] < Expiration[l]

\* The secret comes after the channel's events of earlier blocks; those of its
\* own block may stand before or behind it in the block's log.
SecretRegistered(n, l) ==
    /\ state[n] # "Settled"
    /\ \A i \in 1..Len(log) : log[i].block < registeredAt[l] => i <= seen[n]
    /\ handleSecretRegisteredOnChain(n, l)
    /\ LET held == end'[n][Other(n)]
       IN  \/ /\ SendsContractUnlock(n, l) /\ l \in CanUnlockOnChain(held)
              /\ Unlock(n, {l}, onContract[n][Other(n)].amount, held.tree)
           \/ /\ ~ (SendsContractUnlock(n, l) /\ l \in CanUnlockOnChain(held))
              /\ UNCHANGED <<pool, hasUnlocked, cheated>>
    /\ UNCHANGED <<state, closedBlock, onContract, canPunish, contract, log,
                   seen, payout>>

SecretLearned(n, l) ==
    /\ state[n] # "Settled"
    /\ registerSecret(n, l)
    /\ UNCHANGED settleVars

\* A close that never makes it into a block (Close: "failure when closing
\* transaction"); any other call that is lost stays in the pool for good.
Drop(n) ==
    /\ pool[n] # <<>>
    /\ Head(pool[n]).type = "prepareSettle"
    /\ pool' = [pool EXCEPT ![n] = Tail(@)]
    /\ UNCHANGED <<vars, state, closedBlock, onContract, hasUnlocked, canPunish,
                   contract, log, seen, payout, cheated>>

FollowBlocks(n) ==
    /\ \A i \in 1..Len(log) : log[i].block <= blk[n] => i <= seen[n]
    /\ handleBlockStateChange(n)
    /\ UNCHANGED settleVars

SettleInit ==
    /\ Init
    /\ state = [n \in Nodes |-> "Opened"]
    /\ closedBlock = [n \in Nodes |-> 0]
    /\ onContract = [n \in Nodes |-> [m \in Nodes |-> [amount |-> 0, root |-> {}]]]
    /\ hasUnlocked = [n \in Nodes |-> {}]
    /\ canPunish = [n \in Nodes |-> {}]
    /\ pool = [n \in Nodes |-> <<>>]
    /\ contract = [state |-> "open", closer |-> A, closedAt |-> 0,
                   share |-> InitDeposit, proof |-> [m \in Nodes |-> NoProof],
                   unlocked |-> [m \in Nodes |-> {}]]
    /\ log = <<>>
    /\ seen = [n \in Nodes |-> 0]
    /\ payout = [n \in Nodes |-> 0]
    /\ cheated = {}

SettleNext ==
    \/ \E n \in Nodes :
          \/ SendTransfer(n) \/ ReceiveTransfer(n)
          \/ Close(n) \/ Settle(n)
          \/ handleClosed(n) \/ handleBalanceProofOnChain(n) \/ handleUnlockOnChain(n)
          \/ handlePunishedOnChain(n) \/ handleSettled(n)
          \/ prepareSettle(n) \/ updateBalanceProof(n) \/ punishObsoleteUnlock(n)
          \/ settle(n) \/ Revert(n) \/ Drop(n) \/ FollowBlocks(n)
    \/ \E n \in Nodes, l \in Locks :
          \/ ReceiveAnnounceDisposed(n, l) \/ SecretRegistered(n, l)
          \/ SecretLearned(n, l) \/ unlock(n, l)
    \/ \E S \in SUBSET Registrable : NewBlock(S) /\ UNCHANGED settleVars

SettleSpec == SettleInit /\ [][SettleNext]_allVars

-----------------------------------------------------------------------------
\* The type invariant of what the settlement adds to the channel.
SettleTypeOK ==
    /\ TypeOK
    /\ state \in [Nodes -> {"Opened", "Closing", "Closed", "Settling", "Settled"}]
    /\ closedBlock \in [Nodes -> Nat]
    /\ onContract \in [Nodes -> SettleArguments]
    /\ hasUnlocked \in [Nodes -> SUBSET Locks]
    /\ canPunish \in [Nodes -> SUBSET Locks]
    /\ pool \in [Nodes -> Seq(Calls)]
    /\ contract \in ChannelRecord
    /\ log \in Seq(Events)
    /\ seen \in [Nodes -> 0..Len(log)]
    /\ payout \in [Nodes -> Nat]
    /\ cheated \subseteq Cheaters

\* The participants whose partner was punished
Punished ==
    {m \in Nodes : \E i \in 1..Len(log) :
                      log[i].type = "ChannelPunished" /\ log[i].beneficiary = m}

HasSeenAll(n) == seen[n] = Len(log)

\* A node that has followed the events can settle: what it will pass to
\* settle (ContractTransferAmount and ContractLocksRoot of both ends, set by
\* HandleClosed, HandleBalanceProofUpdated, the unlock and punish handlers) is
\* what the contract has hashed, in whatever order proofs, unlocks and
\* punishments were mined.
SettleArgumentsMatch ==
    \A n, m \in Nodes :
        (state[n] = "Closed" /\ HasSeenAll(n)) =>
            /\ onContract[n][m].amount = contract.proof[m].amount
            /\ onContract[n][m].root = contract.proof[m].root

\* No payment is accepted after its proof can no longer be used: what the
\* contract counts as transferred to n is never less than what n has
\* registered, once n has handed in a proof (messageUnlock: "Because I've
\* already submitted balance proof, if I don't submit a new one, I'll lose
\* money").
RegisteredIsSubmitted ==
    \A n \in Nodes :
        LET proof == contract.proof[Other(n)]
        IN  (proof.nonce > 0 /\ Other(n) \notin Punished) =>
                proof.amount >= end[n][Other(n)].bp.transferAmount

\* A node that runs this code is never punished: it does not unlock a lock it
\* has disposed of, and does not dispose of one it may unlock
\* (ExternalState.Unlock, CreateAnnouceDisposed).
HonestNeverPunished == \A m \in Punished : Other(m) \in cheated

\* The punishment is final: whatever the cheater still sends, it leaves the
\* channel without a token.
CheaterLosesAll ==
    \A m \in Punished : contract.state = "gone" => payout[Other(m)] = 0

\* What o has unlocked although it had disposed of it, and was not punished for.
CheatedBy(o) ==
    /\ Other(o) \notin Punished
    /\ \E l \in disposed[o] :
           <<contract.proof[Other(o)].nonce, l>> \in contract.unlocked[Other(o)]

\* Settlement pays a node that got its proof in at least what its own books
\* say at worst: its deposit, plus what it has registered from its partner,
\* minus what it has transferred and what is still locked, although its
\* partner may have handed in an older proof, with locks that are gone since.
PaidAsAgreed ==
    \A n \in Nodes :
        LET o == Other(n)
        IN  (/\ contract.state = "gone" /\ n \notin cheated
             /\ contract.proof[o].nonce > 0 \/ end[n][o].bp.nonce = 0
             /\ ~ CheatedBy(o)) =>
                payout[n] >= deposit[n] + end[n][o].bp.transferAmount
                                - end[n][n].bp.transferAmount - AmountLocked(end[n][n])

\* The contract keeps the promise of Escrow whatever the two nodes send it.
Ledger ==
    INSTANCE Escrow WITH
        P <- A, Q <- B,
        phase <- contract.state,
        held <- IF contract.state = "gone" THEN 0 ELSE deposit[A] + deposit[B],
        paid <- payout
EscrowKept == Ledger!Spec

\* HandleClosed: "All locks I am holding that have known secrets must be
\* unlocked."  A node with a closed channel that has handled every event, and
\* whose calls are all mined, has unlocked every lock of the proof it handed in
\* whose secret was registered in time, while the contract still takes unlocks.
KnownLocksUnlocked ==
    \A n \in Nodes :
        LET proof == contract.proof[Other(n)]
        IN  (/\ state[n] = "Closed" /\ HasSeenAll(n) /\ pool[n] = <<>>
             /\ contract.state = "closed" /\ SettleBlock > height) =>
                \A l \in end[n][Other(n)].onChain \cap proof.root :
                    l \in disposed[n] \/ <<proof.nonce, l>> \in contract.unlocked[Other(n)]
=============================================================================
