-------------------------- MODULE SettlementProofs --------------------------
(***************************************************************************)
(* What is proved of Settlement: its types, that the contract keeps the    *)
(* escrow, that settle gets the arguments the contract has hashed, that no *)
(* payment is registered that the proof on the contract leaves out, that a *)
(* punishment meets only a cheater and costs it everything, and that       *)
(* settlement pays a node what its books say.                              *)
(***************************************************************************)
EXTENDS Settlement, ChannelProofs

-----------------------------------------------------------------------------
(***************************************************************************)
(* Calls, events and the steps of the channel.                             *)
(***************************************************************************)
\* What the arguments of a call are.
LEMMA CallFields ==
    ASSUME NEW tx \in Calls
    PROVE  /\ tx.type \in {"prepareSettle", "updateBalanceProof"} => tx.bp \in BalanceProofState
           /\ tx.type = "unlock" =>
                 tx.locks \in SUBSET Locks /\ tx.amount \in Nat /\ tx.root \in SUBSET Locks
           /\ tx.type = "punishObsoleteUnlock" => tx.lock \in Locks
           /\ tx.type = "settle" => tx.args \in SettleArguments
BY DEF Calls

\* The fields of an event.
LEMMA EventFields ==
    ASSUME NEW ev \in Events
    PROVE  /\ ev.block \in Nat
           /\ ev.type \in {"ChannelClosed", "BalanceProofUpdated", "ChannelUnlocked",
                           "ChannelPunished", "ChannelSettled"}
           /\ ev.type = "ChannelClosed" =>
                 ev.closer \in Nodes /\ ev.amount \in Nat /\ ev.root \in SUBSET Locks
           /\ ev.type = "BalanceProofUpdated" =>
                 ev.participant \in Nodes /\ ev.amount \in Nat /\ ev.root \in SUBSET Locks
           /\ ev.type = "ChannelUnlocked" =>
                 ev.participant \in Nodes /\ ev.amount \in Nat /\ ev.lock \in Locks
           /\ ev.type = "ChannelPunished" => ev.beneficiary \in Nodes
BY DEF Events

\* The head and the tail of a queue of calls.
LEMMA CallQueue ==
    ASSUME NEW q \in Seq(Calls), q # <<>>
    PROVE  /\ Head(q) \in Calls /\ Head(q) = q[1] /\ Tail(q) \in Seq(Calls)
           /\ Len(q) \in Nat \ {0} /\ Len(Tail(q)) = Len(q) - 1
           /\ \A i \in 1..Len(Tail(q)) : i + 1 \in 1..Len(q) /\ Tail(q)[i] = q[i + 1]
<1>1. Len(q) \in Nat \ {0} /\ \A i \in 1..Len(q) : q[i] \in Calls
  OBVIOUS
<1>2. Len(Tail(q)) = Len(q) - 1 /\ Tail(q) \in Seq(Calls) /\ Head(q) = q[1]
  OBVIOUS
<1>3. \A i \in 1..Len(Tail(q)) : i + 1 \in 1..Len(q) /\ Tail(q)[i] = q[i + 1]
  BY <1>1, <1>2
<1> QED BY <1>1, <1>2, <1>3

\* A call at the end of a queue of calls.
LEMMA CallAppended ==
    ASSUME NEW q \in Seq(Calls), NEW tx \in Calls
    PROVE  /\ Append(q, tx) \in Seq(Calls) /\ Len(q) \in Nat
           /\ Len(Append(q, tx)) = Len(q) + 1 /\ Append(q, tx)[Len(q) + 1] = tx
           /\ \A i \in 1..Len(q) : Append(q, tx)[i] = q[i]
OBVIOUS

\* An event at the end of the log.
LEMMA EventAppended ==
    ASSUME NEW q \in Seq(Events), NEW ev \in Events
    PROVE  /\ Append(q, ev) \in Seq(Events) /\ Len(q) \in Nat
           /\ Len(Append(q, ev)) = Len(q) + 1 /\ Append(q, ev)[Len(q) + 1] = ev
           /\ \A i \in 1..Len(q) : Append(q, ev)[i] = q[i]
OBVIOUS

\* The rest of the calls after one of an Unlock.
LEMMA AfterUnlockCalls ==
    ASSUME NEW n \in Nodes, pool[n] \in Seq(Calls), pool[n] # <<>>,
           Head(pool[n]).type = "unlock", NEW l \in Head(pool[n]).locks
    PROVE  /\ AfterUnlock(n, l) \in Seq(Calls)
           /\ \A i \in 1..Len(AfterUnlock(n, l)) :
                 \E j \in 1..Len(pool[n]) :
                    /\ AfterUnlock(n, l)[i].type = pool[n][j].type
                    /\ pool[n][j].type # "unlock" => AfterUnlock(n, l)[i] = pool[n][j]
                    /\ pool[n][j].type = "unlock" =>
                          AfterUnlock(n, l)[i].locks \subseteq pool[n][j].locks
<1> DEFINE q == pool[n]
           tx == Head(q)
           rest == [type |-> "unlock", locks |-> tx.locks \ {l},
                    amount |-> tx.amount + LockAmount[l], root |-> tx.root]
<1>1. /\ tx \in Calls /\ tx = q[1] /\ Tail(q) \in Seq(Calls)
      /\ Len(q) \in Nat \ {0} /\ Len(Tail(q)) = Len(q) - 1
      /\ \A i \in 1..Len(Tail(q)) : i + 1 \in 1..Len(q) /\ Tail(q)[i] = q[i + 1]
  BY CallQueue
<1>2. tx.locks \in SUBSET Locks /\ tx.amount \in Nat /\ tx.root \in SUBSET Locks
  BY <1>1, CallFields
<1>3. CASE tx.locks = {l}
  <2>1. AfterUnlock(n, l) = Tail(q)
    BY <1>3 DEF AfterUnlock
  <2> QED BY <1>1, <2>1
<1>4. CASE tx.locks # {l}
  <2>1. AfterUnlock(n, l) = <<rest>> \o Tail(q)
    BY <1>4 DEF AfterUnlock
  <2>2. tx.locks \ {l} \in SUBSET Locks /\ tx.amount + LockAmount[l] \in Nat
    BY <1>2, LocksAssumption
  <2>3. rest \in [type : {"unlock"}, locks : SUBSET Locks, amount : Nat, root : SUBSET Locks]
    BY <1>2, <2>2
  <2>4. rest \in Calls /\ rest.type = "unlock" /\ rest.locks \subseteq tx.locks
    BY <2>3 DEF Calls
  <2> HIDE DEF rest
  <2>5. /\ AfterUnlock(n, l) \in Seq(Calls)
        /\ Len(AfterUnlock(n, l)) = Len(q) /\ AfterUnlock(n, l)[1] = rest
        /\ \A i \in 2..Len(q) : AfterUnlock(n, l)[i] = q[i]
    <3>1. /\ <<rest>> \in Seq(Calls) /\ Len(<<rest>>) = 1 /\ <<rest>>[1] = rest
      BY <2>4
    <3>2. /\ <<rest>> \o Tail(q) \in Seq(Calls)
          /\ Len(<<rest>> \o Tail(q)) = 1 + Len(Tail(q))
          /\ (<<rest>> \o Tail(q))[1] = rest
          /\ \A i \in 2..(1 + Len(Tail(q))) : (<<rest>> \o Tail(q))[i] = Tail(q)[i - 1]
      BY <2>4, <1>1
    <3>3. \A i \in 2..Len(q) : Tail(q)[i - 1] = q[i]
      <4> TAKE i \in 2..Len(q)
      <4>1. i - 1 \in 1..Len(Tail(q)) /\ (i - 1) + 1 = i
        BY <1>1
      <4> QED BY <4>1, <1>1
    <3> QED BY <2>1, <3>2, <3>3, <1>1
  <2>6. ASSUME NEW i \in 1..Len(AfterUnlock(n, l))
        PROVE  /\ i \in 1..Len(q)
               /\ AfterUnlock(n, l)[i].type = q[i].type
               /\ q[i].type # "unlock" => AfterUnlock(n, l)[i] = q[i]
               /\ q[i].type = "unlock" => AfterUnlock(n, l)[i].locks \subseteq q[i].locks
    <3>1. CASE i = 1
      BY <3>1, <2>4, <2>5, <1>1
    <3>2. CASE i # 1
      BY <3>2, <2>5, <1>1
    <3> QED BY <3>1, <3>2
  <2> QED BY <2>5, <2>6
<1> QED BY <1>3, <1>4

\* What settlement does to the channel's variables beside the channel's own
\* steps: a message acknowledged without being applied, an AnnounceDisposed
\* that is only kept, the deposits after a punishment.
OffChannel(n) ==
    LET o == Other(n)
    IN  /\ UNCHANGED <<disposed, nodeVars, chainVars, fate>>
        /\ \/ /\ queue[o] # <<>> /\ queue' = [queue EXCEPT ![o] = Tail(@)]
              /\ UNCHANGED <<end, announced>>
           \/ /\ \E l \in Locks : announced' = [announced EXCEPT ![o] = @ \ {l}]
              /\ UNCHANGED <<end, queue>>
           \/ /\ \E b \in Nodes :
                    end' = [end EXCEPT
                       ![n][b].contractBalance = @ + end[n][Other(b)].contractBalance,
                       ![n][Other(b)].contractBalance = 0]
              /\ UNCHANGED <<queue, announced>>

\* Every step is a step of the channel for the channel's variables, or one of
\* these three.
LEMMA ChannelSteps ==
    ASSUME SettleTypeOK, [SettleNext]_allVars
    PROVE  [Next]_vars \/ \E n \in Nodes : OffChannel(n)
<1>1. ASSUME NEW n \in Nodes, SendTransfer(n)
      PROVE  Next
  BY <1>1 DEF SendTransfer, Next
<1>2. ASSUME NEW n \in Nodes, ReceiveTransfer(n)
      PROVE  Next \/ OffChannel(n)
  BY <1>2 DEF ReceiveTransfer, AcknowledgeOnly, OffChannel, Next, ReceiveAny
<1>3. ASSUME NEW n \in Nodes, NEW l \in Locks, ReceiveAnnounceDisposed(n, l)
      PROVE  Next \/ OffChannel(n)
  BY <1>3 DEF ReceiveAnnounceDisposed, OffChannel, Next
<1>4. ASSUME NEW n \in Nodes, NEW l \in Locks, SecretRegistered(n, l) \/ SecretLearned(n, l)
      PROVE  Next
  BY <1>4 DEF SecretRegistered, SecretLearned, Next
<1>5. ASSUME NEW n \in Nodes, FollowBlocks(n)
      PROVE  Next
  BY <1>5 DEF FollowBlocks, Next
<1>6. ASSUME NEW S \in SUBSET Registrable, NewBlock(S)
      PROVE  Next
  BY <1>6 DEF Next
<1>7. ASSUME NEW n \in Nodes, handlePunishedOnChain(n)
      PROVE  OffChannel(n)
  <2>1. /\ seen[n] \in 0..Len(log) /\ Len(log) \in Nat /\ seen[n] < Len(log)
        /\ log \in Seq(Events) /\ log[seen[n] + 1].type = "ChannelPunished"
    BY <1>7 DEF handlePunishedOnChain, HandleEvent, SettleTypeOK
  <2>2. log[seen[n] + 1] \in Events
    BY <2>1
  <2>3. log[seen[n] + 1].beneficiary \in Nodes
    BY <2>1, <2>2, EventFields
  <2> QED BY <1>7, <2>3 DEF handlePunishedOnChain, OffChannel
<1>8. ASSUME NEW n \in Nodes,
             \/ Close(n) \/ Settle(n) \/ handleClosed(n) \/ handleBalanceProofOnChain(n)
             \/ handleUnlockOnChain(n) \/ handleSettled(n) \/ Revert(n) \/ Drop(n)
      PROVE  UNCHANGED vars
  BY <1>8 DEF Close, Settle, handleClosed, handleBalanceProofOnChain, handleUnlockOnChain,
       handleSettled, Revert, Drop
<1>9. ASSUME NEW n \in Nodes,
             \/ prepareSettle(n) \/ updateBalanceProof(n) \/ punishObsoleteUnlock(n)
             \/ settle(n) \/ \E l \in Locks : unlock(n, l)
      PROVE  UNCHANGED vars
  BY <1>9 DEF prepareSettle, updateBalanceProof, punishObsoleteUnlock, settle, unlock, Mined
<1>10. CASE UNCHANGED allVars
  BY <1>10 DEF allVars
<1> QED BY <1>1, <1>2, <1>3, <1>4, <1>5, <1>6, <1>7, <1>8, <1>9, <1>10 DEF SettleNext

\* What the three other steps leave of an EndState.
LEMMA OffChannelEnds ==
    ASSUME TypeOK, NEW n \in Nodes, OffChannel(n)
    PROVE  \A k, m \in Nodes :
              /\ end'[k][m] \in EndState
              /\ end'[k][m].bp = end[k][m].bp /\ end'[k][m].tree = end[k][m].tree
              /\ end'[k][m].pending = end[k][m].pending
              /\ end'[k][m].unclaimed = end[k][m].unclaimed
              /\ end'[k][m].onChain = end[k][m].onChain
<1>1. CASE UNCHANGED end
  BY <1>1 DEF TypeOK
<1>2. ASSUME NEW b \in Nodes,
             end' = [end EXCEPT
                 ![n][b].contractBalance = @ + end[n][Other(b)].contractBalance,
                 ![n][Other(b)].contractBalance = 0]
      PROVE  \A k, m \in Nodes :
              /\ end'[k][m] \in EndState
              /\ end'[k][m].bp = end[k][m].bp /\ end'[k][m].tree = end[k][m].tree
              /\ end'[k][m].pending = end[k][m].pending
              /\ end'[k][m].unclaimed = end[k][m].unclaimed
              /\ end'[k][m].onChain = end[k][m].onChain
  <2> DEFINE o == Other(b)
             s == end[n][b].contractBalance + end[n][o].contractBalance
  <2>1. o \in Nodes /\ o # b /\ end[n][b] \in EndState /\ end[n][o] \in EndState
    BY OtherNode DEF TypeOK
  <2>2. s \in Nat
    BY <2>1 DEF EndState
  <2>3. end' = [end EXCEPT ![n] = [end[n] EXCEPT
                  ![b] = UpdateContractBalance(end[n][b], s),
                  ![o] = UpdateContractBalance(end[n][o], 0)]]
    BY <1>2, <2>1 DEF UpdateContractBalance, TypeOK
  <2>4. ASSUME NEW k \in Nodes, NEW m \in Nodes
        PROVE  \/ end'[k][m] = end[k][m]
               \/ \E x \in Nat : end'[k][m] = UpdateContractBalance(end[k][m], x)
    BY <2>1, <2>2, <2>3 DEF TypeOK
  <2> TAKE k, m \in Nodes
  <2>5. end[k][m] \in EndState
    BY DEF TypeOK
  <2>6. CASE end'[k][m] = end[k][m]
    BY <2>5, <2>6
  <2>7. ASSUME NEW x \in Nat, end'[k][m] = UpdateContractBalance(end[k][m], x)
        PROVE  /\ end'[k][m] \in EndState
               /\ end'[k][m].bp = end[k][m].bp /\ end'[k][m].tree = end[k][m].tree
               /\ end'[k][m].pending = end[k][m].pending
               /\ end'[k][m].unclaimed = end[k][m].unclaimed
               /\ end'[k][m].onChain = end[k][m].onChain
    BY <2>5, <2>7, BalanceOperator
  <2> QED BY <2>4, <2>6, <2>7
<1> QED BY <1>1, <1>2 DEF OffChannel

\* The channel keeps its types.
LEMMA ChannelTypeStep ==
    ASSUME SettleTypeOK, [SettleNext]_allVars
    PROVE  TypeOK'
<1>1. ASSUME NEW n \in Nodes, OffChannel(n)
      PROVE  TypeOK'
  <2>1. TypeOK /\ Other(n) \in Nodes
    BY OtherNode DEF SettleTypeOK
  <2>2. end' \in [Nodes -> [Nodes -> EndState]]
    <3>1. \A k, m \in Nodes : end'[k][m] \in EndState
      BY <1>1, <2>1, OffChannelEnds
    <3>2. end' \in [Nodes -> [Nodes -> EndState]] \/ \E b \in Nodes : end' = [end EXCEPT
                       ![n][b].contractBalance = @ + end[n][Other(b)].contractBalance,
                       ![n][Other(b)].contractBalance = 0]
      BY <1>1, <2>1 DEF OffChannel, TypeOK
    <3>3. ASSUME NEW b \in Nodes, end' = [end EXCEPT
                       ![n][b].contractBalance = @ + end[n][Other(b)].contractBalance,
                       ![n][Other(b)].contractBalance = 0]
          PROVE  end' \in [Nodes -> [Nodes -> EndState]]
      <4>1. end' = [k \in Nodes |-> end'[k]]
        BY <3>3, <2>1 DEF TypeOK
      <4>2. \A k \in Nodes : end'[k] = [m \in Nodes |-> end'[k][m]]
        BY <3>3, <2>1, OtherNode DEF TypeOK
      <4> QED BY <4>1, <4>2, <3>1
    <3> QED BY <3>2, <3>3
  <2>3. queue' \in [Nodes -> Seq(EnvelopMessage)]
    <3>1. queue[Other(n)] # <<>> => Tail(queue[Other(n)]) \in Seq(EnvelopMessage)
      BY <2>1, TailElements DEF TypeOK
    <3> QED BY <1>1, <2>1, <3>1 DEF OffChannel, TypeOK
  <2>4. announced' \in [Nodes -> SUBSET Locks]
    BY <1>1, <2>1 DEF OffChannel, TypeOK
  <2> QED BY <1>1, <2>1, <2>2, <2>3, <2>4 DEF OffChannel, TypeOK, nodeVars, chainVars
<1> QED BY <1>1, ChannelSteps, TypeStep DEF SettleTypeOK

(***************************************************************************)
(* The contract, field by field.                                           *)
(***************************************************************************)
\* The call that is mined, and what its sender still has to send.
LEMMA MinedCall ==
    ASSUME SettleTypeOK, NEW n \in Nodes, NEW type, Mined(n, type)
    PROVE  /\ Head(pool[n]) \in Calls /\ Head(pool[n]) = pool[n][1]
           /\ Head(pool[n]).type = type /\ Len(pool[n]) \in Nat \ {0}
           /\ pool' \in [Nodes -> Seq(Calls)]
           /\ pool' = [pool EXCEPT ![n] = Tail(pool[n])]
<1>1. pool[n] \in Seq(Calls) /\ pool[n] # <<>>
  BY DEF Mined, SettleTypeOK
<1>2. Tail(pool[n]) \in Seq(Calls) /\ Head(pool[n]) \in Calls /\ Head(pool[n]) = pool[n][1]
      /\ Len(pool[n]) \in Nat \ {0}
  BY <1>1, CallQueue
<1> QED BY <1>2 DEF Mined, SettleTypeOK

\* The fields of the contract's record of the channel.
LEMMA RecordFields ==
    ASSUME SettleTypeOK
    PROVE  /\ contract.state \in {"open", "closed", "gone"}
           /\ contract.closer \in Nodes /\ contract.closedAt \in Nat
           /\ contract.share \in [Nodes -> Nat]
           /\ contract.proof \in [Nodes -> ContractProof]
           /\ contract.unlocked \in [Nodes -> SUBSET (Nat \X Locks)]
           /\ contract = [state |-> contract.state, closer |-> contract.closer,
                          closedAt |-> contract.closedAt, share |-> contract.share,
                          proof |-> contract.proof, unlocked |-> contract.unlocked]
           /\ \A m \in Nodes : /\ contract.share[m] \in Nat
                               /\ contract.proof[m] \in ContractProof
                               /\ contract.proof[m].amount \in Nat
                               /\ contract.proof[m].root \in SUBSET Locks
                               /\ contract.proof[m].nonce \in Nat
           /\ \A m \in Nodes : deposit[m] \in Nat
           /\ height \in Nat
<1>1. contract \in ChannelRecord
  BY DEF SettleTypeOK
<1>2. /\ contract.state \in {"open", "closed", "gone"}
      /\ contract.closer \in Nodes /\ contract.closedAt \in Nat
      /\ contract.share \in [Nodes -> Nat]
      /\ contract.proof \in [Nodes -> ContractProof]
      /\ contract.unlocked \in [Nodes -> SUBSET (Nat \X Locks)]
      /\ contract = [state |-> contract.state, closer |-> contract.closer,
                     closedAt |-> contract.closedAt, share |-> contract.share,
                     proof |-> contract.proof, unlocked |-> contract.unlocked]
  BY <1>1 DEF ChannelRecord
<1>3. \A m \in Nodes : /\ contract.share[m] \in Nat
                       /\ contract.proof[m] \in ContractProof
  BY <1>2
<1>4. \A m \in Nodes : /\ contract.proof[m].amount \in Nat
                       /\ contract.proof[m].root \in SUBSET Locks
                       /\ contract.proof[m].nonce \in Nat
  BY <1>3 DEF ContractProof
<1>5. height \in Nat /\ \A m \in Nodes : deposit[m] \in Nat
  BY DEF SettleTypeOK, TypeOK
<1> QED BY <1>2, <1>3, <1>4, <1>5

\* The close that is mined.
LEMMA PrepareSettled ==
    ASSUME SettleTypeOK, NEW n \in Nodes, prepareSettle(n)
    PROVE  LET bp == Head(pool[n]).bp
               o == Other(n)
               ev == [block |-> height + 1, type |-> "ChannelClosed", closer |-> n,
                      amount |-> bp.transferAmount, root |-> bp.locksRoot]
           IN  /\ bp \in BalanceProofState
               /\ contract.state = "open" /\ contract'.state = "closed"
               /\ contract' \in ChannelRecord
               /\ contract'.share = deposit /\ contract'.unlocked = contract.unlocked
               /\ contract'.proof[n] = contract.proof[n]
               /\ contract'.proof[o] =
                     IF bp.nonce > 0
                     THEN [amount |-> bp.transferAmount, root |-> bp.locksRoot,
                           nonce |-> bp.nonce]
                     ELSE contract.proof[o]
               /\ ev \in Events /\ log' = Append(log, ev) /\ UNCHANGED payout
<1> DEFINE tx == Head(pool[n])
           bp == tx.bp
           o == Other(n)
           ev == [block |-> height + 1, type |-> "ChannelClosed", closer |-> n,
                  amount |-> bp.transferAmount, root |-> bp.locksRoot]
           new == IF bp.nonce > 0
                  THEN [amount |-> bp.transferAmount, root |-> bp.locksRoot, nonce |-> bp.nonce]
                  ELSE contract.proof[o]
<1>1. bp \in BalanceProofState /\ o \in Nodes /\ o # n
  BY MinedCall, CallFields, OtherNode DEF prepareSettle
<1>2. bp.transferAmount \in Nat /\ bp.locksRoot \in SUBSET Locks /\ bp.nonce \in Nat
  BY <1>1 DEF BalanceProofState
<1>3. ev \in Events
  BY <1>2, RecordFields DEF Events
<1>4. new \in ContractProof
  BY <1>1, <1>2, RecordFields DEF ContractProof
<1>5. contract' = [contract EXCEPT
               !.state = "closed", !.closer = n, !.closedAt = height + 1,
               !.share = deposit, !.proof[o] = new]
  BY DEF prepareSettle
<1>6. contract' = [state |-> "closed", closer |-> n, closedAt |-> height + 1, share |-> deposit,
                   proof |-> [contract.proof EXCEPT ![o] = new], unlocked |-> contract.unlocked]
  <2> HIDE DEF new
  <2> QED BY <1>5, RecordFields
<1>7. [contract.proof EXCEPT ![o] = new] \in [Nodes -> ContractProof] /\ deposit \in [Nodes -> Nat]
  <2> HIDE DEF new
  <2> QED BY <1>4, RecordFields DEF SettleTypeOK, TypeOK
<1>8. contract' \in ChannelRecord
  BY <1>6, <1>7, RecordFields DEF ChannelRecord
<1>9. contract.state = "open" /\ log' = Append(log, ev) /\ UNCHANGED payout
  BY DEF prepareSettle, prepareSettleOK, Emit
<1>10. contract'.proof[o] = new /\ contract'.proof[n] = contract.proof[n]
  <2> HIDE DEF new
  <2> QED BY <1>1, <1>6, RecordFields
<1>11. contract'.state = "closed" /\ contract'.share = deposit
       /\ contract'.unlocked = contract.unlocked
  BY <1>6
<1> QED BY <1>1, <1>3, <1>8, <1>9, <1>10, <1>11

\* The newer balance proof that is mined.
LEMMA BalanceProofUpdated ==
    ASSUME SettleTypeOK, NEW n \in Nodes, updateBalanceProof(n)
    PROVE  LET bp == Head(pool[n]).bp
               o == Other(n)
               ev == [block |-> height + 1, type |-> "BalanceProofUpdated", participant |-> o,
                      amount |-> bp.transferAmount, root |-> bp.locksRoot]
           IN  /\ bp \in BalanceProofState /\ bp.nonce > contract.proof[o].nonce
               /\ contract.state = "closed" /\ contract'.state = "closed"
               /\ contract' \in ChannelRecord
               /\ contract'.share = contract.share /\ contract'.unlocked = contract.unlocked
               /\ contract'.proof[n] = contract.proof[n]
               /\ contract'.proof[o] = [amount |-> bp.transferAmount, root |-> bp.locksRoot,
                                        nonce |-> bp.nonce]
               /\ ev \in Events /\ log' = Append(log, ev) /\ UNCHANGED payout
<1> DEFINE bp == Head(pool[n]).bp
           o == Other(n)
           ev == [block |-> height + 1, type |-> "BalanceProofUpdated", participant |-> o,
                  amount |-> bp.transferAmount, root |-> bp.locksRoot]
           new == [amount |-> bp.transferAmount, root |-> bp.locksRoot, nonce |-> bp.nonce]
<1>1. bp \in BalanceProofState /\ o \in Nodes /\ o # n
  BY MinedCall, CallFields, OtherNode DEF updateBalanceProof
<1>2. bp.transferAmount \in Nat /\ bp.locksRoot \in SUBSET Locks /\ bp.nonce \in Nat
  BY <1>1 DEF BalanceProofState
<1>3. ev \in Events
  BY <1>1, <1>2, RecordFields DEF Events
<1>4. new \in ContractProof
  BY <1>2 DEF ContractProof
<1>5. contract' = [contract EXCEPT !.proof[o] = new]
  BY DEF updateBalanceProof
<1>6. contract' = [state |-> contract.state, closer |-> contract.closer,
                   closedAt |-> contract.closedAt, share |-> contract.share,
                   proof |-> [contract.proof EXCEPT ![o] = new], unlocked |-> contract.unlocked]
  <2> HIDE DEF new
  <2> QED BY <1>5, RecordFields
<1>7. [contract.proof EXCEPT ![o] = new] \in [Nodes -> ContractProof]
  <2> HIDE DEF new
  <2> QED BY <1>4, RecordFields
<1>8. contract' \in ChannelRecord
  BY <1>6, <1>7, RecordFields DEF ChannelRecord
<1>9. /\ contract.state = "closed" /\ bp.nonce > contract.proof[o].nonce
      /\ log' = Append(log, ev) /\ UNCHANGED payout
  BY DEF updateBalanceProof, updateBalanceProofOK, Emit
<1>10. contract'.proof[o] = new /\ contract'.proof[n] = contract.proof[n]
  <2> HIDE DEF new
  <2> QED BY <1>1, <1>6, RecordFields
<1>11. contract'.state = contract.state /\ contract'.share = contract.share
       /\ contract'.unlocked = contract.unlocked
  BY <1>6
<1> QED BY <1>1, <1>3, <1>8, <1>9, <1>10, <1>11

\* The unlock that is mined.
LEMMA Unlocked ==
    ASSUME SettleTypeOK, NEW n \in Nodes, NEW l \in Locks, unlock(n, l)
    PROVE  LET tx == Head(pool[n])
               o == Other(n)
               proof == contract.proof[o]
               ev == [block |-> height + 1, type |-> "ChannelUnlocked", participant |-> o,
                      lock |-> l, amount |-> tx.amount + LockAmount[l]]
           IN  /\ pool[n] \in Seq(Calls) /\ pool[n] # <<>>
               /\ tx \in Calls /\ tx = pool[n][1] /\ tx.type = "unlock" /\ l \in tx.locks
               /\ Len(pool[n]) \in Nat \ {0}
               /\ pool' \in [Nodes -> Seq(Calls)]
               /\ pool' = [pool EXCEPT ![n] = AfterUnlock(n, l)]
               /\ contract.state = "closed" /\ contract'.state = "closed"
               /\ l \in proof.root /\ tx.amount = proof.amount
               /\ contract' \in ChannelRecord
               /\ contract'.share = contract.share
               /\ contract'.unlocked[o] = contract.unlocked[o] \cup {<<proof.nonce, l>>}
               /\ contract'.unlocked[n] = contract.unlocked[n]
               /\ contract'.proof[n] = contract.proof[n]
               /\ contract'.proof[o] = [amount |-> proof.amount + LockAmount[l],
                                        root |-> proof.root, nonce |-> proof.nonce]
               /\ ev \in Events /\ log' = Append(log, ev) /\ UNCHANGED payout
<1> DEFINE tx == Head(pool[n])
           o == Other(n)
           proof == contract.proof[o]
           ev == [block |-> height + 1, type |-> "ChannelUnlocked", participant |-> o,
                  lock |-> l, amount |-> tx.amount + LockAmount[l]]
           new == [amount |-> proof.amount + LockAmount[l], root |-> proof.root,
                   nonce |-> proof.nonce]
           more == contract.unlocked[o] \cup {<<proof.nonce, l>>}
<1>1. pool[n] \in Seq(Calls) /\ pool[n] # <<>> /\ tx.type = "unlock" /\ l \in tx.locks
  BY DEF unlock, SettleTypeOK
<1>2. /\ tx \in Calls /\ tx = pool[n][1] /\ Len(pool[n]) \in Nat \ {0}
      /\ AfterUnlock(n, l) \in Seq(Calls)
  BY <1>1, CallQueue, AfterUnlockCalls
<1>3. /\ pool' = [pool EXCEPT ![n] = AfterUnlock(n, l)]
      /\ pool' \in [Nodes -> Seq(Calls)]
  BY <1>2 DEF unlock, SettleTypeOK
<1>4. tx.amount \in Nat /\ LockAmount[l] \in Nat /\ o \in Nodes /\ o # n
  BY <1>1, <1>2, CallFields, LocksAssumption, OtherNode
<1>5. /\ contract.state = "closed" /\ l \in proof.root /\ tx.amount = proof.amount
      /\ log' = Append(log, ev) /\ UNCHANGED payout
      /\ contract' = [contract EXCEPT
               !.unlocked[o] = @ \cup {<<proof.nonce, l>>},
               !.proof[o].amount = @ + LockAmount[l]]
  BY DEF unlock, unlockOK, Emit
<1>6. /\ proof.amount \in Nat /\ proof.root \in SUBSET Locks /\ proof.nonce \in Nat
      /\ proof \in ContractProof
  BY <1>4, RecordFields
<1>7. ev \in Events
  BY <1>4, RecordFields DEF Events
<1>8. new \in ContractProof /\ more \in SUBSET (Nat \X Locks)
  <2>1. new \in ContractProof
    BY <1>4, <1>6 DEF ContractProof
  <2>2. <<proof.nonce, l>> \in Nat \X Locks
    BY <1>6
  <2>3. contract.unlocked[o] \in SUBSET (Nat \X Locks)
    BY <1>4, RecordFields
  <2> QED BY <2>1, <2>2, <2>3
<1>9. contract' = [state |-> contract.state, closer |-> contract.closer,
                   closedAt |-> contract.closedAt, share |-> contract.share,
                   proof |-> [contract.proof EXCEPT ![o] = new],
                   unlocked |-> [contract.unlocked EXCEPT ![o] = more]]
  <2>1. [proof EXCEPT !.amount = @ + LockAmount[l]] = new
    BY <1>6 DEF ContractProof
  <2>2. [contract.proof EXCEPT ![o].amount = @ + LockAmount[l]]
           = [contract.proof EXCEPT ![o] = [proof EXCEPT !.amount = @ + LockAmount[l]]]
    BY RecordFields, <1>4
  <2>3. contract' = [contract EXCEPT
                !.unlocked = [contract.unlocked EXCEPT ![o] = more],
                !.proof = [contract.proof EXCEPT ![o].amount = @ + LockAmount[l]]]
    BY <1>5
  <2>4. contract' = [contract EXCEPT
                !.unlocked = [contract.unlocked EXCEPT ![o] = more],
                !.proof = [contract.proof EXCEPT ![o] = new]]
    BY <2>1, <2>2, <2>3
  <2> HIDE DEF new, more
  <2> QED BY <2>4, RecordFields
<1>10. /\ [contract.proof EXCEPT ![o] = new] \in [Nodes -> ContractProof]
       /\ [contract.unlocked EXCEPT ![o] = more] \in [Nodes -> SUBSET (Nat \X Locks)]
  <2> HIDE DEF new, more
  <2> QED BY <1>8, RecordFields
<1>11. contract' \in ChannelRecord
  <2> HIDE DEF new, more
  <2> QED BY <1>9, <1>10, RecordFields DEF ChannelRecord
<1>12. contract'.proof[o] = new /\ contract'.proof[n] = contract.proof[n]
  <2> HIDE DEF new, more
  <2> QED BY <1>4, <1>9, RecordFields
<1>13. /\ contract'.state = contract.state /\ contract'.share = contract.share
       /\ contract'.unlocked[o] = more /\ contract'.unlocked[n] = contract.unlocked[n]
  <2> HIDE DEF new, more
  <2> QED BY <1>4, <1>9, RecordFields
<1> QED BY <1>1, <1>2, <1>3, <1>5, <1>7, <1>11, <1>12, <1>13

\* The punishment that is mined.
LEMMA ObsoleteUnlockPunished ==
    ASSUME SettleTypeOK, NEW n \in Nodes, punishObsoleteUnlock(n)
    PROVE  LET l == Head(pool[n]).lock
               ev == [block |-> height + 1, type |-> "ChannelPunished", beneficiary |-> n]
           IN  /\ <<contract.proof[n].nonce, l>> \in contract.unlocked[n]
               /\ contract.state = "closed" /\ contract'.state = "closed"
               /\ contract' \in ChannelRecord
               /\ contract'.share[n] = contract.share[A] + contract.share[B]
               /\ contract'.share[Other(n)] = 0
               /\ contract'.unlocked[n] \subseteq contract.unlocked[n]
               /\ contract'.unlocked[Other(n)] = contract.unlocked[Other(n)]
               /\ contract'.proof[Other(n)] = contract.proof[Other(n)]
               /\ contract'.proof[n] = [amount |-> 0, root |-> {}, nonce |-> MaxUint64]
               /\ ev \in Events /\ log' = Append(log, ev) /\ UNCHANGED payout
<1> DEFINE l == Head(pool[n]).lock
           ev == [block |-> height + 1, type |-> "ChannelPunished", beneficiary |-> n]
           new == [amount |-> 0, root |-> {}, nonce |-> MaxUint64]
           less == contract.unlocked[n] \ {<<contract.proof[n].nonce, l>>}
           all == [m \in Nodes |-> IF m = n THEN contract.share[A] + contract.share[B] ELSE 0]
<1>1. /\ contract.state = "closed" /\ log' = Append(log, ev) /\ UNCHANGED payout
      /\ <<contract.proof[n].nonce, l>> \in contract.unlocked[n]
      /\ contract' = [contract EXCEPT !.unlocked[n] = less, !.proof[n] = new, !.share = all]
  BY DEF punishObsoleteUnlock, punishObsoleteUnlockOK, Emit
<1>2. ev \in Events
  BY RecordFields DEF Events
<1>3. new \in ContractProof
  BY DEF ContractProof, MaxUint64
<1>4. less \in SUBSET (Nat \X Locks)
  <2>1. contract.unlocked[n] \in SUBSET (Nat \X Locks)
    BY RecordFields
  <2> QED BY <2>1
<1>5. all \in [Nodes -> Nat]
  <2>1. contract.share[A] + contract.share[B] \in Nat
    BY RecordFields DEF Nodes
  <2> QED BY <2>1
<1>6. contract' = [state |-> contract.state, closer |-> contract.closer,
                   closedAt |-> contract.closedAt, share |-> all,
                   proof |-> [contract.proof EXCEPT ![n] = new],
                   unlocked |-> [contract.unlocked EXCEPT ![n] = less]]
  <2> HIDE DEF new, less, all
  <2> QED BY <1>1, RecordFields
<1>7. /\ [contract.proof EXCEPT ![n] = new] \in [Nodes -> ContractProof]
      /\ [contract.unlocked EXCEPT ![n] = less] \in [Nodes -> SUBSET (Nat \X Locks)]
  <2> HIDE DEF new, less
  <2> QED BY <1>3, <1>4, RecordFields
<1>8. contract' \in ChannelRecord
  <2> HIDE DEF new, less, all
  <2> QED BY <1>5, <1>6, <1>7, RecordFields DEF ChannelRecord
<1>9. Other(n) \in Nodes /\ Other(n) # n
  BY OtherNode
<1>10. /\ contract'.state = contract.state /\ contract'.share = all
       /\ contract'.proof[n] = new /\ contract'.proof[Other(n)] = contract.proof[Other(n)]
       /\ contract'.unlocked[n] = less
       /\ contract'.unlocked[Other(n)] = contract.unlocked[Other(n)]
  <2> HIDE DEF new, less, all
  <2> QED BY <1>6, <1>9, RecordFields
<1>11. all[n] = contract.share[A] + contract.share[B] /\ all[Other(n)] = 0
  BY <1>9
<1>12. less \subseteq contract.unlocked[n]
  OBVIOUS
<1> HIDE DEF all, less
<1> QED BY <1>1, <1>2, <1>8, <1>10, <1>11, <1>12

\* The smaller of two numbers.
LEMMA MinOfTwo ==
    ASSUME NEW a \in Int, NEW b \in Int
    PROVE  Min({a, b}) = IF a <= b THEN a ELSE b
<1>1. \E x \in {a, b} : \A y \in {a, b} : x <= y
  <2>1. CASE a <= b
    BY <2>1
  <2>2. CASE b <= a
    BY <2>2
  <2> QED BY <2>1, <2>2
<1>2. Min({a, b}) \in {a, b} /\ \A y \in {a, b} : Min({a, b}) <= y
  BY <1>1 DEF Min
<1>3. a \in {a, b} /\ b \in {a, b}
  OBVIOUS
<1>4. Min({a, b}) <= a /\ Min({a, b}) <= b
  BY <1>2, <1>3
<1> HIDE DEF Min
<1> QED BY <1>2, <1>4

\* What settle pays out: everything, nothing negative, and all of it to the
\* one that has all of the deposits and owes nothing.
LEMMA SettleAmountsFacts ==
    ASSUME SettleTypeOK
    PROVE  LET total == contract.share[A] + contract.share[B]
           IN  /\ total \in Nat
               /\ SettleAmounts \in [Nodes -> Nat]
               /\ SettleAmounts[A] + SettleAmounts[B] = total
               /\ \A m \in Nodes :
                     contract.share[Other(m)] = 0 /\ contract.proof[m].amount = 0
                        => SettleAmounts[Other(m)] = 0
<1> DEFINE sa == contract.share[A]
           sb == contract.share[B]
           pa == contract.proof[A].amount
           pb == contract.proof[B].amount
           total == sa + sb
           net == sa + pb - pa
           first == IF net < 0 THEN 0 ELSE Min({net, total})
<1>1. A \in Nodes /\ B \in Nodes /\ A # B /\ Other(A) = B /\ Other(B) = A
      /\ \A m \in Nodes : m = A \/ m = B
  BY NodesAssumption DEF Nodes, Other
<1>2. sa \in Nat /\ sb \in Nat /\ pa \in Nat /\ pb \in Nat
  BY <1>1, RecordFields
<1>3. SettleAmounts = [m \in Nodes |-> IF m = A THEN first ELSE total - first]
  BY DEF SettleAmounts
<1> HIDE DEF sa, sb, pa, pb
<1>4. total \in Nat /\ net \in Int
  BY <1>2
<1>5. Min({net, total}) = IF net <= total THEN net ELSE total
  BY <1>4, MinOfTwo
<1>6. first = IF net < 0 THEN 0 ELSE IF net <= total THEN net ELSE total
  BY <1>5
<1>7. first \in Nat /\ first <= total
  BY <1>4, <1>6
<1>8. sa = 0 /\ pb = 0 => first = 0
  BY <1>2, <1>6
<1>9. sb = 0 /\ pa = 0 => first = total
  BY <1>2, <1>6
<1> HIDE DEF first, total, net
<1>10. total - first \in Nat /\ first + (total - first) = total
  BY <1>4, <1>7
<1>11. SettleAmounts[A] = first /\ SettleAmounts[B] = total - first
  BY <1>1, <1>3
<1>12. SettleAmounts \in [Nodes -> Nat]
  BY <1>3, <1>7, <1>10
<1>13. \A m \in Nodes : contract.share[Other(m)] = 0 /\ contract.proof[m].amount = 0
                           => SettleAmounts[Other(m)] = 0
  BY <1>1, <1>4, <1>7, <1>8, <1>9, <1>11 DEF sa, sb, pa, pb
<1> QED BY <1>4, <1>10, <1>11, <1>12, <1>13 DEF total, sa, sb

\* A participant gets what the deposits and the proofs leave it, up to all of
\* the tokens.
LEMMA SettleAmountsLeast ==
    ASSUME SettleTypeOK, NEW m \in Nodes, NEW x \in Int,
           x <= contract.share[A] + contract.share[B],
           x <= contract.share[m] + contract.proof[Other(m)].amount - contract.proof[m].amount
    PROVE  SettleAmounts[m] >= x
<1> DEFINE sa == contract.share[A]
           sb == contract.share[B]
           pa == contract.proof[A].amount
           pb == contract.proof[B].amount
           total == sa + sb
           net == sa + pb - pa
           first == IF net < 0 THEN 0 ELSE Min({net, total})
<1>1. A \in Nodes /\ B \in Nodes /\ A # B /\ Other(A) = B /\ Other(B) = A /\ (m = A \/ m = B)
  BY NodesAssumption DEF Nodes, Other
<1>2. sa \in Nat /\ sb \in Nat /\ pa \in Nat /\ pb \in Nat
  BY <1>1, RecordFields
<1>3. SettleAmounts[A] = first /\ SettleAmounts[B] = total - first
  BY <1>1 DEF SettleAmounts
<1>4. x <= total /\ (m = A => x <= net) /\ (m = B => x <= sb + pa - pb)
  BY <1>1
<1> HIDE DEF sa, sb, pa, pb
<1>5. Min({net, total}) = IF net <= total THEN net ELSE total
  BY <1>2, MinOfTwo
<1>6. first = IF net < 0 THEN 0 ELSE IF net <= total THEN net ELSE total
  BY <1>5
<1> HIDE DEF first
<1>7. (m = A => first >= x) /\ (m = B => total - first >= x)
  BY <1>2, <1>4, <1>6
<1> QED BY <1>1, <1>3, <1>7

\* The settlement that is mined.
LEMMA SettledOnce ==
    ASSUME SettleTypeOK, NEW n \in Nodes, settle(n)
    PROVE  LET ev == [block |-> height + 1, type |-> "ChannelSettled"]
           IN  /\ contract.state = "closed" /\ contract'.state = "gone"
               /\ contract' \in ChannelRecord
               /\ contract'.share = contract.share /\ contract'.proof = contract.proof
               /\ contract'.unlocked = contract.unlocked
               /\ payout' = SettleAmounts
               /\ ev \in Events /\ log' = Append(log, ev)
<1>1. contract' = [state |-> "gone", closer |-> contract.closer,
                   closedAt |-> contract.closedAt, share |-> contract.share,
                   proof |-> contract.proof, unlocked |-> contract.unlocked]
  BY RecordFields DEF settle
<1>2. contract' \in ChannelRecord
  BY <1>1, RecordFields DEF ChannelRecord
<1>3. [block |-> height + 1, type |-> "ChannelSettled"] \in Events
  BY RecordFields DEF Events
<1> QED BY <1>1, <1>2, <1>3 DEF settle, settleOK, Emit

\* Whatever else happens, the contract's record and log stay as they are.
LEMMA ContractSteps ==
    ASSUME [SettleNext]_allVars
    PROVE  /\ \/ UNCHANGED <<contract, log, payout>>
              \/ \E n \in Nodes : \/ prepareSettle(n) \/ updateBalanceProof(n)
                                  \/ punishObsoleteUnlock(n) \/ settle(n)
              \/ \E n \in Nodes, l \in Locks : unlock(n, l)
           /\ UNCHANGED deposit
<1>1. ASSUME NEW n \in Nodes, SendTransfer(n) \/ ReceiveTransfer(n)
      PROVE  UNCHANGED <<contract, log, payout, deposit>>
  <2>1. UNCHANGED settleVars
    BY <1>1 DEF SendTransfer, ReceiveTransfer
  <2>2. UNCHANGED chainVars
    BY <1>1 DEF SendTransfer, ReceiveTransfer, AcknowledgeOnly, directTransferAsync,
         eventSendMediatedTransfer, eventSendUnlock, eventUnlockFailed,
         eventSendAnnouncedDisposed, messageDirectTransfer, messageMediatedTransfer,
         messageUnlock, messageRemoveExpiredHashlockTransfer,
         messageAnnounceDisposedResponse, Receive
  <2> QED BY <2>1, <2>2 DEF settleVars, chainVars
<1>2. ASSUME NEW n \in Nodes, NEW l \in Locks, ReceiveAnnounceDisposed(n, l)
      PROVE  UNCHANGED <<contract, log, payout, deposit>>
  BY <1>2 DEF ReceiveAnnounceDisposed, messageAnnounceDisposed, chainVars
<1>3. ASSUME NEW n \in Nodes, NEW l \in Locks, SecretRegistered(n, l) \/ SecretLearned(n, l)
      PROVE  UNCHANGED <<contract, log, payout, deposit>>
  BY <1>3 DEF SecretRegistered, SecretLearned, settleVars, handleSecretRegisteredOnChain,
       registerSecret, chainVars
<1>4. ASSUME NEW n \in Nodes, FollowBlocks(n)
      PROVE  UNCHANGED <<contract, log, payout, deposit>>
  BY <1>4 DEF FollowBlocks, handleBlockStateChange, settleVars, chainVars
<1>5. ASSUME NEW S \in SUBSET Registrable, NewBlock(S), UNCHANGED settleVars
      PROVE  UNCHANGED <<contract, log, payout, deposit>>
  BY <1>5 DEF NewBlock, settleVars
<1>6. ASSUME NEW n \in Nodes,
             \/ Close(n) \/ Settle(n) \/ handleClosed(n) \/ handleBalanceProofOnChain(n)
             \/ handleUnlockOnChain(n) \/ handleSettled(n) \/ Revert(n) \/ Drop(n)
             \/ handlePunishedOnChain(n)
      PROVE  UNCHANGED <<contract, log, payout, deposit>>
  BY <1>6 DEF Close, Settle, handleClosed, handleBalanceProofOnChain, handleUnlockOnChain,
       handleSettled, handlePunishedOnChain, HandleEvent, Revert, Drop, vars, chainVars
<1>7. ASSUME NEW n \in Nodes,
             \/ prepareSettle(n) \/ updateBalanceProof(n) \/ punishObsoleteUnlock(n)
             \/ settle(n) \/ \E l \in Locks : unlock(n, l)
      PROVE  UNCHANGED deposit
  BY <1>7 DEF prepareSettle, updateBalanceProof, punishObsoleteUnlock, settle, unlock, Mined, vars
<1>8. CASE UNCHANGED allVars
  BY <1>8 DEF allVars, vars, settleVars
<1> QED BY <1>1, <1>2, <1>3, <1>4, <1>5, <1>6, <1>7, <1>8 DEF SettleNext

(***************************************************************************)
(* The calls of a node.                                                    *)
(***************************************************************************)
\* A call that is estimated is appended to the sender's calls or not sent.
LEMMA SentCalls ==
    ASSUME SettleTypeOK, NEW n \in Nodes, NEW tx \in Calls
    PROVE  /\ Sent(n, tx) \in [Nodes -> Seq(Calls)]
           /\ Sent(n, tx) = pool \/ Sent(n, tx) = [pool EXCEPT ![n] = Append(pool[n], tx)]
<1>1. pool \in [Nodes -> Seq(Calls)] /\ Append(pool[n], tx) \in Seq(Calls)
  BY CallAppended DEF SettleTypeOK
<1>2. Sent(n, tx) = pool \/ Sent(n, tx) = [pool EXCEPT ![n] = Append(pool[n], tx)]
  BY DEF Sent
<1> QED BY <1>1, <1>2

\* Unlock sends the calls for some of the locks, none that the node has
\* disposed of unless it cheats, or nothing.
UnlockSent(n, S, amount, root) ==
    /\ S # {} /\ S \subseteq Locks
    /\ pool' = [pool EXCEPT ![n] = Append(pool[n],
           [type |-> "unlock", locks |-> S, amount |-> amount, root |-> root])]
    /\ hasUnlocked' = [hasUnlocked EXCEPT ![n] = hasUnlocked[n] \cup S]
    /\ \/ cheated' = cheated /\ S \cap disposed[n] = {}
       \/ n \in Cheaters /\ cheated' = cheated \cup {n}

\* Unlocking on chain changes nothing, or hands in one call for some of the locks.
LEMMA UnlockKinds ==
    ASSUME SettleTypeOK, NEW n \in Nodes, NEW locks \in SUBSET Locks, NEW amount \in Nat,
           NEW root \in SUBSET Locks, Unlock(n, locks, amount, root)
    PROVE  /\ \/ UNCHANGED <<pool, hasUnlocked, cheated>>
              \/ \E S \in SUBSET locks : UnlockSent(n, S, amount, root)
           /\ pool' \in [Nodes -> Seq(Calls)]
           /\ hasUnlocked' \in [Nodes -> SUBSET Locks]
           /\ cheated' \subseteq Cheaters
<1> USE DEF SettleTypeOK
<1>1. ASSUME SendUnlocks(n, ToUnlock(n, locks), amount, root), UNCHANGED cheated
      PROVE  \E S \in SUBSET locks : UnlockSent(n, S, amount, root)
  <2>1. ToUnlock(n, locks) \in SUBSET locks /\ ToUnlock(n, locks) \cap disposed[n] = {}
    BY DEF ToUnlock
  <2>2. UnlockSent(n, ToUnlock(n, locks), amount, root)
    BY <1>1, <2>1 DEF SendUnlocks, UnlockSent
  <2> QED BY <2>1, <2>2
<1>2. ASSUME n \in Cheaters, cheated' = cheated \cup {n},
             SendUnlocks(n, locks \ hasUnlocked[n], amount, root)
      PROVE  \E S \in SUBSET locks : UnlockSent(n, S, amount, root)
  <2>1. locks \ hasUnlocked[n] \in SUBSET locks
    OBVIOUS
  <2>2. UnlockSent(n, locks \ hasUnlocked[n], amount, root)
    BY <1>2, <2>1 DEF SendUnlocks, UnlockSent
  <2> QED BY <2>1, <2>2
<1>3. CASE UNCHANGED <<pool, hasUnlocked, cheated>>
  BY <1>3
<1>4. ASSUME NEW S \in SUBSET locks, UnlockSent(n, S, amount, root)
      PROVE  /\ pool' \in [Nodes -> Seq(Calls)]
             /\ hasUnlocked' \in [Nodes -> SUBSET Locks]
             /\ cheated' \subseteq Cheaters
  <2>1. [type |-> "unlock", locks |-> S, amount |-> amount, root |-> root] \in Calls
    BY DEF Calls
  <2>2. Append(pool[n], [type |-> "unlock", locks |-> S, amount |-> amount, root |-> root])
           \in Seq(Calls)
    BY <2>1, CallAppended
  <2>3. pool' \in [Nodes -> Seq(Calls)]
    BY <1>4, <2>2 DEF UnlockSent
  <2>4. hasUnlocked' \in [Nodes -> SUBSET Locks]
    BY <1>4 DEF UnlockSent
  <2>5. cheated' \subseteq Cheaters
    BY <1>4 DEF UnlockSent
  <2> QED BY <2>3, <2>4, <2>5
<1> HIDE DEF SettleTypeOK
<1>5. \/ UNCHANGED <<pool, hasUnlocked, cheated>>
      \/ \E S \in SUBSET locks : UnlockSent(n, S, amount, root)
  BY <1>1, <1>2 DEF Unlock
<1>6. CASE UNCHANGED <<pool, hasUnlocked, cheated>>
  BY <1>3, <1>6
<1> QED BY <1>4, <1>5, <1>6

\* The event a node handles.
LEMMA HandledEvent ==
    ASSUME SettleTypeOK, NEW n \in Nodes, NEW type, HandleEvent(n, type)
    PROVE  /\ seen[n] \in Nat /\ Len(log) \in Nat
           /\ seen[n] + 1 \in 1..Len(log) /\ log[seen[n] + 1] \in Events
           /\ log[seen[n] + 1].type = type
           /\ seen' = [seen EXCEPT ![n] = seen[n] + 1]
           /\ seen' \in [Nodes -> 0..Len(log)]
           /\ UNCHANGED <<canPunish, contract, log, payout>>
<1>1. seen \in [Nodes -> 0..Len(log)] /\ log \in Seq(Events) /\ Len(log) \in Nat
  BY DEF SettleTypeOK
<1>2. /\ seen[n] < Len(log) /\ log[seen[n] + 1].type = type
      /\ seen' = [seen EXCEPT ![n] = seen[n] + 1]
      /\ UNCHANGED <<canPunish, contract, log, payout>>
  BY DEF HandleEvent
<1>3. seen[n] \in Nat /\ seen[n] + 1 \in 1..Len(log)
  BY <1>1, <1>2
<1>4. log[seen[n] + 1] \in Events
  BY <1>1, <1>3
<1>5. seen' \in [Nodes -> 0..Len(log)]
  BY <1>1, <1>2, <1>3
<1> QED BY <1>2, <1>3, <1>4, <1>5, <1>1

\* The lists of arguments for settle that the handlers keep.
LEMMA ArgumentsKept ==
    ASSUME SettleTypeOK, NEW n \in Nodes, NEW m \in Nodes,
           NEW a \in Nat, NEW r \in SUBSET Locks
    PROVE  /\ [onContract EXCEPT ![n][m] = [amount |-> a, root |-> r]] \in [Nodes -> SettleArguments]
           /\ [onContract EXCEPT ![n][m].amount = a] \in [Nodes -> SettleArguments]
           /\ \A k, j \in Nodes : /\ onContract[k][j].amount \in Nat
                                  /\ onContract[k][j].root \in SUBSET Locks
<1>1. /\ onContract \in [Nodes -> [Nodes -> [amount : Nat, root : SUBSET Locks]]]
      /\ SettleArguments = [Nodes -> [amount : Nat, root : SUBSET Locks]]
  BY DEF SettleTypeOK, SettleArguments
<1>2. \A k, j \in Nodes : onContract[k][j] \in [amount : Nat, root : SUBSET Locks]
  BY <1>1
<1>3. [onContract EXCEPT ![n][m] = [amount |-> a, root |-> r]]
          \in [Nodes -> [Nodes -> [amount : Nat, root : SUBSET Locks]]]
  BY <1>1
<1>4. [onContract[n][m] EXCEPT !.amount = a] \in [amount : Nat, root : SUBSET Locks]
  BY <1>2
<1>5. [onContract EXCEPT ![n][m].amount = a]
         = [onContract EXCEPT ![n][m] = [onContract[n][m] EXCEPT !.amount = a]]
  BY <1>1
<1>6. [onContract EXCEPT ![n][m].amount = a]
          \in [Nodes -> [Nodes -> [amount : Nat, root : SUBSET Locks]]]
  BY <1>1, <1>4, <1>5
<1> QED BY <1>1, <1>2, <1>3, <1>6

(***************************************************************************)
(* Type correctness.                                                       *)
(***************************************************************************)
\* The steps of the contract keep the types.
LEMMA ContractTypeStep ==
    ASSUME SettleTypeOK, TypeOK', NEW n \in Nodes,
           \/ prepareSettle(n) \/ updateBalanceProof(n) \/ punishObsoleteUnlock(n)
           \/ settle(n) \/ \E l \in Locks : unlock(n, l)
    PROVE  SettleTypeOK'
<1> DEFINE Kept == UNCHANGED <<state, closedBlock, onContract, hasUnlocked, canPunish, seen, cheated>>
           Grown == \E ev \in Events : log' = Append(log, ev)
<1>1. ASSUME Kept, Grown, contract' \in ChannelRecord, pool' \in [Nodes -> Seq(Calls)],
             payout' \in [Nodes -> Nat]
      PROVE  SettleTypeOK'
  <2>1. PICK ev \in Events : log' = Append(log, ev)
    BY <1>1
  <2>2. log' \in Seq(Events) /\ Len(log') = Len(log) + 1 /\ Len(log) \in Nat
    BY <2>1, EventAppended DEF SettleTypeOK
  <2>3. seen' \in [Nodes -> 0..Len(log')]
    BY <1>1, <2>2 DEF SettleTypeOK
  <2> QED BY <1>1, <2>2, <2>3 DEF SettleTypeOK
<1>2. ASSUME prepareSettle(n) PROVE SettleTypeOK'
  <2>1. Mined(n, "prepareSettle") /\ Kept
    BY <1>2 DEF prepareSettle, Mined
  <2>2. contract' \in ChannelRecord /\ Grown /\ UNCHANGED payout
    BY <1>2, PrepareSettled
  <2> QED BY <1>1, <2>1, <2>2, MinedCall DEF SettleTypeOK
<1>3. ASSUME updateBalanceProof(n) PROVE SettleTypeOK'
  <2>1. Mined(n, "updateBalanceProof") /\ Kept
    BY <1>3 DEF updateBalanceProof, Mined
  <2>2. contract' \in ChannelRecord /\ Grown /\ UNCHANGED payout
    BY <1>3, BalanceProofUpdated
  <2> QED BY <1>1, <2>1, <2>2, MinedCall DEF SettleTypeOK
<1>4. ASSUME punishObsoleteUnlock(n) PROVE SettleTypeOK'
  <2>1. Mined(n, "punishObsoleteUnlock") /\ Kept
    BY <1>4 DEF punishObsoleteUnlock, Mined
  <2>2. contract' \in ChannelRecord /\ Grown /\ UNCHANGED payout
    BY <1>4, ObsoleteUnlockPunished
  <2> QED BY <1>1, <2>1, <2>2, MinedCall DEF SettleTypeOK
<1>5. ASSUME settle(n) PROVE SettleTypeOK'
  <2>1. Mined(n, "settle") /\ Kept
    BY <1>5 DEF settle, Mined
  <2>2. contract' \in ChannelRecord /\ Grown /\ payout' = SettleAmounts
    BY <1>5, SettledOnce
  <2>3. payout' \in [Nodes -> Nat]
    BY <2>2, SettleAmountsFacts
  <2> QED BY <1>1, <2>1, <2>2, <2>3, MinedCall
<1>6. ASSUME NEW l \in Locks, unlock(n, l) PROVE SettleTypeOK'
  <2>1. Kept
    BY <1>6 DEF unlock
  <2>2. contract' \in ChannelRecord /\ Grown /\ UNCHANGED payout /\ pool' \in [Nodes -> Seq(Calls)]
    BY <1>6, Unlocked
  <2> QED BY <1>1, <2>1, <2>2 DEF SettleTypeOK
<1> QED BY <1>2, <1>3, <1>4, <1>5, <1>6

\* So do the handlers of the contract's events.
LEMMA EventTypeStep ==
    ASSUME SettleTypeOK, TypeOK', NEW n \in Nodes,
           \/ handleClosed(n) \/ handleBalanceProofOnChain(n) \/ handleUnlockOnChain(n)
           \/ handlePunishedOnChain(n) \/ handleSettled(n)
    PROVE  SettleTypeOK'
<1> DEFINE ev == log[seen[n] + 1]
           o == Other(n)
<1>1. /\ o \in Nodes /\ end[n][o] \in EndState
      /\ end[n][o].bp \in BalanceProofState /\ end[n][o].onChain \in SUBSET Locks
      /\ end[n][o].tree \in SUBSET Locks
  <2>1. o \in Nodes
    BY OtherNode
  <2>2. end[n][o] \in EndState
    BY <2>1 DEF SettleTypeOK, TypeOK
  <2> QED BY <2>1, <2>2 DEF EndState
<1>2. ASSUME handleClosed(n) PROVE SettleTypeOK'
  <2>1. HandleEvent(n, "ChannelClosed")
    BY <1>2 DEF handleClosed
  <2>2. ev \in Events /\ ev.type = "ChannelClosed" /\ seen' \in [Nodes -> 0..Len(log)]
        /\ UNCHANGED <<canPunish, contract, log, payout>>
    BY <2>1, HandledEvent
  <2>3. ev.amount \in Nat /\ ev.root \in SUBSET Locks /\ ev.block \in Nat
    BY <2>2, EventFields
  <2>4. state' \in [Nodes -> {"Opened", "Closing", "Closed", "Settling", "Settled"}]
        /\ closedBlock' \in [Nodes -> Nat]
    BY <1>2, <2>3 DEF handleClosed, SettleTypeOK
  <2>5. onContract' \in [Nodes -> SettleArguments]
    <3>1. PICK m \in Nodes : onContract' =
                 [onContract EXCEPT ![n][m] = [amount |-> ev.amount, root |-> ev.root]]
      BY <1>1, <1>2 DEF handleClosed
    <3> QED BY <2>3, <3>1, ArgumentsKept
  <2>6. /\ pool' \in [Nodes -> Seq(Calls)] /\ hasUnlocked' \in [Nodes -> SUBSET Locks]
        /\ cheated' \subseteq Cheaters
    <3>1. CASE Unlock(n, CanUnlockOnChain(end[n][o]), ev.amount, end[n][o].tree)
      BY <1>1, <2>3, <3>1, UnlockKinds DEF CanUnlockOnChain
    <3>2. CASE /\ pool' = Sent(n, [type |-> "updateBalanceProof", bp |-> end[n][o].bp])
               /\ UNCHANGED <<hasUnlocked, cheated>>
      <4>1. [type |-> "updateBalanceProof", bp |-> end[n][o].bp] \in Calls
        BY <1>1 DEF Calls
      <4> QED BY <3>2, <4>1, SentCalls DEF SettleTypeOK
    <3> QED BY <1>2, <3>1, <3>2 DEF handleClosed
  <2> QED BY <2>2, <2>4, <2>5, <2>6 DEF SettleTypeOK
<1>3. ASSUME handleBalanceProofOnChain(n) PROVE SettleTypeOK'
  <2>1. HandleEvent(n, "BalanceProofUpdated") /\ UNCHANGED <<state, closedBlock>>
    BY <1>3 DEF handleBalanceProofOnChain
  <2>2. ev \in Events /\ ev.type = "BalanceProofUpdated" /\ seen' \in [Nodes -> 0..Len(log)]
        /\ UNCHANGED <<canPunish, contract, log, payout>>
    BY <2>1, HandledEvent
  <2>3. ev.amount \in Nat /\ ev.root \in SUBSET Locks /\ ev.participant \in Nodes
    BY <2>2, EventFields
  <2>4. onContract' \in [Nodes -> SettleArguments]
    BY <1>3, <2>3, ArgumentsKept DEF handleBalanceProofOnChain
  <2>5. /\ pool' \in [Nodes -> Seq(Calls)] /\ hasUnlocked' \in [Nodes -> SUBSET Locks]
        /\ cheated' \subseteq Cheaters
    <3>1. CASE Unlock(n, CanUnlockOnChain(end[n][o]), onContract[n][o].amount, end[n][o].tree)
      <4>1. onContract[n][o].amount \in Nat
        BY <1>1, <2>3, ArgumentsKept
      <4> QED BY <1>1, <3>1, <4>1, UnlockKinds DEF CanUnlockOnChain
    <3>2. CASE UNCHANGED <<pool, hasUnlocked, cheated>>
      BY <3>2 DEF SettleTypeOK
    <3> QED BY <1>3, <3>1, <3>2 DEF handleBalanceProofOnChain
  <2> QED BY <2>1, <2>2, <2>4, <2>5 DEF SettleTypeOK
<1>4. ASSUME handleUnlockOnChain(n) PROVE SettleTypeOK'
  <2>1. HandleEvent(n, "ChannelUnlocked")
        /\ UNCHANGED <<state, closedBlock, hasUnlocked, cheated>>
    BY <1>4 DEF handleUnlockOnChain
  <2>2. ev \in Events /\ ev.type = "ChannelUnlocked" /\ seen' \in [Nodes -> 0..Len(log)]
        /\ UNCHANGED <<canPunish, contract, log, payout>>
    BY <2>1, HandledEvent
  <2>3. ev.amount \in Nat /\ ev.lock \in Locks /\ ev.participant \in Nodes
    BY <2>2, EventFields
  <2>4. onContract' \in [Nodes -> SettleArguments]
    <3>1. {} \in SUBSET Locks
      OBVIOUS
    <3> QED BY <1>4, <2>3, <3>1, ArgumentsKept DEF handleUnlockOnChain
  <2>5. pool' \in [Nodes -> Seq(Calls)]
    <3>1. [type |-> "punishObsoleteUnlock", lock |-> ev.lock] \in Calls
      BY <2>3 DEF Calls
    <3>2. Sent(n, [type |-> "punishObsoleteUnlock", lock |-> ev.lock]) \in [Nodes -> Seq(Calls)]
      BY <3>1, SentCalls
    <3> QED BY <1>4, <3>2 DEF handleUnlockOnChain, SettleTypeOK
  <2> QED BY <2>1, <2>2, <2>4, <2>5 DEF SettleTypeOK
<1>5. ASSUME handlePunishedOnChain(n) PROVE SettleTypeOK'
  <2>1. HandleEvent(n, "ChannelPunished")
        /\ UNCHANGED <<state, closedBlock, pool, hasUnlocked, cheated>>
        /\ onContract' = [onContract EXCEPT ![n][ev.beneficiary] = [amount |-> 0, root |-> {}]]
    BY <1>5 DEF handlePunishedOnChain
  <2>2. ev \in Events /\ ev.type = "ChannelPunished" /\ seen' \in [Nodes -> 0..Len(log)]
        /\ UNCHANGED <<canPunish, contract, log, payout>>
    BY <2>1, HandledEvent
  <2>3. ev.beneficiary \in Nodes
    BY <2>2, EventFields
  <2>4. onContract' \in [Nodes -> SettleArguments]
    <3>1. {} \in SUBSET Locks /\ 0 \in Nat
      OBVIOUS
    <3> QED BY <2>1, <2>3, <3>1, ArgumentsKept
  <2> QED BY <2>1, <2>2, <2>4 DEF SettleTypeOK
<1>6. ASSUME handleSettled(n) PROVE SettleTypeOK'
  <2>1. HandleEvent(n, "ChannelSettled")
        /\ UNCHANGED <<closedBlock, onContract, pool, hasUnlocked, cheated>>
        /\ state' = [state EXCEPT ![n] = "Settled"]
    BY <1>6 DEF handleSettled
  <2>2. seen' \in [Nodes -> 0..Len(log)] /\ UNCHANGED <<canPunish, contract, log, payout>>
    BY <2>1, HandledEvent
  <2> QED BY <2>1, <2>2 DEF SettleTypeOK
<1> QED BY <1>2, <1>3, <1>4, <1>5, <1>6

\* Every step keeps the types.
LEMMA SettleTypeStep ==
    ASSUME SettleTypeOK, [SettleNext]_allVars
    PROVE  SettleTypeOK'
<1>1. TypeOK'
  BY ChannelTypeStep
<1>2. CASE UNCHANGED settleVars
  BY <1>1, <1>2 DEF SettleTypeOK, settleVars
<1>3. ASSUME NEW n \in Nodes, NEW l \in Locks, ReceiveAnnounceDisposed(n, l)
      PROVE  SettleTypeOK'
  BY <1>1, <1>3 DEF ReceiveAnnounceDisposed, SettleTypeOK
<1>4. ASSUME NEW n \in Nodes, NEW l \in Locks, SecretRegistered(n, l)
      PROVE  SettleTypeOK'
  <2> DEFINE o == Other(n)
  <2>1. o \in Nodes /\ onContract[n][o].amount \in Nat
    <3>1. o \in Nodes /\ {} \in SUBSET Locks /\ 0 \in Nat
      BY OtherNode
    <3> QED BY <3>1, ArgumentsKept
  <2>2. {l} \in SUBSET Locks /\ end'[n][o].tree \in SUBSET Locks
    BY <1>1, <2>1 DEF TypeOK, EndState
  <2>3. /\ pool' \in [Nodes -> Seq(Calls)] /\ hasUnlocked' \in [Nodes -> SUBSET Locks]
        /\ cheated' \subseteq Cheaters
    <3>1. CASE Unlock(n, {l}, onContract[n][o].amount, end'[n][o].tree)
      <4>1. PICK a \in Nat, r \in SUBSET Locks : Unlock(n, {l}, a, r)
        BY <2>1, <2>2, <3>1
      <4> QED BY <2>2, <4>1, UnlockKinds
    <3>2. CASE UNCHANGED <<pool, hasUnlocked, cheated>>
      BY <3>2 DEF SettleTypeOK
    <3> QED BY <1>4, <3>1, <3>2 DEF SecretRegistered
  <2>4. UNCHANGED <<state, closedBlock, onContract, canPunish, contract, log, seen, payout>>
    BY <1>4 DEF SecretRegistered
  <2> QED BY <1>1, <2>3, <2>4 DEF SettleTypeOK
<1>5. ASSUME NEW n \in Nodes, Close(n) \/ Settle(n)
      PROVE  SettleTypeOK'
  <2>1. /\ UNCHANGED <<closedBlock, onContract, hasUnlocked, canPunish, contract, log, seen,
                       payout, cheated>>
        /\ state' \in [Nodes -> {"Opened", "Closing", "Closed", "Settling", "Settled"}]
    BY <1>5 DEF Close, Settle, SettleTypeOK
  <2>2. \E tx \in Calls : pool' = Sent(n, tx)
    <3>1. CASE Close(n)
      <4>1. Other(n) \in Nodes /\ end[n][Other(n)] \in EndState
        BY OtherNode DEF SettleTypeOK, TypeOK
      <4>2. [type |-> "prepareSettle", bp |-> end[n][Other(n)].bp] \in Calls
        BY <4>1 DEF Calls, EndState
      <4> QED BY <3>1, <4>2 DEF Close
    <3>2. CASE Settle(n)
      <4>1. [type |-> "settle", args |-> onContract[n]] \in Calls
        BY DEF Calls, SettleTypeOK
      <4> QED BY <3>2, <4>1 DEF Settle
    <3> QED BY <1>5, <3>1, <3>2
  <2>3. pool' \in [Nodes -> Seq(Calls)]
    BY <2>2, SentCalls
  <2> QED BY <1>1, <2>1, <2>3 DEF SettleTypeOK
<1>6. ASSUME NEW n \in Nodes, Revert(n) \/ Drop(n)
      PROVE  SettleTypeOK'
  <2>1. /\ UNCHANGED <<state, closedBlock, onContract, hasUnlocked, canPunish, contract, log,
                       seen, payout, cheated>>
        /\ pool[n] \in Seq(Calls) /\ pool[n] # <<>>
    BY <1>6 DEF Revert, Drop, SettleTypeOK
  <2>2. \/ pool' = [pool EXCEPT ![n] = Tail(pool[n])]
        \/ \E l \in Head(pool[n]).locks : /\ Head(pool[n]).type = "unlock"
                                          /\ pool' = [pool EXCEPT ![n] = AfterUnlock(n, l)]
    BY <1>6 DEF Revert, Drop
  <2>3. Tail(pool[n]) \in Seq(Calls)
    BY <2>1, CallQueue
  <2>4. ASSUME NEW l \in Head(pool[n]).locks, Head(pool[n]).type = "unlock"
        PROVE  AfterUnlock(n, l) \in Seq(Calls)
    BY <2>1, <2>4, AfterUnlockCalls
  <2>5. pool' \in [Nodes -> Seq(Calls)]
    BY <2>2, <2>3, <2>4 DEF SettleTypeOK
  <2> QED BY <1>1, <2>1, <2>5 DEF SettleTypeOK
<1>7. ASSUME NEW n \in Nodes,
             SendTransfer(n) \/ ReceiveTransfer(n) \/ FollowBlocks(n)
      PROVE  UNCHANGED settleVars
  BY <1>7 DEF SendTransfer, ReceiveTransfer, FollowBlocks
<1>8. ASSUME NEW n \in Nodes, NEW l \in Locks, SecretLearned(n, l)
      PROVE  UNCHANGED settleVars
  BY <1>8 DEF SecretLearned
<1>9. CASE UNCHANGED allVars
  BY <1>2, <1>9 DEF allVars
<1> QED BY <1>1, <1>2, <1>3, <1>4, <1>5, <1>6, <1>7, <1>8, <1>9, ContractTypeStep, EventTypeStep
        DEF SettleNext

\* The settlement starts with the types.
LEMMA SettleTypeInit == SettleInit => SettleTypeOK
<1> SUFFICES ASSUME SettleInit PROVE SettleTypeOK
  OBVIOUS
<1>1. TypeOK
  BY TypeInit DEF SettleInit
<1>2. A \in Nodes
  BY DEF Nodes
<1>3. contract \in ChannelRecord
  BY <1>2, NumbersAssumption DEF SettleInit, ChannelRecord, NoProof, ContractProof
<1>4. onContract \in [Nodes -> SettleArguments]
  BY DEF SettleInit, SettleArguments
<1>5. log \in Seq(Events) /\ pool \in [Nodes -> Seq(Calls)]
  <2>1. log = <<>> /\ pool = [n \in Nodes |-> <<>>]
    BY DEF SettleInit
  <2>2. <<>> \in Seq(Events) /\ <<>> \in Seq(Calls)
    OBVIOUS
  <2> QED BY <2>1, <2>2
<1>6. seen \in [Nodes -> 0..Len(log)]
  BY DEF SettleInit
<1>7. /\ state \in [Nodes -> {"Opened", "Closing", "Closed", "Settling", "Settled"}]
      /\ closedBlock \in [Nodes -> Nat] /\ hasUnlocked \in [Nodes -> SUBSET Locks]
      /\ canPunish \in [Nodes -> SUBSET Locks] /\ payout \in [Nodes -> Nat]
      /\ cheated \subseteq Cheaters
  BY DEF SettleInit
<1> QED BY <1>1, <1>3, <1>4, <1>5, <1>6, <1>7 DEF SettleTypeOK

\* What the settlement adds to the channel always has its type; no amount on
\* the contract or in settle becomes negative.
THEOREM SettleTypeCorrect == SettleSpec => []SettleTypeOK
<1>1. SettleTypeOK /\ [SettleNext]_allVars => SettleTypeOK'
  BY SettleTypeStep
<1> QED BY <1>1, SettleTypeInit, PTL DEF SettleSpec

(***************************************************************************)
(* The escrow.  Once the channel is closed the two shares add up to the    *)
(* deposits, whoever was punished, and nothing is paid before the channel  *)
(* is gone; so what settle pays is what the contract holds.                *)
(***************************************************************************)
MoneyInv ==
    /\ contract.state # "open" =>
          contract.share[A] + contract.share[B] = deposit[A] + deposit[B]
    /\ contract.state # "gone" => payout = [m \in Nodes |-> 0]

\* The names of Escrow under the refinement mapping.
Tokens == IF contract.state = "gone" THEN 0 ELSE deposit[A] + deposit[B]

\* The parts of Escrow, in the names of this module.
LEMMA LedgerNames ==
    /\ Ledger!Init <=> /\ contract.state = "open" /\ Tokens \in Nat
                       /\ payout = [m \in {A, B} |-> 0]
    /\ Ledger!Close <=> /\ contract.state = "open" /\ contract'.state = "closed"
                        /\ UNCHANGED <<Tokens, payout>>
    /\ Ledger!PayAll <=>
          /\ contract.state \in {"open", "closed"} /\ contract'.state = "gone"
          /\ Tokens' = 0 /\ Tokens' \in 0..Tokens
          /\ payout' \in [{A, B} -> Nat]
          /\ \A m \in {A, B} : payout'[m] >= payout[m]
          /\ Tokens' + payout'[A] + payout'[B] = Tokens + payout[A] + payout[B]
BY DEF Ledger!Init, Ledger!Close, Ledger!PayAll, Ledger!Conserved, Ledger!Participants, Tokens

\* A step keeps the money together and is a step of Escrow.
LEMMA MoneyStep ==
    ASSUME SettleTypeOK, MoneyInv, [SettleNext]_allVars
    PROVE  /\ MoneyInv'
           /\ Ledger!Next \/ UNCHANGED <<contract.state, Tokens, payout>>
<1>1. /\ deposit' = deposit /\ deposit[A] \in Nat /\ deposit[B] \in Nat /\ A # B
      /\ A \in Nodes /\ B \in Nodes /\ Nodes = {A, B}
      /\ contract.share[A] \in Nat /\ contract.share[B] \in Nat
  BY ContractSteps, RecordFields, NodesAssumption DEF Nodes
<1>2. ASSUME NEW n \in Nodes, prepareSettle(n)
      PROVE  MoneyInv' /\ Ledger!Close
  <2>1. contract.state = "open" /\ contract'.state = "closed" /\ contract'.share = deposit
        /\ UNCHANGED payout
    BY <1>2, PrepareSettled
  <2> QED BY <1>1, <2>1, LedgerNames DEF MoneyInv, Tokens
<1>3. ASSUME NEW n \in Nodes, updateBalanceProof(n)
      PROVE  MoneyInv' /\ UNCHANGED <<contract.state, Tokens, payout>>
  <2>1. contract.state = "closed" /\ contract'.state = "closed"
        /\ contract'.share = contract.share /\ UNCHANGED payout
    BY <1>3, BalanceProofUpdated
  <2> QED BY <1>1, <2>1 DEF MoneyInv, Tokens
<1>4. ASSUME NEW n \in Nodes, NEW l \in Locks, unlock(n, l)
      PROVE  MoneyInv' /\ UNCHANGED <<contract.state, Tokens, payout>>
  <2>1. contract.state = "closed" /\ contract'.state = "closed"
        /\ contract'.share = contract.share /\ UNCHANGED payout
    BY <1>4, Unlocked
  <2> QED BY <1>1, <2>1 DEF MoneyInv, Tokens
<1>5. ASSUME NEW n \in Nodes, punishObsoleteUnlock(n)
      PROVE  MoneyInv' /\ UNCHANGED <<contract.state, Tokens, payout>>
  <2>1. contract.state = "closed" /\ contract'.state = "closed"
        /\ contract'.share[n] = contract.share[A] + contract.share[B]
        /\ contract'.share[Other(n)] = 0 /\ UNCHANGED payout
    BY <1>5, ObsoleteUnlockPunished
  <2>2. contract'.share[A] + contract'.share[B] = contract.share[A] + contract.share[B]
    BY <1>1, <2>1 DEF Nodes, Other
  <2> QED BY <1>1, <2>1, <2>2 DEF MoneyInv, Tokens
<1>6. ASSUME NEW n \in Nodes, settle(n)
      PROVE  MoneyInv' /\ Ledger!PayAll
  <2>1. contract.state = "closed" /\ contract'.state = "gone"
        /\ contract'.share = contract.share /\ payout' = SettleAmounts
    BY <1>6, SettledOnce
  <2>2. /\ payout' \in [Nodes -> Nat]
        /\ payout'[A] + payout'[B] = contract.share[A] + contract.share[B]
    BY <2>1, SettleAmountsFacts
  <2>3. payout = [m \in Nodes |-> 0]
        /\ contract.share[A] + contract.share[B] = deposit[A] + deposit[B]
    BY <2>1 DEF MoneyInv
  <2>4. MoneyInv'
    BY <1>1, <2>1, <2>3 DEF MoneyInv
  <2>5. /\ Tokens = deposit[A] + deposit[B] /\ Tokens' = 0
        /\ payout[A] = 0 /\ payout[B] = 0
        /\ payout'[A] \in Nat /\ payout'[B] \in Nat
    BY <1>1, <2>1, <2>2, <2>3 DEF Tokens
  <2>6. Tokens \in Nat /\ Tokens' \in 0..Tokens
        /\ Tokens' + payout'[A] + payout'[B] = Tokens + payout[A] + payout[B]
        /\ payout'[A] >= payout[A] /\ payout'[B] >= payout[B]
    BY <1>1, <2>2, <2>3, <2>5
  <2> HIDE DEF Tokens
  <2>7. \A m \in {A, B} : payout'[m] >= payout[m]
    BY <2>6
  <2>8. payout' \in [{A, B} -> Nat]
    BY <1>1, <2>2
  <2>9. Ledger!PayAll
    BY <2>1, <2>5, <2>6, <2>7, <2>8, LedgerNames
  <2> QED BY <2>4, <2>9
<1>7. CASE UNCHANGED <<contract, log, payout>>
  BY <1>1, <1>7 DEF MoneyInv, Tokens
<1> QED BY <1>2, <1>3, <1>4, <1>5, <1>6, <1>7, ContractSteps DEF Ledger!Next

\* The money stays together.
LEMMA MoneyAlways == SettleSpec => []MoneyInv
<1>1. SettleInit => MoneyInv
  BY DEF SettleInit, MoneyInv
<1>2. SettleTypeOK /\ MoneyInv /\ [SettleNext]_allVars => MoneyInv'
  BY MoneyStep
<1> QED BY <1>1, <1>2, SettleTypeCorrect, PTL DEF SettleSpec

\* The contract keeps the promise of Escrow for any deposits, locks and proofs,
\* whatever the two participants send it: every step of the settlement is a
\* step of Escrow or leaves its tokens alone.
THEOREM EscrowTheorem == SettleSpec => EscrowKept
<1>1. SettleInit => Ledger!Init
  <2> SUFFICES ASSUME SettleInit PROVE Ledger!Init
    OBVIOUS
  <2>1. A \in Nodes /\ B \in Nodes /\ Nodes = {A, B}
    BY DEF Nodes
  <2>2. deposit[A] \in Nat /\ deposit[B] \in Nat
    BY <2>1, SettleTypeInit, RecordFields
  <2>3. contract.state = "open" /\ payout = [m \in {A, B} |-> 0]
    BY <2>1 DEF SettleInit
  <2>4. Tokens \in Nat
    BY <2>2, <2>3 DEF Tokens
  <2> QED BY <2>3, <2>4, LedgerNames
<1>2. SettleTypeOK /\ MoneyInv /\ [SettleNext]_allVars
         => [Ledger!Next]_<<contract.state, Tokens, payout>>
  BY MoneyStep
<1> QED BY <1>1, <1>2, SettleTypeCorrect, MoneyAlways, PTL
        DEF SettleSpec, EscrowKept, Ledger!Spec, Tokens

(***************************************************************************)
(* What a step does to the partner's half of the channel at a node.        *)
(***************************************************************************)
SameBooks(e, f) ==
    /\ f.bp = e.bp /\ f.pending = e.pending
    /\ f.unclaimed = e.unclaimed /\ f.onChain = e.onChain

\* Sending a message changes the sender's own half.
LEMMA SendsChangeOwnHalf ==
    ASSUME SettleTypeOK, NEW k \in Nodes, NEW msg, Send(k, msg), NEW n \in Nodes
    PROVE  end'[n][Other(n)] = end[n][Other(n)]
BY OtherNode DEF Send, SettleTypeOK, TypeOK

\* A node's copy of its partner's half changes when it registers a message,
\* after it has closed only one that takes a lock out, or learns a secret.
LEMMA PartnerSteps ==
    ASSUME SettleTypeOK, [SettleNext]_allVars, NEW n \in Nodes
    PROVE  \/ SameBooks(end[n][Other(n)], end'[n][Other(n)])
           \/ \E type \in {"DirectTransfer"} \cup LockMessages :
                 /\ Receive(n, type)
                 /\ state[n] = "Opened" \/ type \in {"RemoveExpired", "AnnounceDisposedResponse"}
           \/ \E l \in Locks : registerSecret(n, l) \/ handleSecretRegisteredOnChain(n, l)
<1> DEFINE Same == SameBooks(end[n][Other(n)], end'[n][Other(n)])
<1>1. Other(n) \in Nodes /\ Other(n) # n /\ Other(Other(n)) = n
      /\ \A k \in Nodes : k = n \/ k = Other(n)
  BY OtherNode, NodesAssumption DEF Nodes, Other
<1>2. end'[n][Other(n)] = end[n][Other(n)] => Same
  BY DEF SameBooks
<1>3. ASSUME NEW k \in Nodes, SendTransfer(k)
      PROVE  Same
  <2>1. (\E msg : Send(k, msg)) \/ UNCHANGED end
    BY <1>3 DEF SendTransfer, directTransferAsync, eventSendMediatedTransfer, eventSendUnlock,
         eventUnlockFailed, eventSendAnnouncedDisposed
  <2> QED BY <1>2, <2>1, SendsChangeOwnHalf
<1>4. ASSUME NEW k \in Nodes, NEW type, Receive(k, type), k # n
      PROVE  Same
  <2>1. k = Other(n) /\ Other(k) = n
    BY <1>1, <1>4
  <2>2. end'[n] = end[n]
    BY <1>1, <1>4, <2>1 DEF Receive, SettleTypeOK, TypeOK
  <2> QED BY <1>2, <2>2
<1>5. ASSUME NEW k \in Nodes, ReceiveTransfer(k)
      PROVE  \/ UNCHANGED end
             \/ \E type \in {"DirectTransfer"} \cup LockMessages :
                   /\ Receive(k, type)
                   /\ state[k] = "Opened" \/ type \in {"RemoveExpired", "AnnounceDisposedResponse"}
  BY <1>5 DEF ReceiveTransfer, AcknowledgeOnly, CanTransfer, CanDealUnlock, messageDirectTransfer,
       messageMediatedTransfer, messageUnlock, messageRemoveExpiredHashlockTransfer,
       messageAnnounceDisposedResponse, LockMessages
<1>6. ASSUME NEW k \in Nodes, NEW l \in Locks, ReceiveAnnounceDisposed(k, l)
      PROVE  Same
  <2>1. (\E msg : Send(k, msg)) \/ UNCHANGED end
    BY <1>6 DEF ReceiveAnnounceDisposed, messageAnnounceDisposed
  <2> QED BY <1>2, <2>1, SendsChangeOwnHalf
<1>7. ASSUME NEW k \in Nodes, NEW l \in Locks, SecretRegistered(k, l) \/ SecretLearned(k, l)
      PROVE  registerSecret(k, l) \/ handleSecretRegisteredOnChain(k, l)
  BY <1>7 DEF SecretRegistered, SecretLearned
<1>8. ASSUME NEW k \in Nodes, NEW l \in Locks, k # n,
             registerSecret(k, l) \/ handleSecretRegisteredOnChain(k, l)
      PROVE  Same
  <2>1. end'[n] = end[n]
    BY <1>1, <1>8 DEF registerSecret, handleSecretRegisteredOnChain, SettleTypeOK, TypeOK
  <2> QED BY <1>2, <2>1
<1>9. ASSUME NEW k \in Nodes, FollowBlocks(k)
      PROVE  Same
  BY <1>2, <1>9 DEF FollowBlocks, handleBlockStateChange
<1>10. ASSUME NEW S \in SUBSET Registrable, NewBlock(S)
       PROVE  Same
  BY <1>2, <1>10 DEF NewBlock
<1>11. ASSUME NEW k \in Nodes, handlePunishedOnChain(k)
       PROVE  Same
  <2>1. /\ seen[k] + 1 \in 1..Len(log) /\ log[seen[k] + 1] \in Events
        /\ log[seen[k] + 1].type = "ChannelPunished"
    BY <1>11, HandledEvent DEF handlePunishedOnChain
  <2>2. log[seen[k] + 1].beneficiary \in Nodes
    BY <2>1, EventFields
  <2>3. OffChannel(k)
    BY <1>11, <2>2 DEF handlePunishedOnChain, OffChannel
  <2> QED BY <1>1, <2>3, OffChannelEnds DEF SameBooks, SettleTypeOK
<1>12. ASSUME NEW k \in Nodes,
             \/ Close(k) \/ Settle(k) \/ handleClosed(k) \/ handleBalanceProofOnChain(k)
             \/ handleUnlockOnChain(k) \/ handleSettled(k) \/ Revert(k) \/ Drop(k)
      PROVE  UNCHANGED vars
  BY <1>12 DEF Close, Settle, handleClosed, handleBalanceProofOnChain, handleUnlockOnChain,
       handleSettled, Revert, Drop
<1>13. ASSUME NEW k \in Nodes,
             \/ prepareSettle(k) \/ updateBalanceProof(k) \/ punishObsoleteUnlock(k)
             \/ settle(k) \/ \E l \in Locks : unlock(k, l)
      PROVE  UNCHANGED vars
  BY <1>13 DEF prepareSettle, updateBalanceProof, punishObsoleteUnlock, settle, unlock, Mined
<1>14. UNCHANGED vars \/ UNCHANGED allVars => Same
  BY <1>2 DEF vars, allVars
<1> DEFINE Registers ==
             \E type \in {"DirectTransfer"} \cup LockMessages :
                 /\ Receive(n, type)
                 /\ state[n] = "Opened" \/ type \in {"RemoveExpired", "AnnounceDisposedResponse"}
           Learns == \E l \in Locks : registerSecret(n, l) \/ handleSecretRegisteredOnChain(n, l)
<1>15. ASSUME NEW k \in Nodes, ReceiveTransfer(k)
       PROVE  Same \/ Registers
  <2>1. CASE UNCHANGED end
    BY <1>2, <2>1
  <2>2. CASE k = n
    BY <1>2, <1>5, <1>15, <2>2
  <2>3. ASSUME k # n, ~ UNCHANGED end
        PROVE  Same
    <3>1. PICK type \in {"DirectTransfer"} \cup LockMessages : Receive(k, type)
      BY <1>5, <1>15, <2>3
    <3> QED BY <1>4, <2>3, <3>1
  <2> QED BY <2>1, <2>2, <2>3
<1>16. ASSUME NEW k \in Nodes, NEW l \in Locks, SecretRegistered(k, l) \/ SecretLearned(k, l)
       PROVE  Same \/ Learns
  <2>1. CASE k = n
    BY <1>7, <1>16, <2>1
  <2>2. CASE k # n
    BY <1>7, <1>8, <1>16, <2>2
  <2> QED BY <2>1, <2>2
<1>17. Same \/ Registers \/ Learns
  <2> HIDE DEF Same, Registers, Learns
  <2> QED BY <1>3, <1>6, <1>9, <1>10, <1>11, <1>12, <1>13, <1>14, <1>15, <1>16 DEF SettleNext
<1> QED BY <1>17

\* What remains of the partner's half: after the close no transferred amount
\* is added and no secret gets lost, and a proof that changes has a nonce.
LEMMA PartnerKept ==
    ASSUME SettleTypeOK, [SettleNext]_allVars, NEW n \in Nodes
    PROVE  LET e == end[n][Other(n)]
               f == end'[n][Other(n)]
           IN  /\ state[n] # "Opened" => f.bp.transferAmount = e.bp.transferAmount
               /\ state[n] # "Opened" =>
                     \A l \in Locks : IsUnknownSecretLock(f, l) => IsUnknownSecretLock(e, l)
               /\ f.bp = e.bp \/ f.bp.nonce > 0
<1> DEFINE o == Other(n)
           e == end[n][o]
           f == end'[n][o]
           Goal == /\ state[n] # "Opened" => f.bp.transferAmount = e.bp.transferAmount
                   /\ state[n] # "Opened" =>
                         \A l \in Locks : IsUnknownSecretLock(f, l) => IsUnknownSecretLock(e, l)
                   /\ f.bp = e.bp \/ f.bp.nonce > 0
<1>1. o \in Nodes /\ o # n /\ e \in EndState
  BY OtherNode DEF SettleTypeOK, TypeOK
<1>2. CASE SameBooks(e, f)
  BY <1>2 DEF SameBooks, IsUnknownSecretLock
<1>3. ASSUME NEW type \in {"DirectTransfer"} \cup LockMessages, Receive(n, type),
             state[n] = "Opened" \/ type \in {"RemoveExpired", "AnnounceDisposedResponse"}
      PROVE  Goal
  <2> DEFINE msg == Head(queue[o])
  <2>1. /\ queue[o] # <<>> /\ queue[o] \in Seq(EnvelopMessage) /\ msg.type = type
        /\ RegisterTransferOK(e, end[n][n], msg, blk[n])
        /\ end' = [end EXCEPT ![n][o] = RegisterTransfer(e, msg)]
    BY <1>1, <1>3 DEF Receive, CanReceive, SettleTypeOK, TypeOK
  <2>2. msg \in EnvelopMessage
    BY <2>1
  <2>3. f = RegisterTransfer(e, msg)
    BY <1>1, <2>1 DEF SettleTypeOK, TypeOK
  <2> HIDE DEF msg
  <2>4. f.bp = msg.bp /\ msg.bp.nonce = e.bp.nonce + 1
    BY <1>1, <2>1, <2>2, <2>3, RegisterTransferType
       DEF RegisterTransferOK, PreCheckReceivedTransfer
  <2>5. e.bp.nonce \in Nat
    BY <1>1 DEF EndState, BalanceProofState
  <2>6. f.bp.nonce > 0
    BY <2>4, <2>5
  <2>7. ASSUME type \in {"RemoveExpired", "AnnounceDisposedResponse"}
        PROVE  /\ f.bp.transferAmount = e.bp.transferAmount
               /\ \A l \in Locks : IsUnknownSecretLock(f, l) => IsUnknownSecretLock(e, l)
    <3>1. msg.bp.transferAmount = e.bp.transferAmount
      BY <2>1, <2>7 DEF RegisterTransferOK, RegisterRemoveLockOK
    <3>2. AddedLocks(msg) = {}
      BY <2>1, <2>7 DEF AddedLocks
    <3>3. /\ f.pending = e.pending \ RemovedLocks(msg)
          /\ f.unclaimed = e.unclaimed \ RemovedLocks(msg)
          /\ f.onChain = e.onChain \ RemovedLocks(msg)
      BY <1>1, <2>3, <3>2 DEF RegisterTransfer, EndState
    <3> QED BY <2>4, <3>1, <3>3 DEF IsUnknownSecretLock
  <2> QED BY <1>3, <2>6, <2>7
<1>4. ASSUME NEW l \in Locks, registerSecret(n, l) \/ handleSecretRegisteredOnChain(n, l)
      PROVE  Goal
  <2>1. LockSender[l] \in Nodes
    BY LocksAssumption
  <2>2. \/ f = e
        \/ f = RegisterSecret(e, l)
        \/ f = RegisterRevealedSecretHash(e, l, registeredAt[l])
    <3>1. PICK g : /\ end' = [end EXCEPT ![n][LockSender[l]] = g]
                   /\ \/ g = RegisterSecret(end[n][LockSender[l]], l)
                      \/ g = RegisterRevealedSecretHash(end[n][LockSender[l]], l, registeredAt[l])
      BY <1>4 DEF registerSecret, handleSecretRegisteredOnChain
    <3>2. f = IF LockSender[l] = o THEN g ELSE e
      BY <1>1, <2>1, <3>1 DEF SettleTypeOK, TypeOK
    <3> QED BY <3>1, <3>2
  <2>3. f.bp = e.bp
    BY <1>1, <2>2, SecretOperators
  <2>4. \A x \in Locks : IsUnknownSecretLock(f, x) => IsUnknownSecretLock(e, x)
    <3>1. CASE f = e
      BY <3>1
    <3>2. CASE f = RegisterSecret(e, l)
      BY <1>1, <3>2 DEF RegisterSecret, IsUnknownSecretLock, EndState
    <3>3. CASE f = RegisterRevealedSecretHash(e, l, registeredAt[l])
      BY <1>1, <3>3 DEF RegisterRevealedSecretHash, IsUnknownSecretLock, IsKnown, EndState
    <3> QED BY <2>2, <3>1, <3>2, <3>3
  <2> QED BY <2>3, <2>4
<1>5. Goal
  BY <1>2, <1>3, <1>4, PartnerSteps
<1> QED BY <1>5

\* The books of the channel hold after its end, too.
LEMMA SettleBooksAlways == SettleSpec => []BooksMatchProof
<1>1. SettleInit => BooksMatchProof
  BY BooksInit DEF SettleInit
<1>2. SettleTypeOK /\ BooksMatchProof /\ [SettleNext]_allVars => BooksMatchProof'
  <2> SUFFICES ASSUME SettleTypeOK, BooksMatchProof, [SettleNext]_allVars
               PROVE  BooksMatchProof'
    OBVIOUS
  <2>1. TypeOK
    BY DEF SettleTypeOK
  <2>2. ASSUME NEW k \in Nodes, OffChannel(k)
        PROVE  BooksMatchProof'
    BY <2>1, <2>2, OffChannelEnds DEF BooksMatchProof, Books
  <2> QED BY <2>1, <2>2, ChannelSteps, BooksStep
<1> QED BY <1>1, <1>2, SettleTypeCorrect, PTL DEF SettleSpec

(***************************************************************************)
(* The order of events: the log starts with the close, and a node that has *)
(* handled an event has closed the channel.                                *)
(***************************************************************************)
Ended == {"Closed", "Settling", "Settled"}

LogInv ==
    /\ contract.state = "open" <=> Len(log) = 0
    /\ Len(log) > 0 => log[1].type = "ChannelClosed"
    /\ \A n \in Nodes : seen[n] > 0 => state[n] \in Ended

\* The state of a node's channel, and how far it has followed the log.
LEMMA StateSteps ==
    ASSUME SettleTypeOK, [SettleNext]_allVars, NEW n \in Nodes
    PROVE  \/ state'[n] = state[n] /\ seen'[n] = seen[n]
           \/ /\ state[n] \in {"Opened", "Closing"} /\ state'[n] = "Closing"
              /\ seen'[n] = seen[n]
           \/ state[n] = "Closed" /\ state'[n] = "Settling" /\ seen'[n] = seen[n]
           \/ /\ seen[n] + 1 \in 1..Len(log) /\ seen'[n] = seen[n] + 1 /\ log' = log
              /\ state'[n] \in {"Closed", "Settled"}
           \/ /\ seen[n] + 1 \in 1..Len(log) /\ seen'[n] = seen[n] + 1 /\ log' = log
              /\ state'[n] = state[n] /\ log[seen[n] + 1].type # "ChannelClosed"
<1> DEFINE Still == state'[n] = state[n] /\ seen'[n] = seen[n]
           Closing == /\ state[n] \in {"Opened", "Closing"} /\ state'[n] = "Closing"
                      /\ seen'[n] = seen[n]
           Settling == state[n] = "Closed" /\ state'[n] = "Settling" /\ seen'[n] = seen[n]
           Ends == /\ seen[n] + 1 \in 1..Len(log) /\ seen'[n] = seen[n] + 1 /\ log' = log
                   /\ state'[n] \in {"Closed", "Settled"}
           Advances == /\ seen[n] + 1 \in 1..Len(log) /\ seen'[n] = seen[n] + 1 /\ log' = log
                      /\ state'[n] = state[n] /\ log[seen[n] + 1].type # "ChannelClosed"
           Goal == Still \/ Closing \/ Settling \/ Ends \/ Advances
<1>1. UNCHANGED <<state, seen>> => Goal
  OBVIOUS
<1>2. ASSUME NEW k \in Nodes, SendTransfer(k) \/ ReceiveTransfer(k) \/ FollowBlocks(k)
      PROVE  Goal
  BY <1>1, <1>2 DEF SendTransfer, ReceiveTransfer, FollowBlocks, settleVars
<1>3. ASSUME NEW k \in Nodes, NEW l \in Locks,
             ReceiveAnnounceDisposed(k, l) \/ SecretRegistered(k, l) \/ SecretLearned(k, l)
      PROVE  Goal
  BY <1>1, <1>3 DEF ReceiveAnnounceDisposed, SecretRegistered, SecretLearned, settleVars
<1>4. ASSUME NEW k \in Nodes, Revert(k) \/ Drop(k)
      PROVE  Goal
  BY <1>1, <1>4 DEF Revert, Drop
<1>5. ASSUME NEW k \in Nodes,
             \/ prepareSettle(k) \/ updateBalanceProof(k) \/ punishObsoleteUnlock(k)
             \/ settle(k) \/ \E l \in Locks : unlock(k, l)
      PROVE  Goal
  BY <1>1, <1>5 DEF prepareSettle, updateBalanceProof, punishObsoleteUnlock, settle, unlock, Mined
<1>6. ASSUME NEW k \in Nodes, Close(k) \/ Settle(k)
      PROVE  Goal
  BY <1>6 DEF Close, Settle, SettleTypeOK
<1>7. ASSUME NEW k \in Nodes, NEW type, HandleEvent(k, type),
             \/ /\ type \in {"ChannelClosed", "ChannelSettled"}
                /\ \E s \in {"Closed", "Settled"} : state' = [state EXCEPT ![k] = s]
             \/ type # "ChannelClosed" /\ state' = state
      PROVE  Goal
  <2>1. /\ seen[k] + 1 \in 1..Len(log) /\ log[seen[k] + 1].type = type
        /\ seen' = [seen EXCEPT ![k] = seen[k] + 1] /\ UNCHANGED log
    BY <1>7, HandledEvent
  <2>2. CASE k = n
    BY <1>7, <2>1, <2>2 DEF SettleTypeOK
  <2>3. CASE k # n
    BY <1>7, <2>1, <2>3 DEF SettleTypeOK
  <2> QED BY <2>2, <2>3
<1>8. ASSUME NEW k \in Nodes,
             \/ handleClosed(k) \/ handleBalanceProofOnChain(k) \/ handleUnlockOnChain(k)
             \/ handlePunishedOnChain(k) \/ handleSettled(k)
      PROVE  Goal
  <2> HIDE DEF Goal
  <2>1. CASE handleClosed(k)
    <3>1. HandleEvent(k, "ChannelClosed") /\ state' = [state EXCEPT ![k] = "Closed"]
      BY <2>1 DEF handleClosed
    <3> QED BY <1>7, <3>1
  <2>2. CASE handleBalanceProofOnChain(k)
    <3>1. HandleEvent(k, "BalanceProofUpdated") /\ state' = state
      BY <2>2 DEF handleBalanceProofOnChain
    <3> QED BY <1>7, <3>1
  <2>3. CASE handleUnlockOnChain(k)
    <3>1. HandleEvent(k, "ChannelUnlocked") /\ state' = state
      BY <2>3 DEF handleUnlockOnChain
    <3> QED BY <1>7, <3>1
  <2>4. CASE handlePunishedOnChain(k)
    <3>1. HandleEvent(k, "ChannelPunished") /\ state' = state
      BY <2>4 DEF handlePunishedOnChain
    <3> QED BY <1>7, <3>1
  <2>5. CASE handleSettled(k)
    <3>1. HandleEvent(k, "ChannelSettled") /\ state' = [state EXCEPT ![k] = "Settled"]
      BY <2>5 DEF handleSettled
    <3> QED BY <1>7, <3>1
  <2> QED BY <1>8, <2>1, <2>2, <2>3, <2>4, <2>5
<1>9. ASSUME NEW S \in SUBSET Registrable, NewBlock(S), UNCHANGED settleVars
      PROVE  Goal
  BY <1>1, <1>9 DEF settleVars
<1>10. ASSUME UNCHANGED allVars
       PROVE  Goal
  BY <1>1, <1>10 DEF allVars, settleVars
<1>11. Goal
  <2> HIDE DEF Goal
  <2>1. ASSUME NEW k \in Nodes, NEW l \in Locks, unlock(k, l)
        PROVE  Goal
    BY <1>5, <2>1
  <2> QED BY <1>2, <1>3, <1>4, <1>5, <1>6, <1>8, <1>9, <1>10, <2>1 DEF SettleNext
<1> QED BY <1>11

\* A step of the contract appends one event to the log.
LEMMA LogSteps ==
    ASSUME SettleTypeOK, [SettleNext]_allVars
    PROVE  \/ UNCHANGED <<contract, log, payout>>
           \/ \E ev \in Events :
                 /\ log' = Append(log, ev) /\ contract'.state # "open"
                 /\ \/ contract.state = "open" /\ ev.type = "ChannelClosed"
                    \/ contract.state = "closed" /\ ev.type # "ChannelClosed"
<1>1. ASSUME NEW n \in Nodes, prepareSettle(n)
      PROVE  \E ev \in Events : /\ log' = Append(log, ev) /\ contract'.state = "closed"
                                /\ contract.state = "open" /\ ev.type = "ChannelClosed"
  BY <1>1, PrepareSettled
<1>2. ASSUME NEW n \in Nodes, updateBalanceProof(n)
      PROVE  \E ev \in Events : /\ log' = Append(log, ev) /\ contract'.state = "closed"
                                /\ contract.state = "closed" /\ ev.type # "ChannelClosed"
  BY <1>2, BalanceProofUpdated
<1>3. ASSUME NEW n \in Nodes, punishObsoleteUnlock(n)
      PROVE  \E ev \in Events : /\ log' = Append(log, ev) /\ contract'.state = "closed"
                                /\ contract.state = "closed" /\ ev.type # "ChannelClosed"
  BY <1>3, ObsoleteUnlockPunished
<1>4. ASSUME NEW n \in Nodes, settle(n)
      PROVE  \E ev \in Events : /\ log' = Append(log, ev) /\ contract'.state = "gone"
                                /\ contract.state = "closed" /\ ev.type # "ChannelClosed"
  BY <1>4, SettledOnce
<1>5. ASSUME NEW n \in Nodes, NEW l \in Locks, unlock(n, l)
      PROVE  \E ev \in Events : /\ log' = Append(log, ev) /\ contract'.state = "closed"
                                /\ contract.state = "closed" /\ ev.type # "ChannelClosed"
  <2> DEFINE e == [block |-> height + 1, type |-> "ChannelUnlocked", participant |-> Other(n),
                   lock |-> l, amount |-> Head(pool[n]).amount + LockAmount[l]]
  <2>1. /\ e \in Events /\ log' = Append(log, e)
        /\ contract.state = "closed" /\ contract'.state = "closed"
    BY <1>5, Unlocked
  <2>2. e.type # "ChannelClosed"
    OBVIOUS
  <2> HIDE DEF e
  <2> QED BY <2>1, <2>2
<1> QED BY <1>1, <1>2, <1>3, <1>4, <1>5, ContractSteps

\* The log and the states of the channel stay in order.
LEMMA LogAlways == SettleSpec => []LogInv
<1>1. SettleInit => LogInv
  BY DEF SettleInit, LogInv
<1>2. SettleTypeOK /\ LogInv /\ [SettleNext]_allVars => LogInv'
  <2> SUFFICES ASSUME SettleTypeOK, LogInv, [SettleNext]_allVars
               PROVE  LogInv'
    OBVIOUS
  <2>1. log \in Seq(Events) /\ Len(log) \in Nat /\ \A n \in Nodes : seen[n] \in Nat
    BY DEF SettleTypeOK
  <2>2. /\ contract'.state = "open" <=> Len(log') = 0
        /\ Len(log') > 0 => log'[1].type = "ChannelClosed"
    <3>1. CASE UNCHANGED <<contract, log, payout>>
      BY <3>1 DEF LogInv
    <3>2. ASSUME NEW ev \in Events, log' = Append(log, ev), contract'.state # "open",
                 \/ contract.state = "open" /\ ev.type = "ChannelClosed"
                 \/ contract.state = "closed" /\ ev.type # "ChannelClosed"
          PROVE  /\ contract'.state = "open" <=> Len(log') = 0
                 /\ Len(log') > 0 => log'[1].type = "ChannelClosed"
      <4>1. /\ Len(log') = Len(log) + 1 /\ log'[Len(log) + 1] = ev
            /\ \A i \in 1..Len(log) : log'[i] = log[i]
        BY <2>1, <3>2, EventAppended
      <4> QED BY <2>1, <3>2, <4>1 DEF LogInv
    <3> QED BY <3>1, <3>2, LogSteps
  <2>3. ASSUME NEW n \in Nodes, seen'[n] > 0
        PROVE  state'[n] \in Ended
    <3>1. seen[n] > 0 => state[n] \in Ended
      BY DEF LogInv
    <3>2. seen[n] + 1 \in 1..Len(log) /\ log[seen[n] + 1].type # "ChannelClosed" => seen[n] > 0
      BY <2>1 DEF LogInv
    <3> QED BY <2>1, <2>3, <3>1, <3>2, StateSteps DEF Ended
  <2> QED BY <2>2, <2>3 DEF LogInv
<1> QED BY <1>1, <1>2, SettleTypeCorrect, PTL DEF SettleSpec

(***************************************************************************)
(* What a step does to the calls of the nodes.                             *)
(***************************************************************************)
\* A call other than unlock that node n has just sent.
SendsCall(n, tx) ==
    \/ tx.type = "prepareSettle" /\ tx.bp = end'[n][Other(n)].bp /\ state'[n] = "Closing"
    \/ tx.type = "updateBalanceProof" /\ tx.bp = end'[n][Other(n)].bp /\ state'[n] = "Closed"
    \/ tx.type = "settle"
    \/ tx.type = "punishObsoleteUnlock" /\ tx.lock \in canPunish[n]

SentStep(n) ==
    \E tx \in Calls : /\ pool' = [pool EXCEPT ![n] = Append(pool[n], tx)]
                      /\ SendsCall(n, tx)

\* The first call of node n has left the pool.
MinedStep(n) ==
    /\ pool[n] # <<>>
    /\ \/ pool' = [pool EXCEPT ![n] = Tail(pool[n])]
       \/ /\ Head(pool[n]).type = "unlock"
          /\ \E l \in Head(pool[n]).locks : pool' = [pool EXCEPT ![n] = AfterUnlock(n, l)]

\* Node n unlocks some of the locks whose secrets are on chain.
UnlockStep(n) ==
    /\ \E S \in SUBSET end'[n][Other(n)].onChain, a \in Nat, r \in SUBSET Locks :
          UnlockSent(n, S, a, r)
    /\ state'[n] \in Ended
    /\ UNCHANGED <<disposed, contract>>

\* A call that is sent, mined or dropped, the calls of an Unlock, or nothing.
LEMMA CallSteps ==
    ASSUME SettleTypeOK, LogInv, [SettleNext]_allVars
    PROVE  \/ UNCHANGED <<pool, hasUnlocked, cheated>>
           \/ /\ UNCHANGED <<hasUnlocked, cheated>>
              /\ \E n \in Nodes : SentStep(n) \/ MinedStep(n)
           \/ \E n \in Nodes : UnlockStep(n)
<1> DEFINE Idle == UNCHANGED <<pool, hasUnlocked, cheated>>
           Call == /\ UNCHANGED <<hasUnlocked, cheated>>
                   /\ \E n \in Nodes : SentStep(n) \/ MinedStep(n)
           Claim == \E n \in Nodes : UnlockStep(n)
           Goal == Idle \/ Call \/ Claim
<1>1. \A n \in Nodes : /\ Other(n) \in Nodes /\ end[n][Other(n)] \in EndState
                       /\ end[n][Other(n)].bp \in BalanceProofState
                       /\ end[n][Other(n)].onChain \in SUBSET Locks
                       /\ end[n][Other(n)].tree \in SUBSET Locks
  <2>1. \A n \in Nodes : Other(n) \in Nodes /\ end[n][Other(n)] \in EndState
    BY OtherNode DEF SettleTypeOK, TypeOK
  <2> QED BY <2>1 DEF EndState
<1>2. ASSUME NEW n \in Nodes, NEW tx \in Calls, pool' = Sent(n, tx), SendsCall(n, tx),
             UNCHANGED <<hasUnlocked, cheated>>
      PROVE  Goal
  <2>1. pool' = pool \/ pool' = [pool EXCEPT ![n] = Append(pool[n], tx)]
    BY <1>2, SentCalls
  <2>2. CASE pool' = [pool EXCEPT ![n] = Append(pool[n], tx)]
    BY <1>2, <2>2 DEF SentStep
  <2> QED BY <1>2, <2>1, <2>2
<1>3. ASSUME NEW n \in Nodes, NEW locks \in SUBSET end'[n][Other(n)].onChain,
             NEW amount \in Nat, NEW root \in SUBSET Locks, locks \in SUBSET Locks,
             Unlock(n, locks, amount, root), state'[n] \in Ended, UNCHANGED <<disposed, contract>>
      PROVE  Goal
  <2>1. \/ UNCHANGED <<pool, hasUnlocked, cheated>>
        \/ \E S \in SUBSET locks : UnlockSent(n, S, amount, root)
    BY <1>3, UnlockKinds
  <2>2. ASSUME NEW S \in SUBSET locks, UnlockSent(n, S, amount, root)
        PROVE  UnlockStep(n)
    <3>1. S \in SUBSET end'[n][Other(n)].onChain
      BY <1>3, <2>2
    <3> QED BY <1>3, <2>2, <3>1 DEF UnlockStep
  <2> HIDE DEF Idle
  <2>3. UNCHANGED <<pool, hasUnlocked, cheated>> => Idle
    BY DEF Idle
  <2> QED BY <2>1, <2>2, <2>3
<1>4. ASSUME NEW n \in Nodes,
             SendTransfer(n) \/ ReceiveTransfer(n) \/ FollowBlocks(n)
      PROVE  Goal
  BY <1>4 DEF SendTransfer, ReceiveTransfer, FollowBlocks, settleVars
<1>5. ASSUME NEW n \in Nodes, NEW l \in Locks, ReceiveAnnounceDisposed(n, l) \/ SecretLearned(n, l)
      PROVE  Goal
  BY <1>5 DEF ReceiveAnnounceDisposed, SecretLearned, settleVars
<1>6. ASSUME NEW n \in Nodes, Close(n) PROVE Goal
  <2> DEFINE tx == [type |-> "prepareSettle", bp |-> end[n][Other(n)].bp]
  <2>1. tx \in Calls
    BY <1>1 DEF Calls
  <2>2. /\ pool' = Sent(n, tx) /\ UNCHANGED <<hasUnlocked, cheated, end>>
        /\ state'[n] = "Closing"
    BY <1>6 DEF Close, SettleTypeOK, vars
  <2>3. SendsCall(n, tx)
    BY <2>2 DEF SendsCall
  <2> HIDE DEF tx, Goal
  <2> QED BY <1>2, <2>1, <2>2, <2>3
<1>7. ASSUME NEW n \in Nodes, Settle(n) PROVE Goal
  <2> DEFINE tx == [type |-> "settle", args |-> onContract[n]]
  <2>1. tx \in Calls
    BY DEF Calls, SettleTypeOK
  <2>2. pool' = Sent(n, tx) /\ UNCHANGED <<hasUnlocked, cheated>>
    BY <1>7 DEF Settle
  <2>3. SendsCall(n, tx)
    BY DEF SendsCall
  <2> HIDE DEF tx, Goal
  <2> QED BY <1>2, <2>1, <2>2, <2>3
<1>8. ASSUME NEW n \in Nodes, Revert(n) \/ Drop(n) PROVE Goal
  <2>1. pool[n] # <<>> /\ UNCHANGED <<hasUnlocked, cheated>>
    BY <1>8 DEF Revert, Drop
  <2>2. \/ pool' = [pool EXCEPT ![n] = Tail(pool[n])]
        \/ \E l \in Head(pool[n]).locks : /\ Head(pool[n]).type = "unlock"
                                          /\ pool' = [pool EXCEPT ![n] = AfterUnlock(n, l)]
    BY <1>8 DEF Revert, Drop
  <2>3. MinedStep(n)
    BY <2>1, <2>2 DEF MinedStep
  <2> QED BY <2>1, <2>3
<1>9. ASSUME NEW n \in Nodes,
             \/ prepareSettle(n) \/ updateBalanceProof(n) \/ punishObsoleteUnlock(n) \/ settle(n)
      PROVE  Goal
  <2>1. \E type : Mined(n, type)
    BY <1>9 DEF prepareSettle, updateBalanceProof, punishObsoleteUnlock, settle
  <2>2. MinedStep(n) /\ UNCHANGED <<hasUnlocked, cheated>>
    BY <2>1 DEF Mined, MinedStep
  <2> QED BY <2>2
<1>10. ASSUME NEW n \in Nodes, NEW l \in Locks, unlock(n, l) PROVE Goal
  <2>1. MinedStep(n) /\ UNCHANGED <<hasUnlocked, cheated>>
    BY <1>10 DEF unlock, MinedStep
  <2> QED BY <2>1
<1>11. ASSUME NEW n \in Nodes, handleClosed(n) PROVE Goal
  <2> DEFINE ev == log[seen[n] + 1]
             o == Other(n)
  <2>1. /\ HandleEvent(n, "ChannelClosed") /\ state' = [state EXCEPT ![n] = "Closed"]
        /\ UNCHANGED <<end, disposed>>
    BY <1>11 DEF handleClosed, vars
  <2>2. ev \in Events /\ ev.type = "ChannelClosed" /\ UNCHANGED contract
    BY <2>1, HandledEvent
  <2>3. ev.amount \in Nat
    BY <2>2, EventFields
  <2>4. state'[n] = "Closed"
    BY <2>1 DEF SettleTypeOK
  <2>5. \/ Unlock(n, CanUnlockOnChain(end[n][o]), ev.amount, end[n][o].tree)
        \/ /\ pool' = Sent(n, [type |-> "updateBalanceProof", bp |-> end[n][o].bp])
           /\ UNCHANGED <<hasUnlocked, cheated>>
    BY <1>11 DEF handleClosed
  <2>6. CASE Unlock(n, CanUnlockOnChain(end[n][o]), ev.amount, end[n][o].tree)
    <3> HIDE DEF Goal, ev
    <3>1. end[n][o].onChain \in SUBSET end'[n][Other(n)].onChain
      BY <2>1
    <3>2. Unlock(n, end[n][o].onChain, ev.amount, end[n][o].tree)
      BY <2>6 DEF CanUnlockOnChain
    <3> QED BY <1>1, <1>3, <2>1, <2>2, <2>3, <2>4, <3>1, <3>2 DEF Ended
  <2>7. ASSUME pool' = Sent(n, [type |-> "updateBalanceProof", bp |-> end[n][o].bp]),
               UNCHANGED <<hasUnlocked, cheated>>
        PROVE  Goal
    <3> DEFINE tx == [type |-> "updateBalanceProof", bp |-> end[n][o].bp]
    <3>1. tx \in Calls
      BY <1>1 DEF Calls
    <3>2. SendsCall(n, tx)
      BY <2>1, <2>4 DEF SendsCall
    <3> HIDE DEF tx, Goal
    <3>3. pool' = Sent(n, tx)
      BY <2>7 DEF tx
    <3> QED BY <1>2, <2>7, <3>1, <3>2, <3>3
  <2> HIDE DEF Goal
  <2> QED BY <2>5, <2>6, <2>7
<1>12. ASSUME NEW n \in Nodes, handleBalanceProofOnChain(n) PROVE Goal
  <2> DEFINE o == Other(n)
  <2>1. HandleEvent(n, "BalanceProofUpdated") /\ UNCHANGED <<end, disposed, state>>
    BY <1>12 DEF handleBalanceProofOnChain, vars
  <2>2. /\ seen[n] \in Nat /\ seen[n] + 1 \in 1..Len(log) /\ Len(log) \in Nat
        /\ log[seen[n] + 1].type = "BalanceProofUpdated" /\ UNCHANGED contract
    BY <2>1, HandledEvent
  <2>3. seen[n] > 0
    BY <2>2 DEF LogInv
  <2>4. state'[n] \in Ended
    BY <2>1, <2>3 DEF LogInv
  <2>5. onContract[n][o].amount \in Nat
    BY <1>1 DEF SettleTypeOK, SettleArguments
  <2>6. \/ UNCHANGED <<pool, hasUnlocked, cheated>>
        \/ Unlock(n, end[n][o].onChain, onContract[n][o].amount, end[n][o].tree)
    BY <1>12 DEF handleBalanceProofOnChain, CanUnlockOnChain
  <2>7. UNCHANGED <<pool, hasUnlocked, cheated>> => Goal
    OBVIOUS
  <2> HIDE DEF Goal
  <2>8. CASE Unlock(n, end[n][o].onChain, onContract[n][o].amount, end[n][o].tree)
    <3>1. end[n][o].onChain \in SUBSET end'[n][Other(n)].onChain
      BY <2>1
    <3> QED BY <1>1, <1>3, <2>1, <2>2, <2>4, <2>5, <2>8, <3>1
  <2> QED BY <2>6, <2>7, <2>8
<1>13. ASSUME NEW n \in Nodes, handleUnlockOnChain(n) PROVE Goal
  <2> DEFINE ev == log[seen[n] + 1]
             tx == [type |-> "punishObsoleteUnlock", lock |-> ev.lock]
  <2>1. /\ HandleEvent(n, "ChannelUnlocked") /\ UNCHANGED <<hasUnlocked, cheated>>
        /\ pool' = pool \/ (ev.lock \in canPunish[n] /\ pool' = Sent(n, tx))
    <3>1. HandleEvent(n, "ChannelUnlocked") /\ UNCHANGED <<hasUnlocked, cheated>>
      BY <1>13 DEF handleUnlockOnChain
    <3>2. pool' = IF ev.participant = n /\ ev.lock \in canPunish[n] THEN Sent(n, tx) ELSE pool
      BY <1>13 DEF handleUnlockOnChain
    <3> QED BY <3>1, <3>2
  <2>2. ev \in Events /\ ev.type = "ChannelUnlocked"
    BY <2>1, HandledEvent
  <2>3. ev.lock \in Locks
    BY <2>2, EventFields
  <2>4. tx \in Calls
    BY <2>3 DEF Calls
  <2>5. ev.lock \in canPunish[n] => SendsCall(n, tx)
    BY DEF SendsCall
  <2>6. CASE pool' = pool
    BY <2>1, <2>6
  <2> HIDE DEF tx, Goal
  <2> QED BY <1>2, <2>1, <2>4, <2>5, <2>6
<1>14. ASSUME NEW n \in Nodes, handlePunishedOnChain(n) \/ handleSettled(n) PROVE Goal
  BY <1>14 DEF handlePunishedOnChain, handleSettled
<1>15. ASSUME NEW n \in Nodes, NEW l \in Locks, SecretRegistered(n, l) PROVE Goal
  <2> DEFINE held == end'[n][Other(n)]
  <2>1. /\ UNCHANGED <<state, contract>> /\ handleSecretRegisteredOnChain(n, l)
        /\ \/ UNCHANGED <<pool, hasUnlocked, cheated>>
           \/ /\ SendsContractUnlock(n, l) /\ l \in CanUnlockOnChain(held)
              /\ Unlock(n, {l}, onContract[n][Other(n)].amount, held.tree)
    BY <1>15 DEF SecretRegistered
  <2>2. UNCHANGED disposed
    BY <2>1 DEF handleSecretRegisteredOnChain
  <2>3. UNCHANGED <<pool, hasUnlocked, cheated>> => Goal
    OBVIOUS
  <2>4. TypeOK'
    BY SettleTypeStep DEF SettleTypeOK
  <2>5. held \in EndState
    BY <1>1, <2>4 DEF TypeOK
  <2>6. held.tree \in SUBSET Locks
    BY <2>5 DEF EndState
  <2>7. onContract[n][Other(n)].amount \in Nat
    BY <1>1 DEF SettleTypeOK, SettleArguments
  <2> HIDE DEF Goal, held
  <2>8. ASSUME SendsContractUnlock(n, l), l \in CanUnlockOnChain(held),
               Unlock(n, {l}, onContract[n][Other(n)].amount, held.tree)
        PROVE  Goal
    <3>1. {l} \in SUBSET end'[n][Other(n)].onChain /\ {l} \in SUBSET Locks
      BY <2>8 DEF held, CanUnlockOnChain
    <3>2. state'[n] \in Ended
      BY <2>1, <2>8 DEF SendsContractUnlock, Ended
    <3> QED BY <1>3, <2>1, <2>2, <2>6, <2>7, <2>8, <3>1, <3>2
  <2> QED BY <2>1, <2>3, <2>8
<1>16. ASSUME NEW S \in SUBSET Registrable, NewBlock(S), UNCHANGED settleVars
       PROVE  Goal
  BY <1>16 DEF settleVars
<1>17. ASSUME UNCHANGED allVars
       PROVE  Goal
  BY <1>17 DEF allVars, settleVars
<1>18. Goal
  <2> HIDE DEF Goal
  <2> QED BY <1>4, <1>5, <1>6, <1>7, <1>8, <1>9, <1>10, <1>11, <1>12, <1>13, <1>14, <1>15, <1>16,
             <1>17 DEF SettleNext
<1> QED BY <1>18

\* A call that was in the pool before, perhaps with some of its locks gone.
Descends(x, y) ==
    /\ x.type = y.type
    /\ y.type # "unlock" => x = y
    /\ y.type = "unlock" => x.locks \subseteq y.locks

\* Every call in the pool was there before or has just been sent.
LEMMA PoolSteps ==
    ASSUME SettleTypeOK, LogInv, [SettleNext]_allVars, NEW n \in Nodes,
           NEW i \in 1..Len(pool'[n])
    PROVE  \/ \E j \in 1..Len(pool[n]) : Descends(pool'[n][i], pool[n][j])
           \/ SendsCall(n, pool'[n][i])
           \/ /\ pool'[n][i].type = "unlock"
              /\ pool'[n][i].locks \subseteq hasUnlocked'[n]
<1> DEFINE q == pool[n]
           r == pool'[n]
           Old == \E j \in 1..Len(q) : Descends(r[i], q[j])
           Unlocks == r[i].type = "unlock" /\ r[i].locks \subseteq hasUnlocked'[n]
           Goal == Old \/ SendsCall(n, r[i]) \/ Unlocks
<1>1. q \in Seq(Calls) /\ Len(q) \in Nat /\ pool \in [Nodes -> Seq(Calls)]
  BY DEF SettleTypeOK
<1>2. \A x : Descends(x, x)
  BY DEF Descends
<1>3. r = q => Goal
  BY <1>2
<1>4. ASSUME NEW tx \in Calls, r = Append(q, tx)
      PROVE  Old \/ r[i] = tx
  <2>1. /\ Len(r) = Len(q) + 1 /\ r[Len(q) + 1] = tx
        /\ \A j \in 1..Len(q) : r[j] = q[j]
    BY <1>1, <1>4, CallAppended
  <2>2. CASE i \in 1..Len(q)
    BY <1>2, <2>1, <2>2
  <2>3. CASE i \notin 1..Len(q)
    <3>1. i = Len(q) + 1
      BY <1>1, <2>1, <2>3
    <3> QED BY <2>1, <3>1
  <2> QED BY <2>2, <2>3
<1>5. ASSUME NEW k \in Nodes, SentStep(k)
      PROVE  Goal
  <2>1. PICK tx \in Calls : /\ pool' = [pool EXCEPT ![k] = Append(pool[k], tx)]
                            /\ SendsCall(k, tx)
    BY <1>5 DEF SentStep
  <2>2. CASE k = n
    <3>1. r = Append(q, tx)
      BY <1>1, <2>1, <2>2
    <3> QED BY <1>4, <2>1, <2>2, <3>1
  <2>3. CASE k # n
    BY <1>1, <1>3, <2>1, <2>3
  <2> QED BY <2>2, <2>3
<1>6. ASSUME NEW k \in Nodes, MinedStep(k)
      PROVE  Goal
  <2>1. CASE k = n
    <3>1. q # <<>>
      BY <1>6, <2>1 DEF MinedStep
    <3>2. CASE r = Tail(q)
      <4>1. i + 1 \in 1..Len(q) /\ r[i] = q[i + 1]
        BY <1>1, <3>1, <3>2, CallQueue
      <4> QED BY <1>2, <4>1
    <3>3. ASSUME NEW l \in Head(q).locks, Head(q).type = "unlock", r = AfterUnlock(n, l)
          PROVE  Old
      BY <1>1, <3>1, <3>3, AfterUnlockCalls DEF Descends
    <3>4. r = Tail(q) \/ (Head(q).type = "unlock" /\ \E l \in Head(q).locks : r = AfterUnlock(n, l))
      BY <1>1, <1>6, <2>1 DEF MinedStep
    <3> QED BY <3>2, <3>3, <3>4
  <2>2. CASE k # n
    <3>1. r = q
      BY <1>1, <1>6, <2>2 DEF MinedStep
    <3> QED BY <1>3, <3>1
  <2> QED BY <2>1, <2>2
<1>7. ASSUME NEW k \in Nodes, UnlockStep(k)
      PROVE  Goal
  <2>1. PICK S \in SUBSET end'[k][Other(k)].onChain, a \in Nat, root \in SUBSET Locks :
           UnlockSent(k, S, a, root)
    BY <1>7 DEF UnlockStep
  <2> DEFINE tx == [type |-> "unlock", locks |-> S, amount |-> a, root |-> root]
  <2>2. /\ S \subseteq Locks /\ pool' = [pool EXCEPT ![k] = Append(pool[k], tx)]
        /\ hasUnlocked' = [hasUnlocked EXCEPT ![k] = hasUnlocked[k] \cup S]
    BY <2>1 DEF UnlockSent
  <2>3. tx \in Calls /\ tx.type = "unlock" /\ tx.locks = S
    BY <2>2 DEF Calls
  <2> HIDE DEF tx
  <2>4. CASE k = n
    <3>1. r = Append(q, tx)
      BY <1>1, <2>2, <2>4
    <3>2. S \subseteq hasUnlocked'[n]
      BY <2>2, <2>4 DEF SettleTypeOK
    <3> QED BY <1>4, <2>3, <3>1, <3>2
  <2>5. CASE k # n
    BY <1>1, <1>3, <2>2, <2>5
  <2> QED BY <2>4, <2>5
<1>8. Goal
  <2>1. pool' = pool => Goal
    BY <1>3
  <2> HIDE DEF Goal
  <2> QED BY <1>5, <1>6, <1>7, <2>1, CallSteps
<1> QED BY <1>8

(***************************************************************************)
(* Punishment.  A node that has not cheated has unlocked no lock it has    *)
(* disposed of, now or later: it unlocks locks whose secrets are on chain, *)
(* and disposes of locks whose secrets are not.                            *)
(***************************************************************************)
HonestInv ==
    \A n \in Nodes :
        LET o == Other(n)
        IN  /\ announced[n] \subseteq disposed[n]
            /\ canPunish[n] \subseteq disposed[o]
            /\ hasUnlocked[n] # {} => state[n] \in Ended
            /\ \A l \in hasUnlocked[n] : ~ IsUnknownSecretLock(end[n][o], l)
            /\ n \in cheated \/ hasUnlocked[n] \cap disposed[n] = {}
            /\ \A i \in 1..Len(pool[n]) :
                  /\ pool[n][i].type = "unlock" => pool[n][i].locks \subseteq hasUnlocked[n]
                  /\ pool[n][i].type = "punishObsoleteUnlock" => pool[n][i].lock \in canPunish[n]
            /\ \A p \in contract.unlocked[o] : p[2] \in hasUnlocked[n]

\* The marks of unlocked locks are kept, and new ones come from an Unlock.
LEMMA ClaimSteps ==
    ASSUME SettleTypeOK, LogInv, [SettleNext]_allVars, NEW n \in Nodes
    PROVE  /\ hasUnlocked[n] \subseteq hasUnlocked'[n]
           /\ cheated \subseteq cheated'
           /\ hasUnlocked'[n] = hasUnlocked[n] \/ UnlockStep(n)
<1> DEFINE Goal == /\ hasUnlocked[n] \subseteq hasUnlocked'[n]
                   /\ cheated \subseteq cheated'
                   /\ hasUnlocked'[n] = hasUnlocked[n] \/ UnlockStep(n)
<1>1. UNCHANGED <<hasUnlocked, cheated>> => Goal
  OBVIOUS
<1>2. ASSUME NEW k \in Nodes, UnlockStep(k)
      PROVE  Goal
  <2>1. PICK S \in SUBSET end'[k][Other(k)].onChain, a \in Nat, root \in SUBSET Locks :
           UnlockSent(k, S, a, root)
    BY <1>2 DEF UnlockStep
  <2>2. /\ hasUnlocked' = [hasUnlocked EXCEPT ![k] = hasUnlocked[k] \cup S]
        /\ cheated \subseteq cheated'
    BY <2>1 DEF UnlockSent
  <2> QED BY <1>2, <2>2 DEF SettleTypeOK
<1> HIDE DEF Goal
<1>3. Goal
  BY <1>1, <1>2, CallSteps
<1> QED BY <1>3 DEF Goal

\* A lock that is disposed of has a secret that is not on chain, and a lock
\* that may be punished was announced.
LEMMA DisposedSteps ==
    ASSUME SettleTypeOK, [SettleNext]_allVars, NEW n \in Nodes
    PROVE  /\ disposed[n] \subseteq disposed'[n]
           /\ \A l \in disposed'[n] \ disposed[n] :
                 /\ IsUnknownSecretLock(end[n][Other(n)], l)
                 /\ UNCHANGED <<hasUnlocked, cheated>>
           /\ announced'[n] \subseteq announced[n] \cup disposed'[n]
           /\ canPunish'[n] \subseteq canPunish[n] \cup announced[Other(n)]
           /\ canPunish[n] \subseteq canPunish'[n]
<1> DEFINE Disposes == /\ disposed[n] \subseteq disposed'[n]
                       /\ \A l \in disposed'[n] \ disposed[n] :
                             /\ IsUnknownSecretLock(end[n][Other(n)], l)
                             /\ UNCHANGED <<hasUnlocked, cheated>>
                       /\ announced'[n] \subseteq announced[n] \cup disposed'[n]
           Punishes == /\ canPunish'[n] \subseteq canPunish[n] \cup announced[Other(n)]
                       /\ canPunish[n] \subseteq canPunish'[n]
           Goal == Disposes /\ Punishes
<1>1. UNCHANGED <<announced, disposed>> => Disposes
  OBVIOUS
<1>2. UNCHANGED canPunish => Punishes
  OBVIOUS
<1>3. ASSUME NEW k \in Nodes, SendTransfer(k) PROVE Goal
  <2>1. UNCHANGED settleVars
    BY <1>3 DEF SendTransfer
  <2>2. UNCHANGED <<canPunish, hasUnlocked, cheated>>
    BY <2>1 DEF settleVars
  <2>3. \/ UNCHANGED <<announced, disposed>>
        \/ \E l \in Locks : eventSendAnnouncedDisposed(k, l)
    BY <1>3 DEF SendTransfer, directTransferAsync, eventSendMediatedTransfer, eventSendUnlock,
         eventUnlockFailed
  <2>4. ASSUME NEW l \in Locks, eventSendAnnouncedDisposed(k, l)
        PROVE  Disposes
    <3>1. /\ disposed' = [disposed EXCEPT ![k] = @ \cup {l}]
          /\ announced' = [announced EXCEPT ![k] = @ \cup {l}]
          /\ IsUnknownSecretLock(end[k][Other(k)], l)
      BY <2>4 DEF eventSendAnnouncedDisposed, TryRemoveHashLock
    <3>2. CASE k = n
      BY <2>2, <3>1, <3>2 DEF SettleTypeOK, TypeOK
    <3>3. CASE k # n
      <4>1. disposed'[n] = disposed[n] /\ announced'[n] = announced[n]
        BY <3>1, <3>3 DEF SettleTypeOK, TypeOK
      <4> QED BY <4>1
    <3> QED BY <3>2, <3>3
  <2> HIDE DEF Disposes, Punishes
  <2> QED BY <1>1, <1>2, <2>2, <2>3, <2>4
<1>4. ASSUME NEW k \in Nodes, ReceiveTransfer(k) PROVE Goal
  <2>1. UNCHANGED <<announced, disposed>>
    BY <1>4 DEF ReceiveTransfer, AcknowledgeOnly, messageDirectTransfer, messageMediatedTransfer,
         messageUnlock, messageRemoveExpiredHashlockTransfer, messageAnnounceDisposedResponse, Receive
  <2>2. UNCHANGED canPunish
    BY <1>4 DEF ReceiveTransfer, settleVars
  <2> QED BY <1>1, <1>2, <2>1, <2>2
<1>5. ASSUME NEW k \in Nodes, NEW l \in Locks, ReceiveAnnounceDisposed(k, l) PROVE Goal
  <2>1. /\ UNCHANGED disposed /\ l \in announced[Other(k)]
        /\ announced' = [announced EXCEPT ![Other(k)] = @ \ {l}]
    BY <1>5 DEF ReceiveAnnounceDisposed, messageAnnounceDisposed
  <2>2. \/ canPunish' = [canPunish EXCEPT ![k] = canPunish[k] \cup {l}]
        \/ canPunish' = [canPunish EXCEPT ![k] = canPunish[k]]
    BY <1>5 DEF ReceiveAnnounceDisposed
  <2>3. Disposes
    BY <2>1 DEF SettleTypeOK, TypeOK
  <2>4. Punishes
    BY <2>1, <2>2 DEF SettleTypeOK
  <2> QED BY <2>3, <2>4
<1>6. ASSUME NEW k \in Nodes, NEW l \in Locks, SecretRegistered(k, l) \/ SecretLearned(k, l)
      PROVE  Goal
  <2>1. UNCHANGED <<announced, disposed, canPunish>>
    BY <1>6 DEF SecretRegistered, SecretLearned, registerSecret, handleSecretRegisteredOnChain,
         settleVars
  <2> QED BY <1>1, <1>2, <2>1
<1>7. ASSUME NEW k \in Nodes, FollowBlocks(k) PROVE Goal
  <2>1. UNCHANGED <<announced, disposed, canPunish>>
    BY <1>7 DEF FollowBlocks, handleBlockStateChange, settleVars
  <2> QED BY <1>1, <1>2, <2>1
<1>8. ASSUME NEW S \in SUBSET Registrable, NewBlock(S), UNCHANGED settleVars PROVE Goal
  <2>1. UNCHANGED <<announced, disposed, canPunish>>
    BY <1>8 DEF NewBlock, settleVars
  <2> QED BY <1>1, <1>2, <2>1
<1>9. ASSUME NEW k \in Nodes, handlePunishedOnChain(k) PROVE Goal
  <2>1. UNCHANGED <<announced, disposed>> /\ HandleEvent(k, "ChannelPunished")
    BY <1>9 DEF handlePunishedOnChain
  <2>2. UNCHANGED canPunish
    BY <2>1 DEF HandleEvent
  <2> QED BY <1>1, <1>2, <2>1, <2>2
<1>10. ASSUME NEW k \in Nodes,
              \/ Close(k) \/ Settle(k) \/ handleClosed(k) \/ handleBalanceProofOnChain(k)
              \/ handleUnlockOnChain(k) \/ handleSettled(k) \/ Revert(k) \/ Drop(k)
       PROVE  Goal
  <2>1. UNCHANGED vars /\ UNCHANGED canPunish
    BY <1>10 DEF Close, Settle, handleClosed, handleBalanceProofOnChain, handleUnlockOnChain,
         handleSettled, Revert, Drop, HandleEvent
  <2>2. UNCHANGED <<announced, disposed>>
    BY <2>1 DEF vars
  <2> QED BY <1>1, <1>2, <2>1, <2>2
<1>11. ASSUME NEW k \in Nodes,
              \/ prepareSettle(k) \/ updateBalanceProof(k) \/ punishObsoleteUnlock(k)
              \/ settle(k) \/ \E l \in Locks : unlock(k, l)
       PROVE  Goal
  <2>1. UNCHANGED vars /\ UNCHANGED canPunish
    BY <1>11 DEF prepareSettle, updateBalanceProof, punishObsoleteUnlock, settle, unlock, Mined
  <2>2. UNCHANGED <<announced, disposed>>
    BY <2>1 DEF vars
  <2> QED BY <1>1, <1>2, <2>1, <2>2
<1>12. ASSUME UNCHANGED allVars PROVE Goal
  <2>1. UNCHANGED <<announced, disposed, canPunish>>
    BY <1>12 DEF allVars, vars, settleVars
  <2> QED BY <1>1, <1>2, <2>1
<1>13. Goal
  <2> HIDE DEF Goal
  <2>1. ASSUME NEW k \in Nodes, NEW l \in Locks, unlock(k, l)
        PROVE  Goal
    BY <1>11, <2>1
  <2> QED BY <1>3, <1>4, <1>5, <1>6, <1>7, <1>8, <1>9, <1>10, <1>11, <1>12, <2>1 DEF SettleNext
<1> QED BY <1>13

\* A participant's partner is punished by a call of that participant.
LEMMA PunishedSteps ==
    ASSUME SettleTypeOK, [SettleNext]_allVars
    PROVE  /\ Punished \subseteq Punished'
           /\ \A m \in Punished' \ Punished : punishObsoleteUnlock(m)
<1>1. log \in Seq(Events) /\ Len(log) \in Nat
  BY DEF SettleTypeOK
<1>2. ASSUME NEW ev \in Events, log' = Append(log, ev)
      PROVE  /\ Punished \subseteq Punished'
             /\ \A m \in Punished' \ Punished : ev.type = "ChannelPunished" /\ ev.beneficiary = m
  <2>1. /\ Len(log') = Len(log) + 1 /\ log'[Len(log) + 1] = ev
        /\ \A i \in 1..Len(log) : log'[i] = log[i]
    BY <1>1, <1>2, EventAppended
  <2>2. Punished \subseteq Punished'
    BY <1>1, <2>1 DEF Punished
  <2>3. ASSUME NEW m \in Punished', m \notin Punished
        PROVE  ev.type = "ChannelPunished" /\ ev.beneficiary = m
    <3>1. PICK i \in 1..Len(log') : /\ log'[i].type = "ChannelPunished"
                                    /\ log'[i].beneficiary = m
      BY <2>3 DEF Punished
    <3>2. m \in Nodes
      BY <2>3 DEF Punished
    <3>3. i \notin 1..Len(log)
      BY <2>1, <2>3, <3>1, <3>2 DEF Punished
    <3>4. i = Len(log) + 1
      BY <1>1, <2>1, <3>3
    <3> QED BY <2>1, <3>1, <3>4
  <2> QED BY <2>2, <2>3
<1>3. ASSUME UNCHANGED log
      PROVE  Punished' = Punished
  BY <1>3 DEF Punished
<1>4. ASSUME NEW n \in Nodes, prepareSettle(n)
      PROVE  \E ev \in Events : log' = Append(log, ev) /\ ev.type # "ChannelPunished"
  BY <1>4, PrepareSettled
<1>5. ASSUME NEW n \in Nodes, updateBalanceProof(n)
      PROVE  \E ev \in Events : log' = Append(log, ev) /\ ev.type # "ChannelPunished"
  BY <1>5, BalanceProofUpdated
<1>6. ASSUME NEW n \in Nodes, settle(n)
      PROVE  \E ev \in Events : log' = Append(log, ev) /\ ev.type # "ChannelPunished"
  BY <1>6, SettledOnce
<1>7. ASSUME NEW n \in Nodes, NEW l \in Locks, unlock(n, l)
      PROVE  \E ev \in Events : log' = Append(log, ev) /\ ev.type # "ChannelPunished"
  <2> DEFINE e == [block |-> height + 1, type |-> "ChannelUnlocked", participant |-> Other(n),
                   lock |-> l, amount |-> Head(pool[n]).amount + LockAmount[l]]
  <2>1. e \in Events /\ log' = Append(log, e)
    BY <1>7, Unlocked
  <2>2. e.type # "ChannelPunished"
    OBVIOUS
  <2> HIDE DEF e
  <2> QED BY <2>1, <2>2
<1>8. ASSUME NEW n \in Nodes, punishObsoleteUnlock(n)
      PROVE  \E ev \in Events : log' = Append(log, ev) /\ ev.beneficiary = n
  BY <1>8, ObsoleteUnlockPunished
<1>9. ASSUME NEW n \in Nodes, punishObsoleteUnlock(n)
      PROVE  /\ Punished \subseteq Punished'
             /\ \A m \in Punished' \ Punished : punishObsoleteUnlock(m)
  <2>1. PICK ev \in Events : log' = Append(log, ev) /\ ev.beneficiary = n
    BY <1>8, <1>9
  <2>2. \A m \in Punished' \ Punished : n = m
    BY <1>2, <2>1
  <2> QED BY <1>2, <1>9, <2>1, <2>2
<1>10. ASSUME NEW ev \in Events, log' = Append(log, ev), ev.type # "ChannelPunished"
       PROVE  Punished \subseteq Punished' /\ Punished' \ Punished = {}
  BY <1>2, <1>10
<1> QED BY <1>3, <1>4, <1>5, <1>6, <1>7, <1>9, <1>10, ContractSteps

\* A beneficiary of a punishment counts as one at once.
LEMMA PunishedNow ==
    ASSUME SettleTypeOK, NEW m \in Nodes, punishObsoleteUnlock(m)
    PROVE  m \in Punished'
<1> DEFINE ev == [block |-> height + 1, type |-> "ChannelPunished", beneficiary |-> m]
<1>1. ev \in Events /\ log' = Append(log, ev)
  BY ObsoleteUnlockPunished
<1>2. ev.type = "ChannelPunished" /\ ev.beneficiary = m
  OBVIOUS
<1> HIDE DEF ev
<1>3. log \in Seq(Events)
  BY DEF SettleTypeOK
<1>4. Len(log) \in Nat /\ Len(log') = Len(log) + 1 /\ log'[Len(log) + 1] = ev
  BY <1>1, <1>3, EventAppended
<1>5. Len(log) + 1 \in 1..Len(log')
  BY <1>4
<1> QED BY <1>2, <1>4, <1>5, NodesAssumption DEF Punished, Nodes

\* What the contract counts as unlocked was in a call of the receiver.
LEMMA UnlockedSteps ==
    ASSUME SettleTypeOK, [SettleNext]_allVars, NEW n \in Nodes
    PROVE  \A p \in contract'.unlocked[Other(n)] :
              \/ p \in contract.unlocked[Other(n)]
              \/ \E i \in 1..Len(pool[n]) : pool[n][i].type = "unlock" /\ p[2] \in pool[n][i].locks
<1> DEFINE o == Other(n)
           Old(p) == p \in contract.unlocked[o]
           Called(p) == \E i \in 1..Len(pool[n]) : /\ pool[n][i].type = "unlock"
                                                   /\ p[2] \in pool[n][i].locks
           Goal == \A p \in contract'.unlocked[o] : Old(p) \/ Called(p)
<1>1. o \in Nodes /\ o # n /\ \A k \in Nodes : k # n => k = o /\ Other(k) = n
  BY OtherNode, NodesAssumption DEF Nodes, Other
<1>2. contract'.unlocked[o] \subseteq contract.unlocked[o] => Goal
  OBVIOUS
<1>3. ASSUME NEW k \in Nodes, prepareSettle(k) \/ updateBalanceProof(k) \/ settle(k)
      PROVE  Goal
  <2>1. contract'.unlocked = contract.unlocked
    BY <1>3, PrepareSettled, BalanceProofUpdated, SettledOnce
  <2> QED BY <2>1
<1>4. ASSUME NEW k \in Nodes, punishObsoleteUnlock(k)
      PROVE  Goal
  <2>1. /\ contract'.unlocked[k] \subseteq contract.unlocked[k]
        /\ contract'.unlocked[Other(k)] = contract.unlocked[Other(k)]
    BY <1>4, ObsoleteUnlockPunished
  <2>2. k = o \/ Other(k) = o
    BY <1>1
  <2> QED BY <1>2, <2>1, <2>2
<1>5. ASSUME NEW k \in Nodes, NEW l \in Locks, unlock(k, l)
      PROVE  Goal
  <2> DEFINE nonce == contract.proof[Other(k)].nonce
  <2>1. /\ contract'.unlocked[Other(k)] = contract.unlocked[Other(k)] \cup {<<nonce, l>>}
        /\ contract'.unlocked[k] = contract.unlocked[k]
        /\ pool[k][1].type = "unlock" /\ l \in pool[k][1].locks /\ Len(pool[k]) \in Nat \ {0}
    <3>1. /\ contract'.unlocked[Other(k)] = contract.unlocked[Other(k)] \cup {<<nonce, l>>}
          /\ contract'.unlocked[k] = contract.unlocked[k]
      BY <1>5, Unlocked
    <3>2. /\ Head(pool[k]) = pool[k][1] /\ Head(pool[k]).type = "unlock"
          /\ l \in Head(pool[k]).locks /\ Len(pool[k]) \in Nat \ {0}
      BY <1>5, Unlocked
    <3> QED BY <3>1, <3>2
  <2>2. CASE k = n
    <3>1. contract'.unlocked[o] = contract.unlocked[o] \cup {<<nonce, l>>}
      BY <2>1, <2>2
    <3>2. Called(<<nonce, l>>)
      <4>1. 1 \in 1..Len(pool[n])
        BY <2>1, <2>2
      <4> QED BY <2>1, <2>2, <4>1
    <3> HIDE DEF Called, nonce
    <3> QED BY <3>1, <3>2
  <2>3. CASE k # n
    <3>1. contract'.unlocked[o] = contract.unlocked[o]
      BY <1>1, <2>1, <2>3
    <3> QED BY <1>2, <3>1
  <2> QED BY <2>2, <2>3
<1>6. UNCHANGED contract => Goal
  BY <1>2
<1>7. Goal
  <2> HIDE DEF Goal
  <2> QED BY <1>3, <1>4, <1>5, <1>6, ContractSteps
<1> QED BY <1>7

\* A step keeps HonestInv, and punishes only a node that has cheated.
LEMMA HonestStep ==
    ASSUME SettleTypeOK, LogInv, BooksMatchProof', HonestInv, HonestNeverPunished,
           [SettleNext]_allVars
    PROVE  HonestInv' /\ HonestNeverPunished'
<1>1. ASSUME NEW n \in Nodes
      PROVE  /\ Other(n) \in Nodes /\ Other(Other(n)) = n
             /\ end[n][Other(n)] \in EndState
             /\ announced[n] \subseteq disposed[n] /\ canPunish[n] \subseteq disposed[Other(n)]
             /\ hasUnlocked[n] # {} => state[n] \in Ended
             /\ \A l \in hasUnlocked[n] : ~ IsUnknownSecretLock(end[n][Other(n)], l)
             /\ n \in cheated \/ hasUnlocked[n] \cap disposed[n] = {}
             /\ \A i \in 1..Len(pool[n]) :
                   /\ pool[n][i].type = "unlock" => pool[n][i].locks \subseteq hasUnlocked[n]
                   /\ pool[n][i].type = "punishObsoleteUnlock" => pool[n][i].lock \in canPunish[n]
             /\ \A p \in contract.unlocked[Other(n)] : p[2] \in hasUnlocked[n]
  BY OtherNode DEF HonestInv, SettleTypeOK, TypeOK
<1>2. ASSUME NEW n \in Nodes
      PROVE  announced'[n] \subseteq disposed'[n] /\ canPunish'[n] \subseteq disposed'[Other(n)]
  BY <1>1, DisposedSteps
<1>3. ASSUME NEW n \in Nodes, hasUnlocked'[n] # {}
      PROVE  state'[n] \in Ended
  <2>1. CASE UnlockStep(n)
    BY <2>1 DEF UnlockStep
  <2>2. CASE hasUnlocked'[n] = hasUnlocked[n]
    <3>1. state[n] \in Ended
      BY <1>1, <1>3, <2>2
    <3> QED BY <3>1, StateSteps DEF Ended
  <2> QED BY <2>1, <2>2, ClaimSteps
<1>4. ASSUME NEW n \in Nodes, NEW l \in hasUnlocked'[n]
      PROVE  ~ IsUnknownSecretLock(end'[n][Other(n)], l)
  <2>1. CASE l \in hasUnlocked[n]
    <3>1. state[n] # "Opened" /\ ~ IsUnknownSecretLock(end[n][Other(n)], l) /\ l \in Locks
      BY <1>1, <2>1 DEF Ended, SettleTypeOK
    <3> QED BY <3>1, PartnerKept
  <2>2. CASE l \notin hasUnlocked[n]
    <3>1. UnlockStep(n)
      BY <1>4, <2>2, ClaimSteps
    <3>2. PICK S \in SUBSET end'[n][Other(n)].onChain, a \in Nat, root \in SUBSET Locks :
             UnlockSent(n, S, a, root)
      BY <3>1 DEF UnlockStep
    <3>3. hasUnlocked'[n] = hasUnlocked[n] \cup S
      BY <3>2 DEF UnlockSent, SettleTypeOK
    <3>4. l \in end'[n][Other(n)].onChain
      BY <1>4, <2>2, <3>3
    <3>5. Books(end'[n][Other(n)])
      BY <1>1 DEF BooksMatchProof
    <3> QED BY <3>4, <3>5 DEF Books, IsUnknownSecretLock
  <2> QED BY <2>1, <2>2
<1>5. ASSUME NEW n \in Nodes
      PROVE  n \in cheated' \/ hasUnlocked'[n] \cap disposed'[n] = {}
  <2>1. CASE UnlockStep(n)
    <3>1. PICK S \in SUBSET end'[n][Other(n)].onChain, a \in Nat, root \in SUBSET Locks :
             UnlockSent(n, S, a, root)
      BY <2>1 DEF UnlockStep
    <3>2. /\ hasUnlocked'[n] = hasUnlocked[n] \cup S
          /\ \/ cheated' = cheated /\ S \cap disposed[n] = {}
             \/ cheated' = cheated \cup {n}
      BY <3>1 DEF UnlockSent, SettleTypeOK
    <3>3. disposed'[n] = disposed[n]
      BY <2>1 DEF UnlockStep
    <3> QED BY <1>1, <3>2, <3>3
  <2>2. CASE hasUnlocked'[n] = hasUnlocked[n]
    <3>1. cheated \subseteq cheated'
      BY ClaimSteps
    <3>2. \A l \in disposed'[n] \ disposed[n] : l \notin hasUnlocked[n]
      BY <1>1, DisposedSteps
    <3> QED BY <1>1, <2>2, <3>1, <3>2
  <2> QED BY <2>1, <2>2, ClaimSteps
<1>6. ASSUME NEW n \in Nodes, NEW i \in 1..Len(pool'[n])
      PROVE  /\ pool'[n][i].type = "unlock" => pool'[n][i].locks \subseteq hasUnlocked'[n]
             /\ pool'[n][i].type = "punishObsoleteUnlock" => pool'[n][i].lock \in canPunish'[n]
  <2>1. hasUnlocked[n] \subseteq hasUnlocked'[n] /\ canPunish[n] \subseteq canPunish'[n]
    BY ClaimSteps, DisposedSteps
  <2>2. PICK x : x = pool'[n][i]
    OBVIOUS
  <2>3. ASSUME NEW j \in 1..Len(pool[n]), Descends(x, pool[n][j])
        PROVE  /\ x.type = "unlock" => x.locks \subseteq hasUnlocked'[n]
               /\ x.type = "punishObsoleteUnlock" => x.lock \in canPunish'[n]
    <3>1. /\ pool[n][j].type = "unlock" => pool[n][j].locks \subseteq hasUnlocked[n]
          /\ pool[n][j].type = "punishObsoleteUnlock" => pool[n][j].lock \in canPunish[n]
      BY <1>1
    <3> QED BY <2>1, <2>3, <3>1 DEF Descends
  <2>4. ASSUME SendsCall(n, x)
        PROVE  /\ x.type # "unlock"
               /\ x.type = "punishObsoleteUnlock" => x.lock \in canPunish'[n]
    BY <2>1, <2>4 DEF SendsCall
  <2> QED BY <2>2, <2>3, <2>4, PoolSteps
<1>7. ASSUME NEW n \in Nodes, NEW p \in contract'.unlocked[Other(n)]
      PROVE  p[2] \in hasUnlocked'[n]
  <2>1. hasUnlocked[n] \subseteq hasUnlocked'[n]
    BY ClaimSteps
  <2>2. CASE p \in contract.unlocked[Other(n)]
    BY <1>1, <2>1, <2>2
  <2>3. ASSUME NEW i \in 1..Len(pool[n]), pool[n][i].type = "unlock", p[2] \in pool[n][i].locks
        PROVE  p[2] \in hasUnlocked'[n]
    BY <1>1, <2>1, <2>3
  <2> QED BY <1>7, <2>2, <2>3, UnlockedSteps
<1>8. HonestNeverPunished'
  <2> SUFFICES ASSUME NEW m \in Punished'
               PROVE  Other(m) \in cheated'
    BY DEF HonestNeverPunished, Other
  <2>1. cheated \subseteq cheated' /\ m \in Nodes
    BY ClaimSteps, NodesAssumption DEF Nodes, Punished
  <2>2. CASE m \in Punished
    BY <2>1, <2>2 DEF HonestNeverPunished
  <2>3. CASE m \notin Punished
    <3> DEFINE l == Head(pool[m]).lock
    <3>1. punishObsoleteUnlock(m)
      BY <2>3, PunishedSteps
    <3>2. <<contract.proof[m].nonce, l>> \in contract.unlocked[m]
      BY <2>1, <3>1, ObsoleteUnlockPunished
    <3>3. l \in hasUnlocked[Other(m)]
      <4>1. \A p \in contract.unlocked[m] : p[2] \in hasUnlocked[Other(m)]
        BY <1>1, <2>1
      <4> QED BY <3>2, <4>1
    <3>4. /\ pool[m][1].type = "punishObsoleteUnlock" /\ Head(pool[m]) = pool[m][1]
          /\ Len(pool[m]) \in Nat \ {0}
      BY <2>1, <3>1, MinedCall DEF punishObsoleteUnlock
    <3>5. l \in disposed[Other(m)]
      <4>1. 1 \in 1..Len(pool[m])
        BY <3>4
      <4> QED BY <1>1, <2>1, <3>4, <4>1
    <3>6. Other(m) \in cheated
      BY <1>1, <2>1, <3>3, <3>5
    <3> QED BY <2>1, <3>6
  <2> QED BY <2>2, <2>3
<1>9. HonestInv'
  BY <1>2, <1>3, <1>4, <1>5, <1>6, <1>7 DEF HonestInv, Other
<1> QED BY <1>8, <1>9

\* HonestInv and HonestNeverPunished hold always.
LEMMA HonestAlways == SettleSpec => [](HonestInv /\ HonestNeverPunished)
<1>1. SettleInit => HonestInv /\ HonestNeverPunished
  <2> SUFFICES ASSUME SettleInit PROVE HonestInv /\ HonestNeverPunished
    OBVIOUS
  <2>1. Punished = {}
    BY DEF SettleInit, Punished
  <2>2. ASSUME NEW n \in Nodes
        PROVE  /\ announced[n] = {} /\ canPunish[n] = {} /\ hasUnlocked[n] = {}
               /\ Len(pool[n]) = 0 /\ contract.unlocked[Other(n)] = {}
    BY OtherNode DEF SettleInit, Init
  <2>3. HonestInv
    BY <2>2 DEF HonestInv
  <2> QED BY <2>1, <2>3 DEF HonestNeverPunished
<1>2. /\ SettleTypeOK /\ LogInv /\ BooksMatchProof' /\ HonestInv /\ HonestNeverPunished
      /\ [SettleNext]_allVars
      => (HonestInv /\ HonestNeverPunished)'
  BY HonestStep
<1> QED BY <1>1, <1>2, SettleTypeCorrect, LogAlways, SettleBooksAlways, PTL DEF SettleSpec

\* A node that runs this code is never punished, whatever the order of
\* messages, secrets and mined calls: who is punished has sent an unlock of a
\* lock it had disposed of (ExternalState.Unlock skips them,
\* CreateAnnouceDisposed refuses locks whose secrets are on chain).
THEOREM HonestTheorem == SettleSpec => []HonestNeverPunished
BY HonestAlways, PTL

(***************************************************************************)
(* The proofs in the contract.                                             *)
(***************************************************************************)
ProofOf(bp) == [amount |-> bp.transferAmount, root |-> bp.locksRoot, nonce |-> bp.nonce]

ProofCalls == {"prepareSettle", "updateBalanceProof"}

\* The proof of n's partner changes by the calls of n, or is reset when the
\* partner punishes n.
LEMMA ContractProofSteps ==
    ASSUME SettleTypeOK, [SettleNext]_allVars, NEW n \in Nodes
    PROVE  LET p == contract.proof[Other(n)]
               q == contract'.proof[Other(n)]
           IN  \/ q = p
               \/ \E i \in 1..Len(pool[n]) :
                     /\ pool[n][i].type \in ProofCalls /\ q = ProofOf(pool[n][i].bp)
                     /\ contract.state = "open" \/ pool[n][i].bp.nonce > p.nonce
               \/ /\ q.nonce = p.nonce /\ q.root = p.root /\ q.amount >= p.amount
                  /\ p.root # {}
               \/ /\ punishObsoleteUnlock(Other(n))
                  /\ q = [amount |-> 0, root |-> {}, nonce |-> MaxUint64]
<1> DEFINE o == Other(n)
           p == contract.proof[o]
           q == contract'.proof[o]
           Handed == \E i \in 1..Len(pool[n]) :
                        /\ pool[n][i].type \in ProofCalls /\ q = ProofOf(pool[n][i].bp)
                        /\ contract.state = "open" \/ pool[n][i].bp.nonce > p.nonce
           More == q.nonce = p.nonce /\ q.root = p.root /\ q.amount >= p.amount /\ p.root # {}
           Reset == /\ punishObsoleteUnlock(o)
                    /\ q = [amount |-> 0, root |-> {}, nonce |-> MaxUint64]
           Goal == q = p \/ Handed \/ More \/ Reset
<1>1. /\ o \in Nodes /\ o # n /\ Other(o) = n /\ \A k \in Nodes : k = n \/ k = o
      /\ p.amount \in Nat
  BY OtherNode, NodesAssumption, RecordFields DEF Nodes, Other
<1>2. ASSUME NEW k \in Nodes, prepareSettle(k) PROVE Goal
  <2>1. /\ contract.state = "open" /\ contract'.proof[k] = contract.proof[k]
        /\ contract'.proof[Other(k)] = contract.proof[Other(k)]
              \/ contract'.proof[Other(k)] = ProofOf(Head(pool[k]).bp)
    BY <1>2, PrepareSettled DEF ProofOf
  <2>2. /\ Head(pool[k]) = pool[k][1] /\ Head(pool[k]).type = "prepareSettle"
        /\ Len(pool[k]) \in Nat \ {0}
    BY <1>2, MinedCall DEF prepareSettle
  <2>3. 1 \in 1..Len(pool[k])
    BY <2>2
  <2>4. CASE k = n
    BY <2>1, <2>2, <2>3, <2>4 DEF ProofCalls
  <2>5. CASE k = o
    BY <2>1, <2>5
  <2> QED BY <1>1, <2>4, <2>5
<1>3. ASSUME NEW k \in Nodes, updateBalanceProof(k) PROVE Goal
  <2>1. /\ contract'.proof[k] = contract.proof[k]
        /\ contract'.proof[Other(k)] = ProofOf(Head(pool[k]).bp)
        /\ Head(pool[k]).bp.nonce > contract.proof[Other(k)].nonce
    BY <1>3, BalanceProofUpdated DEF ProofOf
  <2>2. /\ Head(pool[k]) = pool[k][1] /\ Head(pool[k]).type = "updateBalanceProof"
        /\ Len(pool[k]) \in Nat \ {0}
    BY <1>3, MinedCall DEF updateBalanceProof
  <2>3. 1 \in 1..Len(pool[k])
    BY <2>2
  <2>4. CASE k = n
    BY <2>1, <2>2, <2>3, <2>4 DEF ProofCalls
  <2>5. CASE k = o
    BY <2>1, <2>5
  <2> QED BY <1>1, <2>4, <2>5
<1>4. ASSUME NEW k \in Nodes, NEW l \in Locks, unlock(k, l) PROVE Goal
  <2>1. /\ contract'.proof[k] = contract.proof[k]
        /\ contract'.proof[Other(k)] =
              [amount |-> contract.proof[Other(k)].amount + LockAmount[l],
               root |-> contract.proof[Other(k)].root, nonce |-> contract.proof[Other(k)].nonce]
        /\ l \in contract.proof[Other(k)].root
    BY <1>4, Unlocked
  <2>2. LockAmount[l] \in Nat
    BY LocksAssumption
  <2>3. CASE k = n
    <3>1. q.nonce = p.nonce /\ q.root = p.root /\ q.amount = p.amount + LockAmount[l]
          /\ p.root # {}
      BY <2>1, <2>3
    <3> HIDE DEF p, q
    <3> QED BY <1>1, <2>2, <3>1
  <2>4. CASE k = o
    BY <2>1, <2>4
  <2> QED BY <1>1, <2>3, <2>4
<1>5. ASSUME NEW k \in Nodes, punishObsoleteUnlock(k) PROVE Goal
  <2>1. /\ contract'.proof[Other(k)] = contract.proof[Other(k)]
        /\ contract'.proof[k] = [amount |-> 0, root |-> {}, nonce |-> MaxUint64]
    BY <1>5, ObsoleteUnlockPunished
  <2>2. CASE k = n
    BY <2>1, <2>2
  <2>3. CASE k = o
    BY <1>5, <2>1, <2>3
  <2> QED BY <1>1, <2>2, <2>3
<1>6. ASSUME NEW k \in Nodes, settle(k) PROVE Goal
  BY <1>6, SettledOnce
<1>7. UNCHANGED contract => Goal
  OBVIOUS
<1>8. Goal
  <2> HIDE DEF Goal
  <2> QED BY <1>2, <1>3, <1>4, <1>5, <1>6, <1>7, ContractSteps
<1> QED BY <1>8

(***************************************************************************)
(* What a node has handed in.                                              *)
(***************************************************************************)
SubmitInv ==
    \A n \in Nodes :
        LET o == Other(n)
            held == end[n][o].bp.transferAmount
        IN  /\ \A i \in 1..Len(pool[n]) :
                  pool[n][i].type \in ProofCalls =>
                     pool[n][i].bp.transferAmount = held /\ state[n] # "Opened"
            /\ (contract.proof[o].nonce > 0 /\ o \notin Punished) =>
                  contract.proof[o].amount >= held /\ state[n] # "Opened"

\* A step keeps what a node has handed in up to date.
LEMMA SubmitStep ==
    ASSUME SettleTypeOK, LogInv, SubmitInv, [SettleNext]_allVars
    PROVE  SubmitInv'
<1> SUFFICES ASSUME NEW n \in Nodes
             PROVE  LET o == Other(n)
                        held == end'[n][o].bp.transferAmount
                    IN  /\ \A i \in 1..Len(pool'[n]) :
                              pool'[n][i].type \in ProofCalls =>
                                 pool'[n][i].bp.transferAmount = held /\ state'[n] # "Opened"
                        /\ (contract'.proof[o].nonce > 0 /\ o \notin Punished') =>
                              contract'.proof[o].amount >= held /\ state'[n] # "Opened"
  BY DEF SubmitInv, Other
<1> DEFINE o == Other(n)
           held == end[n][o].bp.transferAmount
           p == contract.proof[o]
           q == contract'.proof[o]
<1>1. /\ \A i \in 1..Len(pool[n]) :
            pool[n][i].type \in ProofCalls =>
               pool[n][i].bp.transferAmount = held /\ state[n] # "Opened"
      /\ (p.nonce > 0 /\ o \notin Punished) => p.amount >= held /\ state[n] # "Opened"
  BY DEF SubmitInv
<1>2. state[n] # "Opened" => end'[n][o].bp.transferAmount = held /\ state'[n] # "Opened"
  <2>1. state[n] # "Opened" => state'[n] # "Opened"
    BY StateSteps
  <2> QED BY <2>1, PartnerKept
<1>3. ASSUME NEW i \in 1..Len(pool'[n]), pool'[n][i].type \in ProofCalls
      PROVE  /\ pool'[n][i].bp.transferAmount = end'[n][o].bp.transferAmount
             /\ state'[n] # "Opened"
  <2>1. PICK x : x = pool'[n][i]
    OBVIOUS
  <2>2. x.type \in ProofCalls /\ x.type # "unlock"
    BY <1>3, <2>1 DEF ProofCalls
  <2>3. ASSUME NEW j \in 1..Len(pool[n]), Descends(x, pool[n][j])
        PROVE  /\ x.bp.transferAmount = end'[n][o].bp.transferAmount
               /\ state'[n] # "Opened"
    <3>1. x = pool[n][j]
      BY <2>2, <2>3 DEF Descends
    <3> QED BY <1>1, <1>2, <2>2, <3>1
  <2>4. ASSUME SendsCall(n, x)
        PROVE  /\ x.bp.transferAmount = end'[n][o].bp.transferAmount
               /\ state'[n] # "Opened"
    BY <2>2, <2>4 DEF SendsCall, ProofCalls
  <2> QED BY <2>1, <2>2, <2>3, <2>4, PoolSteps
<1>4. ASSUME q.nonce > 0, o \notin Punished'
      PROVE  q.amount >= end'[n][o].bp.transferAmount /\ state'[n] # "Opened"
  <2>1. o \notin Punished
    BY <1>4, PunishedSteps
  <2>2. /\ o \in Nodes /\ p.amount \in Nat /\ q.amount \in Nat /\ held \in Nat
        /\ end'[n][o].bp.transferAmount \in Nat
    <3>1. o \in Nodes
      BY OtherNode
    <3>2. p.amount \in Nat
      BY <3>1, RecordFields
    <3>3. contract' \in ChannelRecord /\ end' \in [Nodes -> [Nodes -> EndState]]
      BY SettleTypeStep DEF SettleTypeOK, TypeOK
    <3>4. contract'.proof \in [Nodes -> ContractProof]
      BY <3>3 DEF ChannelRecord
    <3>5. q \in ContractProof
      BY <3>1, <3>4
    <3>6. q.amount \in Nat
      BY <3>5 DEF ContractProof
    <3>7. end[n][o] \in EndState /\ end'[n][o] \in EndState
      BY <3>1, <3>3 DEF SettleTypeOK, TypeOK
    <3>8. held \in Nat /\ end'[n][o].bp.transferAmount \in Nat
      BY <3>7 DEF EndState, BalanceProofState
    <3> QED BY <3>1, <3>2, <3>6, <3>8
  <2>3. CASE q = p
    BY <1>1, <1>2, <1>4, <2>1, <2>3
  <2>4. ASSUME NEW i \in 1..Len(pool[n]), pool[n][i].type \in ProofCalls, q = ProofOf(pool[n][i].bp)
        PROVE  q.amount >= end'[n][o].bp.transferAmount /\ state'[n] # "Opened"
    <3>1. pool[n][i].bp.transferAmount = held /\ state[n] # "Opened"
      BY <1>1, <2>4
    <3>2. q.amount = pool[n][i].bp.transferAmount
      BY <2>4 DEF ProofOf
    <3> QED BY <1>2, <2>2, <3>1, <3>2
  <2>5. ASSUME q.nonce = p.nonce, q.amount >= p.amount
        PROVE  q.amount >= end'[n][o].bp.transferAmount /\ state'[n] # "Opened"
    <3>1. p.amount >= held /\ state[n] # "Opened"
      BY <1>1, <1>4, <2>1, <2>5
    <3>2. end'[n][o].bp.transferAmount = held /\ state'[n] # "Opened"
      BY <1>2, <3>1
    <3> HIDE DEF p, q, held
    <3> QED BY <2>2, <2>5, <3>1, <3>2
  <2>6. ASSUME punishObsoleteUnlock(o)
        PROVE  FALSE
    BY <1>4, <2>2, <2>6, PunishedNow
  <2> HIDE DEF p, q, held
  <2>7. \/ q = p
        \/ \E i \in 1..Len(pool[n]) : pool[n][i].type \in ProofCalls /\ q = ProofOf(pool[n][i].bp)
        \/ q.nonce = p.nonce /\ q.amount >= p.amount
        \/ punishObsoleteUnlock(o)
    BY ContractProofSteps DEF p, q
  <2> QED BY <2>3, <2>4, <2>5, <2>6, <2>7
<1> QED BY <1>3, <1>4

\* What the contract counts as transferred to a node that has handed in a
\* proof is never less than what that node has registered: after Close or
\* handleClosed a node takes no message that adds to it (CanTransfer,
\* CanDealUnlock), and unlocks only add.
THEOREM SubmitTheorem == SettleSpec => []RegisteredIsSubmitted
<1>1. SettleInit => SubmitInv
  <2> SUFFICES ASSUME SettleInit, NEW n \in Nodes
               PROVE  Len(pool[n]) = 0 /\ contract.proof[Other(n)].nonce = 0
    BY DEF SubmitInv
  <2> QED BY OtherNode DEF SettleInit, NoProof
<1>2. SettleTypeOK /\ LogInv /\ SubmitInv /\ [SettleNext]_allVars => SubmitInv'
  BY SubmitStep
<1>3. SubmitInv => RegisteredIsSubmitted
  BY DEF SubmitInv, RegisteredIsSubmitted
<1> QED BY <1>1, <1>2, <1>3, SettleTypeCorrect, LogAlways, PTL DEF SettleSpec

(***************************************************************************)
(* The punishment is final.                                                *)
(***************************************************************************)
\* The nonce of a proof is an uint64, in the messages and in the contract.
NoncesFit ==
    \A n \in Nodes : \A i \in 1..Len(pool[n]) :
        pool[n][i].type \in ProofCalls => pool[n][i].bp.nonce <= MaxUint64

\* A punishment in favour of a node that has not cheated itself; two cheaters
\* can punish each other, and the one that comes last takes all.
PunishInv ==
    \A m \in Punished \ cheated :
        /\ contract.state # "open"
        /\ contract.share[Other(m)] = 0
        /\ contract.proof[m] = [amount |-> 0, root |-> {}, nonce |-> MaxUint64]
        /\ contract.state = "gone" => payout[Other(m)] = 0

\* A step keeps PunishInv: the beneficiary has not cheated, so that it is not
\* punished itself, and the reset proof stays.
LEMMA PunishStep ==
    ASSUME SettleTypeOK, LogInv, NoncesFit, HonestNeverPunished', PunishInv, [SettleNext]_allVars
    PROVE  PunishInv'
<1> DEFINE None == [amount |-> 0, root |-> {}, nonce |-> MaxUint64]
<1> SUFFICES ASSUME NEW m \in Punished' \ cheated'
             PROVE  /\ contract'.state # "open"
                    /\ contract'.share[Other(m)] = 0
                    /\ contract'.proof[m] = None
                    /\ contract'.state = "gone" => payout'[Other(m)] = 0
  BY DEF PunishInv, Other
<1> DEFINE o == Other(m)
<1>1. m \in Nodes /\ o \in Nodes /\ o # m /\ Other(o) = m /\ Nodes = {m, o}
  <2>1. m \in Nodes
    BY NodesAssumption DEF Nodes, Punished
  <2> QED BY <2>1, OtherNode, NodesAssumption DEF Nodes, Other
<1>2. o \notin Punished' /\ m \notin cheated
  <2>1. o \in Punished' => m \in cheated'
    BY <1>1 DEF HonestNeverPunished, Other
  <2> QED BY <1>1, <2>1, ClaimSteps
<1>3. ~ punishObsoleteUnlock(o)
  BY <1>1, <1>2, PunishedNow
<1>4. CASE m \notin Punished
  <2>1. punishObsoleteUnlock(m)
    BY <1>4, PunishedSteps
  <2>2. /\ contract'.state = "closed" /\ contract'.share[o] = 0 /\ contract'.proof[m] = None
    BY <1>1, <2>1, ObsoleteUnlockPunished
  <2> QED BY <2>2
<1>5. CASE m \in Punished
  <2>1. /\ contract.state # "open" /\ contract.share[o] = 0 /\ contract.proof[m] = None
        /\ contract.state = "gone" => payout[o] = 0
    BY <1>2, <1>5 DEF PunishInv
  <2>2. contract.proof[m].amount = 0 /\ contract.proof[m].root = {}
        /\ contract.proof[m].nonce = MaxUint64
    BY <2>1
  <2>3. contract'.proof[m] = None
    <3>1. ASSUME NEW i \in 1..Len(pool[o]), pool[o][i].type \in ProofCalls,
                 contract.state = "open" \/ pool[o][i].bp.nonce > contract.proof[m].nonce
          PROVE  FALSE
      <4>1. pool[o][i].bp.nonce <= MaxUint64
        BY <1>1, <3>1 DEF NoncesFit
      <4>2. pool[o] \in Seq(Calls)
        BY <1>1 DEF SettleTypeOK
      <4>3. pool[o][i] \in Calls
        BY <4>2
      <4>4. pool[o][i].bp \in BalanceProofState
        BY <3>1, <4>3, CallFields DEF ProofCalls
      <4>5. pool[o][i].bp.nonce \in Nat
        BY <4>4 DEF BalanceProofState
      <4> QED BY <2>1, <2>2, <3>1, <4>1, <4>5 DEF MaxUint64
    <3>2. \/ contract'.proof[m] = contract.proof[m]
          \/ \E i \in 1..Len(pool[o]) :
                /\ pool[o][i].type \in ProofCalls
                /\ contract.state = "open" \/ pool[o][i].bp.nonce > contract.proof[m].nonce
          \/ contract.proof[m].root # {}
          \/ contract'.proof[m] = None
      BY <1>1, ContractProofSteps
    <3> QED BY <2>1, <2>2, <3>1, <3>2
  <2>4. CASE UNCHANGED <<contract, log, payout>>
    BY <2>1, <2>4
  <2>5. ASSUME NEW k \in Nodes,
               \/ prepareSettle(k) \/ updateBalanceProof(k) \/ punishObsoleteUnlock(k)
               \/ \E l \in Locks : unlock(k, l)
        PROVE  contract'.state = "closed" /\ contract'.share[o] = 0
    <3>1. CASE prepareSettle(k)
      BY <2>1, <3>1, PrepareSettled
    <3>2. CASE updateBalanceProof(k)
      BY <2>1, <3>2, BalanceProofUpdated
    <3>3. CASE punishObsoleteUnlock(k)
      <4>1. k = m
        BY <1>1, <1>3, <3>3
      <4> QED BY <3>3, <4>1, ObsoleteUnlockPunished
    <3>4. ASSUME NEW l \in Locks, unlock(k, l)
          PROVE  contract'.state = "closed" /\ contract'.share[o] = 0
      <4>1. contract'.state = "closed" /\ contract'.share = contract.share
        BY <3>4, Unlocked
      <4> QED BY <2>1, <4>1
    <3> QED BY <2>5, <3>1, <3>2, <3>3, <3>4
  <2>6. ASSUME NEW k \in Nodes, settle(k)
        PROVE  contract'.state = "gone" /\ contract'.share[o] = 0 /\ payout'[o] = 0
    <3>1. contract'.state = "gone" /\ contract'.share = contract.share /\ payout' = SettleAmounts
      BY <2>6, SettledOnce
    <3>2. SettleAmounts[o] = 0
      BY <1>1, <2>1, <2>2, SettleAmountsFacts
    <3> QED BY <2>1, <3>1, <3>2
  <2> HIDE DEF None
  <2> QED BY <2>3, <2>4, <2>5, <2>6, ContractSteps
<1> QED BY <1>4, <1>5

\* The punishment holds in every reachable state.
LEMMA PunishAlways == SettleSpec /\ []NoncesFit => []PunishInv
<1>1. SettleInit => PunishInv
  BY DEF SettleInit, PunishInv, Punished
<1>2. SettleTypeOK /\ LogInv /\ NoncesFit /\ HonestNeverPunished' /\ PunishInv /\ [SettleNext]_allVars
         => PunishInv'
  BY PunishStep
<1> QED BY <1>1, <1>2, SettleTypeCorrect, LogAlways, HonestTheorem, PTL DEF SettleSpec

\* Whatever a punished node still sends, it leaves the channel without a
\* token: the reset proof has no root to unlock and the highest nonce
\* (punishObsoleteUnlock).  One of the two nodes is honest: two cheaters can
\* punish each other, and the one that comes last takes all.
THEOREM PunishTheorem ==
    ASSUME Cheaters # Nodes
    PROVE  SettleSpec /\ []NoncesFit => []CheaterLosesAll
<1>1. SettleTypeOK /\ HonestNeverPunished /\ PunishInv => CheaterLosesAll
  <2> SUFFICES ASSUME SettleTypeOK, HonestNeverPunished, PunishInv, NEW m \in Punished
               PROVE  m \notin cheated
    BY DEF PunishInv, CheaterLosesAll
  <2>1. m \in Nodes /\ Other(m) \in Nodes /\ Nodes = {m, Other(m)}
    <3>1. m \in Nodes
      BY DEF Punished
    <3> QED BY <3>1, OtherNode, NodesAssumption DEF Nodes, Other
  <2>2. Other(m) \in cheated /\ cheated \subseteq Cheaters
    BY DEF HonestNeverPunished, SettleTypeOK
  <2> QED BY <2>1, <2>2, SettlementAssumption
<1> QED BY <1>1, PunishAlways, SettleTypeCorrect, HonestTheorem, PTL

(***************************************************************************)
(* The events carry the contract's proofs to the nodes: the amount and the *)
(* root of a participant's proof are those of the last event that concerns *)
(* them, in the contract after the whole log and at a node after the       *)
(* events it has handled.                                                  *)
(***************************************************************************)
Affects(ev, m) ==
    \/ ev.type = "ChannelClosed" /\ m = Other(ev.closer)
    \/ ev.type \in {"BalanceProofUpdated", "ChannelUnlocked"} /\ m = ev.participant
    \/ ev.type = "ChannelPunished" /\ m = ev.beneficiary

\* How an event changes the amount and the root of m's proof.
Effect(ev, m, v, w) ==
    /\ ~ Affects(ev, m) => w.amount = v.amount /\ w.root = v.root
    /\ Affects(ev, m) =>
          /\ w.amount = IF ev.type = "ChannelPunished" THEN 0 ELSE ev.amount
          /\ w.root = IF ev.type = "ChannelUnlocked" THEN v.root
                      ELSE IF ev.type = "ChannelPunished" THEN {} ELSE ev.root

AmountEvents(lg, m) == {i \in 1..Len(lg) : Affects(lg[i], m)}
RootEvents(lg, m) == {i \in 1..Len(lg) : Affects(lg[i], m) /\ lg[i].type # "ChannelUnlocked"}

AmountAt(lg, i) == IF i = 0 THEN 0 ELSE IF lg[i].type = "ChannelPunished" THEN 0 ELSE lg[i].amount
RootAt(lg, i) == IF i = 0 THEN {} ELSE IF lg[i].type = "ChannelPunished" THEN {} ELSE lg[i].root

\* i is the last index up to k in I, and 0 when there is none.
LastIndex(I, k, i) ==
    /\ i = 0 \/ i \in I
    /\ i <= k
    /\ \A j \in I : j <= k => j <= i

\* v is what the first k events say of m.
Replayed(lg, k, m, v) ==
    /\ \E i \in Nat : LastIndex(AmountEvents(lg, m), k, i) /\ v.amount = AmountAt(lg, i)
    /\ \E i \in Nat : LastIndex(RootEvents(lg, m), k, i) /\ v.root = RootAt(lg, i)

\* There is one last index.
LEMMA LastUnique ==
    ASSUME NEW I \in SUBSET Nat, 0 \notin I, NEW k \in Nat, NEW i \in Nat, NEW j \in Nat,
           LastIndex(I, k, i), LastIndex(I, k, j)
    PROVE  i = j
BY DEF LastIndex

\* The last index when k grows by one.
LEMMA LastAdvances ==
    ASSUME NEW I \in SUBSET Nat, NEW k \in Nat, NEW i \in Nat, LastIndex(I, k, i)
    PROVE  /\ k + 1 \in I => LastIndex(I, k + 1, k + 1)
           /\ k + 1 \notin I => LastIndex(I, k + 1, i)
<1>1. \A j \in I : j \in Nat /\ (j <= k + 1 => j <= k \/ j = k + 1)
  OBVIOUS
<1>2. i = 0 \/ i \in I
  BY DEF LastIndex
<1>3. i <= k + 1
  BY DEF LastIndex
<1> QED BY <1>1, <1>2, <1>3 DEF LastIndex

\* What the events say is unique.
LEMMA ReplayUnique ==
    ASSUME NEW lg, Len(lg) \in Nat, NEW k \in Nat, NEW m, NEW v, NEW w,
           Replayed(lg, k, m, v), Replayed(lg, k, m, w)
    PROVE  v.amount = w.amount /\ v.root = w.root
<1>1. /\ AmountEvents(lg, m) \in SUBSET Nat /\ 0 \notin AmountEvents(lg, m)
      /\ RootEvents(lg, m) \in SUBSET Nat /\ 0 \notin RootEvents(lg, m)
  BY DEF AmountEvents, RootEvents
<1>2. v.amount = w.amount
  <2>1. PICK i \in Nat : LastIndex(AmountEvents(lg, m), k, i) /\ v.amount = AmountAt(lg, i)
    BY DEF Replayed
  <2>2. PICK j \in Nat : LastIndex(AmountEvents(lg, m), k, j) /\ w.amount = AmountAt(lg, j)
    BY DEF Replayed
  <2>3. i = j
    BY <1>1, <2>1, <2>2, LastUnique
  <2> QED BY <2>1, <2>2, <2>3
<1>3. v.root = w.root
  <2>1. PICK i \in Nat : LastIndex(RootEvents(lg, m), k, i) /\ v.root = RootAt(lg, i)
    BY DEF Replayed
  <2>2. PICK j \in Nat : LastIndex(RootEvents(lg, m), k, j) /\ w.root = RootAt(lg, j)
    BY DEF Replayed
  <2>3. i = j
    BY <1>1, <2>1, <2>2, LastUnique
  <2> QED BY <2>1, <2>2, <2>3
<1> QED BY <1>2, <1>3

\* One more event.
LEMMA ReplayNext ==
    ASSUME NEW lg \in Seq(Events), NEW k \in Nat, k + 1 \in 1..Len(lg), NEW m, NEW v, NEW w,
           Replayed(lg, k, m, v), Effect(lg[k + 1], m, v, w)
    PROVE  Replayed(lg, k + 1, m, w)
<1> DEFINE ev == lg[k + 1]
<1>1. Len(lg) \in Nat /\ k + 1 # 0
  OBVIOUS
<1>2. /\ AmountEvents(lg, m) \in SUBSET Nat /\ RootEvents(lg, m) \in SUBSET Nat
      /\ k + 1 \in AmountEvents(lg, m) <=> Affects(ev, m)
      /\ k + 1 \in RootEvents(lg, m) <=> Affects(ev, m) /\ ev.type # "ChannelUnlocked"
  BY <1>1 DEF AmountEvents, RootEvents
<1>3. \E i \in Nat : LastIndex(AmountEvents(lg, m), k + 1, i) /\ w.amount = AmountAt(lg, i)
  <2>1. PICK i \in Nat : LastIndex(AmountEvents(lg, m), k, i) /\ v.amount = AmountAt(lg, i)
    BY DEF Replayed
  <2>2. CASE Affects(ev, m)
    <3>1. LastIndex(AmountEvents(lg, m), k + 1, k + 1)
      BY <1>2, <2>1, <2>2, LastAdvances
    <3>2. w.amount = AmountAt(lg, k + 1)
      BY <1>1, <2>2 DEF Effect, AmountAt
    <3> QED BY <3>1, <3>2
  <2>3. CASE ~ Affects(ev, m)
    <3>1. LastIndex(AmountEvents(lg, m), k + 1, i)
      BY <1>2, <2>1, <2>3, LastAdvances
    <3>2. w.amount = v.amount
      BY <2>3 DEF Effect
    <3> QED BY <2>1, <3>1, <3>2
  <2> QED BY <2>2, <2>3
<1>4. \E i \in Nat : LastIndex(RootEvents(lg, m), k + 1, i) /\ w.root = RootAt(lg, i)
  <2>1. PICK i \in Nat : LastIndex(RootEvents(lg, m), k, i) /\ v.root = RootAt(lg, i)
    BY DEF Replayed
  <2>2. CASE Affects(ev, m) /\ ev.type # "ChannelUnlocked"
    <3>1. LastIndex(RootEvents(lg, m), k + 1, k + 1)
      BY <1>2, <2>1, <2>2, LastAdvances
    <3>2. w.root = RootAt(lg, k + 1)
      BY <1>1, <2>2 DEF Effect, RootAt
    <3> QED BY <3>1, <3>2
  <2>3. CASE ~ (Affects(ev, m) /\ ev.type # "ChannelUnlocked")
    <3>1. LastIndex(RootEvents(lg, m), k + 1, i)
      BY <1>2, <2>1, <2>3, LastAdvances
    <3>2. w.root = v.root
      BY <2>3 DEF Effect
    <3> QED BY <2>1, <3>1, <3>2
  <2> QED BY <2>2, <2>3
<1> QED BY <1>3, <1>4 DEF Replayed

\* The events a node has handled do not change when the log grows.
LEMMA ReplayGrows ==
    ASSUME NEW lg \in Seq(Events), NEW ev \in Events, NEW k \in 0..Len(lg), NEW m, NEW v,
           Replayed(lg, k, m, v)
    PROVE  Replayed(Append(lg, ev), k, m, v)
<1>1. PICK g : g = Append(lg, ev)
  OBVIOUS
<1>2. Len(lg) \in Nat /\ Len(g) = Len(lg) + 1 /\ \A i \in 1..Len(lg) : g[i] = lg[i]
  BY <1>1, EventAppended
<1>3. ASSUME NEW i \in Nat, LastIndex(AmountEvents(lg, m), k, i)
      PROVE  LastIndex(AmountEvents(g, m), k, i) /\ AmountAt(g, i) = AmountAt(lg, i)
  <2>1. i = 0 \/ i \in 1..Len(lg)
    BY <1>3 DEF LastIndex, AmountEvents
  <2>2. \A j \in AmountEvents(g, m) : j <= k => j \in AmountEvents(lg, m)
    BY <1>2 DEF AmountEvents
  <2>3. i = 0 \/ i \in AmountEvents(g, m)
    BY <1>2, <1>3 DEF LastIndex, AmountEvents
  <2>4. AmountAt(g, i) = AmountAt(lg, i)
    BY <1>2, <2>1 DEF AmountAt
  <2> QED BY <1>3, <2>2, <2>3, <2>4 DEF LastIndex
<1>4. ASSUME NEW i \in Nat, LastIndex(RootEvents(lg, m), k, i)
      PROVE  LastIndex(RootEvents(g, m), k, i) /\ RootAt(g, i) = RootAt(lg, i)
  <2>1. i = 0 \/ i \in 1..Len(lg)
    BY <1>4 DEF LastIndex, RootEvents
  <2>2. \A j \in RootEvents(g, m) : j <= k => j \in RootEvents(lg, m)
    BY <1>2 DEF RootEvents
  <2>3. i = 0 \/ i \in RootEvents(g, m)
    BY <1>2, <1>4 DEF LastIndex, RootEvents
  <2>4. RootAt(g, i) = RootAt(lg, i)
    BY <1>2, <2>1 DEF RootAt
  <2> QED BY <1>4, <2>2, <2>3, <2>4 DEF LastIndex
<1>5. Replayed(g, k, m, v)
  <2>1. PICK i \in Nat : LastIndex(AmountEvents(lg, m), k, i) /\ v.amount = AmountAt(lg, i)
    BY DEF Replayed
  <2>2. PICK j \in Nat : LastIndex(RootEvents(lg, m), k, j) /\ v.root = RootAt(lg, j)
    BY DEF Replayed
  <2> QED BY <1>3, <1>4, <2>1, <2>2 DEF Replayed
<1> QED BY <1>1, <1>5

\* A step of the contract does to the proofs what its event says.
LEMMA ContractEffects ==
    ASSUME SettleTypeOK, [SettleNext]_allVars,
           contract.state = "open" => \A m \in Nodes : contract.proof[m] = NoProof,
           \A n \in Nodes : \A i \in 1..Len(pool[n]) :
              pool[n][i].type = "prepareSettle" /\ pool[n][i].bp.nonce = 0 =>
                 pool[n][i].bp.transferAmount = 0 /\ pool[n][i].bp.locksRoot = {}
    PROVE  \/ UNCHANGED <<contract, log>>
           \/ \E ev \in Events :
                 /\ log' = Append(log, ev) /\ contract'.state # "open"
                 /\ \A m \in Nodes : Effect(ev, m, contract.proof[m], contract'.proof[m])
<1> DEFINE Goal == \E ev \in Events :
                      /\ log' = Append(log, ev) /\ contract'.state # "open"
                      /\ \A m \in Nodes : Effect(ev, m, contract.proof[m], contract'.proof[m])
<1>1. \A n \in Nodes : /\ Other(n) \in Nodes /\ Other(n) # n
                       /\ \A m \in Nodes : m # n => m = Other(n)
  BY OtherNode, NodesAssumption DEF Nodes, Other
<1>2. ASSUME NEW n \in Nodes, prepareSettle(n) PROVE Goal
  <2> DEFINE bp == Head(pool[n]).bp
             o == Other(n)
             e == [block |-> height + 1, type |-> "ChannelClosed", closer |-> n,
                   amount |-> bp.transferAmount, root |-> bp.locksRoot]
  <2>1. /\ e \in Events /\ log' = Append(log, e) /\ contract'.state = "closed"
        /\ contract.state = "open" /\ contract'.proof[n] = contract.proof[n]
        /\ contract'.proof[o] = IF bp.nonce > 0 THEN ProofOf(bp) ELSE contract.proof[o]
        /\ bp \in BalanceProofState
    BY <1>2, PrepareSettled DEF ProofOf
  <2>2. /\ e.type = "ChannelClosed" /\ e.closer = n /\ e.amount = bp.transferAmount
        /\ e.root = bp.locksRoot
    OBVIOUS
  <2>3. bp.nonce = 0 => bp.transferAmount = 0 /\ bp.locksRoot = {}
    <3>1. /\ Head(pool[n]) = pool[n][1] /\ pool[n][1].type = "prepareSettle"
          /\ Len(pool[n]) \in Nat \ {0}
      BY <1>2, MinedCall DEF prepareSettle
    <3>2. 1 \in 1..Len(pool[n])
      BY <3>1
    <3> QED BY <3>1, <3>2
  <2>4. bp.nonce \in Nat
    BY <2>1 DEF BalanceProofState
  <2>5. /\ contract'.proof[o].amount = bp.transferAmount
        /\ contract'.proof[o].root = bp.locksRoot
    <3>1. CASE bp.nonce > 0
      BY <2>1, <3>1 DEF ProofOf
    <3>2. CASE bp.nonce = 0
      <4>1. contract.proof[o] = NoProof
        BY <1>1, <2>1
      <4>2. contract'.proof[o] = NoProof
        BY <2>1, <3>2, <4>1
      <4>3. bp.transferAmount = 0 /\ bp.locksRoot = {}
        BY <2>3, <3>2
      <4> QED BY <4>2, <4>3 DEF NoProof
    <3> QED BY <2>4, <3>1, <3>2
  <2> HIDE DEF e, bp
  <2>6. ASSUME NEW m \in Nodes
        PROVE  Effect(e, m, contract.proof[m], contract'.proof[m])
    <3>1. CASE m = o
      BY <2>2, <2>5, <3>1 DEF Effect, Affects
    <3>2. CASE m = n
      BY <1>1, <2>1, <2>2, <3>2 DEF Effect, Affects
    <3> QED BY <1>1, <3>1, <3>2
  <2> QED BY <2>1, <2>6
<1>3. ASSUME NEW n \in Nodes, updateBalanceProof(n) PROVE Goal
  <2> DEFINE bp == Head(pool[n]).bp
             o == Other(n)
             e == [block |-> height + 1, type |-> "BalanceProofUpdated", participant |-> o,
                   amount |-> bp.transferAmount, root |-> bp.locksRoot]
  <2>1. /\ e \in Events /\ log' = Append(log, e) /\ contract'.state = "closed"
        /\ contract'.proof[n] = contract.proof[n]
        /\ contract'.proof[o] = ProofOf(bp)
    BY <1>3, BalanceProofUpdated DEF ProofOf
  <2>2. /\ e.type = "BalanceProofUpdated" /\ e.participant = o /\ e.amount = bp.transferAmount
        /\ e.root = bp.locksRoot
    OBVIOUS
  <2>3. /\ contract'.proof[o].amount = bp.transferAmount
        /\ contract'.proof[o].root = bp.locksRoot
    BY <2>1 DEF ProofOf
  <2> HIDE DEF e, bp
  <2>4. ASSUME NEW m \in Nodes
        PROVE  Effect(e, m, contract.proof[m], contract'.proof[m])
    <3>1. CASE m = o
      BY <2>2, <2>3, <3>1 DEF Effect, Affects
    <3>2. CASE m = n
      BY <1>1, <2>1, <2>2, <3>2 DEF Effect, Affects
    <3> QED BY <1>1, <3>1, <3>2
  <2> QED BY <2>1, <2>4
<1>4. ASSUME NEW n \in Nodes, NEW l \in Locks, unlock(n, l) PROVE Goal
  <2> DEFINE tx == Head(pool[n])
             o == Other(n)
             e == [block |-> height + 1, type |-> "ChannelUnlocked", participant |-> o,
                   lock |-> l, amount |-> tx.amount + LockAmount[l]]
  <2>1. e \in Events /\ log' = Append(log, e) /\ contract'.state = "closed"
    BY <1>4, Unlocked
  <2>2. /\ tx.amount = contract.proof[o].amount
        /\ contract'.proof[n] = contract.proof[n]
        /\ contract'.proof[o].amount = contract.proof[o].amount + LockAmount[l]
        /\ contract'.proof[o].root = contract.proof[o].root
    <3>1. /\ tx.amount = contract.proof[o].amount
          /\ contract'.proof[n] = contract.proof[n]
          /\ contract'.proof[o] =
                [amount |-> contract.proof[o].amount + LockAmount[l],
                 root |-> contract.proof[o].root, nonce |-> contract.proof[o].nonce]
      BY <1>4, Unlocked
    <3> QED BY <3>1
  <2>3. /\ e.type = "ChannelUnlocked" /\ e.participant = o
        /\ e.amount = tx.amount + LockAmount[l]
    OBVIOUS
  <2> HIDE DEF e, tx
  <2>4. ASSUME NEW m \in Nodes
        PROVE  Effect(e, m, contract.proof[m], contract'.proof[m])
    <3>1. CASE m = o
      BY <2>2, <2>3, <3>1 DEF Effect, Affects
    <3>2. CASE m = n
      BY <1>1, <2>2, <2>3, <3>2 DEF Effect, Affects
    <3> QED BY <1>1, <3>1, <3>2
  <2> QED BY <2>1, <2>4
<1>5. ASSUME NEW n \in Nodes, punishObsoleteUnlock(n) PROVE Goal
  <2> DEFINE e == [block |-> height + 1, type |-> "ChannelPunished", beneficiary |-> n]
  <2>1. /\ e \in Events /\ log' = Append(log, e) /\ contract'.state = "closed"
        /\ contract'.proof[Other(n)] = contract.proof[Other(n)]
        /\ contract'.proof[n] = [amount |-> 0, root |-> {}, nonce |-> MaxUint64]
    BY <1>5, ObsoleteUnlockPunished
  <2>2. e.type = "ChannelPunished" /\ e.beneficiary = n
    OBVIOUS
  <2> HIDE DEF e
  <2>3. ASSUME NEW m \in Nodes
        PROVE  Effect(e, m, contract.proof[m], contract'.proof[m])
    <3>1. CASE m = n
      <4>1. contract'.proof[m].amount = 0 /\ contract'.proof[m].root = {}
        BY <2>1, <3>1
      <4> QED BY <2>2, <3>1, <4>1 DEF Effect, Affects
    <3>2. CASE m = Other(n)
      BY <1>1, <2>1, <2>2, <3>2 DEF Effect, Affects
    <3> QED BY <1>1, <3>1, <3>2
  <2> QED BY <2>1, <2>3
<1>6. ASSUME NEW n \in Nodes, settle(n) PROVE Goal
  <2> DEFINE e == [block |-> height + 1, type |-> "ChannelSettled"]
  <2>1. /\ e \in Events /\ log' = Append(log, e) /\ contract'.state = "gone"
        /\ contract'.proof = contract.proof
    BY <1>6, SettledOnce
  <2>2. e.type = "ChannelSettled"
    OBVIOUS
  <2> HIDE DEF e
  <2> QED BY <2>1, <2>2 DEF Effect, Affects
<1> HIDE DEF Goal
<1>7. UNCHANGED <<contract, log>> \/ Goal
  BY <1>2, <1>3, <1>4, <1>5, <1>6, ContractSteps
<1> QED BY <1>7 DEF Goal

\* A handler does to a node's arguments for settle what its event says.
LEMMA ArgumentSteps ==
    ASSUME SettleTypeOK, [SettleNext]_allVars, NEW n \in Nodes
    PROVE  \/ onContract'[n] = onContract[n] /\ seen'[n] = seen[n]
           \/ /\ seen[n] \in Nat /\ seen[n] + 1 \in 1..Len(log) /\ log' = log
              /\ seen'[n] = seen[n] + 1
              /\ \A m \in Nodes : Effect(log[seen[n] + 1], m, onContract[n][m], onContract'[n][m])
<1> DEFINE Still == onContract'[n] = onContract[n] /\ seen'[n] = seen[n]
           Handles == /\ seen[n] \in Nat /\ seen[n] + 1 \in 1..Len(log) /\ log' = log
                      /\ seen'[n] = seen[n] + 1
                      /\ \A m \in Nodes :
                            Effect(log[seen[n] + 1], m, onContract[n][m], onContract'[n][m])
           Goal == Still \/ Handles
<1>1. \A k \in Nodes : /\ Other(k) \in Nodes /\ Other(k) # k /\ Other(Other(k)) = k
                       /\ \A m \in Nodes : m # k => m = Other(k)
  BY OtherNode, NodesAssumption DEF Nodes, Other
<1>2. UNCHANGED <<onContract, seen>> => Goal
  OBVIOUS
<1>3. onContract \in [Nodes -> [Nodes -> [amount : Nat, root : SUBSET Locks]]]
  BY DEF SettleTypeOK, SettleArguments
<1>4. ASSUME NEW k \in Nodes, NEW type, HandleEvent(k, type), NEW g,
             onContract' = [onContract EXCEPT ![k] = g],
             \A m \in Nodes : Effect(log[seen[k] + 1], m, onContract[k][m], g[m])
      PROVE  Goal
  <2>1. /\ seen[k] \in Nat /\ seen[k] + 1 \in 1..Len(log) /\ UNCHANGED log
        /\ seen' = [seen EXCEPT ![k] = seen[k] + 1]
    BY <1>4, HandledEvent
  <2>2. CASE k = n
    <3>1. onContract'[n] = g /\ seen'[n] = seen[n] + 1
      BY <1>3, <1>4, <2>1, <2>2 DEF SettleTypeOK
    <3> QED BY <1>4, <2>1, <2>2, <3>1
  <2>3. CASE k # n
    BY <1>3, <1>4, <2>1, <2>3 DEF SettleTypeOK
  <2> QED BY <2>2, <2>3
<1>5. ASSUME NEW k \in Nodes, handleClosed(k) PROVE Goal
  <2> DEFINE ev == log[seen[k] + 1]
             c == Other(ev.closer)
             v == [amount |-> ev.amount, root |-> ev.root]
             g == [onContract[k] EXCEPT ![c] = v]
  <2>1. HandleEvent(k, "ChannelClosed")
    BY <1>5 DEF handleClosed
  <2>2. ev \in Events /\ ev.type = "ChannelClosed"
    BY <2>1, HandledEvent
  <2>3. ev.closer \in Nodes
    BY <2>2, EventFields
  <2>4. c = IF ev.closer = k THEN Other(k) ELSE k
    BY <1>1, <2>3
  <2>5. onContract' = [onContract EXCEPT ![k][c] = v]
    BY <1>5, <2>4 DEF handleClosed
  <2>6. v.amount = ev.amount /\ v.root = ev.root
    OBVIOUS
  <2> HIDE DEF v, c
  <2>7. onContract' = [onContract EXCEPT ![k] = g]
    BY <2>5
  <2>8. c \in Nodes
    BY <1>1, <2>4
  <2>9. \A m \in Nodes : g[m] = IF m = c THEN v ELSE onContract[k][m]
    BY <1>3, <2>8
  <2> HIDE DEF g, ev
  <2>10. ASSUME NEW m \in Nodes
         PROVE  Effect(ev, m, onContract[k][m], g[m])
    <3>1. Affects(ev, m) <=> m = c
      BY <2>2 DEF Affects, c
    <3> QED BY <2>2, <2>6, <2>9, <3>1 DEF Effect
  <2> QED BY <1>4, <2>1, <2>7, <2>10 DEF ev
<1>6. ASSUME NEW k \in Nodes, handleBalanceProofOnChain(k) PROVE Goal
  <2> DEFINE ev == log[seen[k] + 1]
             c == ev.participant
             v == [amount |-> ev.amount, root |-> ev.root]
             g == [onContract[k] EXCEPT ![c] = v]
  <2>1. /\ HandleEvent(k, "BalanceProofUpdated")
        /\ onContract' = [onContract EXCEPT ![k][c] = v]
    BY <1>6 DEF handleBalanceProofOnChain
  <2>2. ev \in Events /\ ev.type = "BalanceProofUpdated"
    BY <2>1, HandledEvent
  <2>3. c \in Nodes
    BY <2>2, EventFields
  <2>4. v.amount = ev.amount /\ v.root = ev.root
    OBVIOUS
  <2> HIDE DEF v, c
  <2>5. onContract' = [onContract EXCEPT ![k] = g]
    BY <2>1
  <2>6. \A m \in Nodes : g[m] = IF m = c THEN v ELSE onContract[k][m]
    BY <1>3, <2>3
  <2> HIDE DEF g, ev
  <2>7. ASSUME NEW m \in Nodes
        PROVE  Effect(ev, m, onContract[k][m], g[m])
    <3>1. Affects(ev, m) <=> m = c
      BY <2>2 DEF Affects, c
    <3> QED BY <2>2, <2>4, <2>6, <3>1 DEF Effect
  <2> QED BY <1>4, <2>1, <2>5, <2>7 DEF ev
<1>7. ASSUME NEW k \in Nodes, handleUnlockOnChain(k) PROVE Goal
  <2> DEFINE ev == log[seen[k] + 1]
             c == ev.participant
             v == [onContract[k][c] EXCEPT !.amount = ev.amount]
             g == [onContract[k] EXCEPT ![c] = v]
  <2>1. /\ HandleEvent(k, "ChannelUnlocked")
        /\ onContract' = [onContract EXCEPT ![k][c].amount = ev.amount]
    BY <1>7 DEF handleUnlockOnChain
  <2>2. ev \in Events /\ ev.type = "ChannelUnlocked"
    BY <2>1, HandledEvent
  <2>3. c \in Nodes
    BY <2>2, EventFields
  <2>4. v.amount = ev.amount /\ v.root = onContract[k][c].root
    <3> HIDE DEF c, ev
    <3>1. onContract[k][c] \in [amount : Nat, root : SUBSET Locks]
      BY <1>3, <2>3
    <3> QED BY <3>1
  <2>5. onContract' = [onContract EXCEPT ![k] = g]
    BY <2>1
  <2> HIDE DEF v, c
  <2>6. \A m \in Nodes : g[m] = IF m = c THEN v ELSE onContract[k][m]
    BY <1>3, <2>3
  <2> HIDE DEF g, ev
  <2>7. ASSUME NEW m \in Nodes
        PROVE  Effect(ev, m, onContract[k][m], g[m])
    <3>1. Affects(ev, m) <=> m = c
      BY <2>2 DEF Affects, c
    <3> QED BY <2>2, <2>4, <2>6, <3>1 DEF Effect
  <2> QED BY <1>4, <2>1, <2>5, <2>7 DEF ev
<1>8. ASSUME NEW k \in Nodes, handlePunishedOnChain(k) PROVE Goal
  <2> DEFINE ev == log[seen[k] + 1]
             c == ev.beneficiary
             v == [amount |-> 0, root |-> {}]
             g == [onContract[k] EXCEPT ![c] = v]
  <2>1. /\ HandleEvent(k, "ChannelPunished")
        /\ onContract' = [onContract EXCEPT ![k][c] = v]
    BY <1>8 DEF handlePunishedOnChain
  <2>2. ev \in Events /\ ev.type = "ChannelPunished"
    BY <2>1, HandledEvent
  <2>3. c \in Nodes
    BY <2>2, EventFields
  <2>4. v.amount = 0 /\ v.root = {}
    OBVIOUS
  <2> HIDE DEF v, c
  <2>5. onContract' = [onContract EXCEPT ![k] = g]
    BY <2>1
  <2>6. \A m \in Nodes : g[m] = IF m = c THEN v ELSE onContract[k][m]
    BY <1>3, <2>3
  <2> HIDE DEF g, ev
  <2>7. ASSUME NEW m \in Nodes
        PROVE  Effect(ev, m, onContract[k][m], g[m])
    <3>1. Affects(ev, m) <=> m = c
      BY <2>2 DEF Affects, c
    <3> QED BY <2>2, <2>4, <2>6, <3>1 DEF Effect
  <2> QED BY <1>4, <2>1, <2>5, <2>7 DEF ev
<1>9. ASSUME NEW k \in Nodes, handleSettled(k) PROVE Goal
  <2> DEFINE ev == log[seen[k] + 1]
  <2>1. HandleEvent(k, "ChannelSettled") /\ UNCHANGED onContract
    BY <1>9 DEF handleSettled
  <2>2. ev.type = "ChannelSettled"
    BY <2>1, HandledEvent
  <2>3. onContract' = [onContract EXCEPT ![k] = onContract[k]]
    BY <1>3, <2>1
  <2> HIDE DEF ev
  <2>4. \A m \in Nodes : Effect(ev, m, onContract[k][m], onContract[k][m])
    BY <2>2 DEF Effect, Affects
  <2> QED BY <1>4, <2>1, <2>3, <2>4 DEF ev
<1>10. ASSUME NEW k \in Nodes,
              \/ SendTransfer(k) \/ ReceiveTransfer(k) \/ FollowBlocks(k)
              \/ Close(k) \/ Settle(k) \/ Revert(k) \/ Drop(k)
       PROVE  Goal
  <2>1. UNCHANGED <<onContract, seen>>
    BY <1>10 DEF SendTransfer, ReceiveTransfer, FollowBlocks, Close, Settle, Revert, Drop, settleVars
  <2> QED BY <1>2, <2>1
<1>11. ASSUME NEW k \in Nodes, NEW l \in Locks,
              ReceiveAnnounceDisposed(k, l) \/ SecretRegistered(k, l) \/ SecretLearned(k, l)
       PROVE  Goal
  <2>1. UNCHANGED <<onContract, seen>>
    BY <1>11 DEF ReceiveAnnounceDisposed, SecretRegistered, SecretLearned, settleVars
  <2> QED BY <1>2, <2>1
<1>12. ASSUME NEW k \in Nodes,
              \/ prepareSettle(k) \/ updateBalanceProof(k) \/ punishObsoleteUnlock(k)
              \/ settle(k) \/ \E l \in Locks : unlock(k, l)
       PROVE  Goal
  <2>1. UNCHANGED <<onContract, seen>>
    BY <1>12 DEF prepareSettle, updateBalanceProof, punishObsoleteUnlock, settle, unlock, Mined
  <2> QED BY <1>2, <2>1
<1>13. ASSUME NEW S \in SUBSET Registrable, NewBlock(S), UNCHANGED settleVars PROVE Goal
  BY <1>2, <1>13 DEF settleVars
<1>14. ASSUME UNCHANGED allVars PROVE Goal
  BY <1>2, <1>14 DEF allVars, settleVars
<1>15. Goal
  <2> HIDE DEF Goal
  <2>1. ASSUME NEW k \in Nodes, NEW l \in Locks, unlock(k, l)
        PROVE  Goal
    BY <1>12, <2>1
  <2> QED BY <1>5, <1>6, <1>7, <1>8, <1>9, <1>10, <1>11, <1>12, <1>13, <1>14, <2>1 DEF SettleNext
<1> QED BY <1>15

ArgumentsInv ==
    \A m \in Nodes :
        /\ Replayed(log, Len(log), m, contract.proof[m])
        /\ contract.state = "open" => contract.proof[m] = NoProof
        /\ \A n \in Nodes : Replayed(log, seen[n], m, onContract[n][m])

\* A balance proof that nobody has signed is empty.
UnsignedInv ==
    \A n \in Nodes :
        /\ LET bp == end[n][Other(n)].bp
           IN  bp.nonce = 0 => bp.transferAmount = 0 /\ bp.locksRoot = {}
        /\ \A i \in 1..Len(pool[n]) :
              pool[n][i].type = "prepareSettle" /\ pool[n][i].bp.nonce = 0 =>
                 pool[n][i].bp.transferAmount = 0 /\ pool[n][i].bp.locksRoot = {}

\* This holds in every reachable state.
LEMMA UnsignedAlways == SettleSpec => []UnsignedInv
<1>1. SettleInit => UnsignedInv
  <2> SUFFICES ASSUME SettleInit, NEW n \in Nodes
               PROVE  /\ end[n][Other(n)].bp.transferAmount = 0
                      /\ end[n][Other(n)].bp.locksRoot = {}
                      /\ Len(pool[n]) = 0
    BY DEF UnsignedInv
  <2>1. end[n][Other(n)] = NewChannelEndState(InitDeposit[Other(n)])
    BY OtherNode DEF SettleInit, Init
  <2>2. Len(pool[n]) = 0
    BY DEF SettleInit
  <2> QED BY <2>1, <2>2 DEF NewChannelEndState
<1>2. SettleTypeOK /\ LogInv /\ UnsignedInv /\ [SettleNext]_allVars => UnsignedInv'
  <2> SUFFICES ASSUME SettleTypeOK, LogInv, UnsignedInv, [SettleNext]_allVars, NEW n \in Nodes
               PROVE  /\ end'[n][Other(n)].bp.nonce = 0 =>
                            /\ end'[n][Other(n)].bp.transferAmount = 0
                            /\ end'[n][Other(n)].bp.locksRoot = {}
                      /\ \A i \in 1..Len(pool'[n]) :
                            pool'[n][i].type = "prepareSettle" /\ pool'[n][i].bp.nonce = 0 =>
                               /\ pool'[n][i].bp.transferAmount = 0
                               /\ pool'[n][i].bp.locksRoot = {}
    BY DEF UnsignedInv, Other
  <2>1. PICK bp : bp = end'[n][Other(n)].bp
    OBVIOUS
  <2>2. bp.nonce = 0 => bp.transferAmount = 0 /\ bp.locksRoot = {}
    <3>1. bp = end[n][Other(n)].bp \/ bp.nonce > 0
      BY <2>1, PartnerKept
    <3> QED BY <3>1 DEF UnsignedInv
  <2>3. ASSUME NEW i \in 1..Len(pool'[n]), pool'[n][i].type = "prepareSettle",
               pool'[n][i].bp.nonce = 0
        PROVE  pool'[n][i].bp.transferAmount = 0 /\ pool'[n][i].bp.locksRoot = {}
    <3>1. PICK x : x = pool'[n][i]
      OBVIOUS
    <3>2. ASSUME NEW j \in 1..Len(pool[n]), Descends(x, pool[n][j])
          PROVE  x = pool[n][j]
      BY <2>3, <3>1, <3>2 DEF Descends
    <3>3. ASSUME SendsCall(n, x)
          PROVE  x.bp = bp
      BY <2>1, <2>3, <3>1, <3>3 DEF SendsCall
    <3>4. (\E j \in 1..Len(pool[n]) : x = pool[n][j]) \/ x.bp = bp
      BY <2>3, <3>1, <3>2, <3>3, PoolSteps
    <3> QED BY <2>2, <2>3, <3>1, <3>4 DEF UnsignedInv
  <2> QED BY <2>1, <2>2, <2>3
<1> QED BY <1>1, <1>2, SettleTypeCorrect, LogAlways, PTL DEF SettleSpec

\* A step keeps the contract and the nodes in line with the log.
LEMMA ArgumentsStep ==
    ASSUME SettleTypeOK, LogInv, UnsignedInv, ArgumentsInv, [SettleNext]_allVars
    PROVE  ArgumentsInv'
<1>1. /\ log \in Seq(Events) /\ Len(log) \in Nat
      /\ \A n \in Nodes : seen[n] \in 0..Len(log) /\ seen[n] \in Nat
  BY DEF SettleTypeOK
<1>2. \/ UNCHANGED <<contract, log>>
      \/ \E ev \in Events :
            /\ log' = Append(log, ev) /\ contract'.state # "open"
            /\ \A m \in Nodes : Effect(ev, m, contract.proof[m], contract'.proof[m])
  BY ContractEffects DEF ArgumentsInv, UnsignedInv
<1>3. ASSUME NEW m \in Nodes
      PROVE  /\ Replayed(log', Len(log'), m, contract'.proof[m])
             /\ contract'.state = "open" => contract'.proof[m] = NoProof
  <2>1. CASE UNCHANGED <<contract, log>>
    BY <2>1 DEF ArgumentsInv
  <2>2. ASSUME NEW ev \in Events, log' = Append(log, ev), contract'.state # "open",
               \A k \in Nodes : Effect(ev, k, contract.proof[k], contract'.proof[k])
        PROVE  /\ Replayed(log', Len(log'), m, contract'.proof[m])
               /\ contract'.state # "open"
    <3>1. /\ log' \in Seq(Events) /\ Len(log') = Len(log) + 1 /\ log'[Len(log) + 1] = ev
      BY <1>1, <2>2, EventAppended
    <3>2. Replayed(log', Len(log), m, contract.proof[m])
      <4>1. Replayed(log, Len(log), m, contract.proof[m])
        BY DEF ArgumentsInv
      <4>2. Len(log) \in 0..Len(log)
        BY <1>1
      <4> QED BY <1>1, <2>2, <4>1, <4>2, ReplayGrows
    <3>3. Len(log) + 1 \in 1..Len(log')
      BY <1>1, <3>1
    <3> QED BY <1>1, <2>2, <3>1, <3>2, <3>3, ReplayNext
  <2> QED BY <1>2, <2>1, <2>2
<1>4. ASSUME NEW n \in Nodes, NEW m \in Nodes
      PROVE  Replayed(log', seen'[n], m, onContract'[n][m])
  <2>1. Replayed(log, seen[n], m, onContract[n][m])
    BY DEF ArgumentsInv
  <2>2. CASE onContract'[n] = onContract[n] /\ seen'[n] = seen[n]
    <3>1. CASE UNCHANGED log
      BY <2>1, <2>2, <3>1
    <3>2. ASSUME NEW ev \in Events, log' = Append(log, ev)
          PROVE  Replayed(log', seen[n], m, onContract[n][m])
      BY <1>1, <2>1, <3>2, ReplayGrows
    <3> QED BY <1>2, <2>2, <3>1, <3>2
  <2>3. ASSUME seen[n] \in Nat, seen[n] + 1 \in 1..Len(log), log' = log, seen'[n] = seen[n] + 1,
               \A k \in Nodes : Effect(log[seen[n] + 1], k, onContract[n][k], onContract'[n][k])
        PROVE  Replayed(log', seen'[n], m, onContract'[n][m])
    BY <1>1, <2>1, <2>3, ReplayNext
  <2> QED BY <2>2, <2>3, ArgumentSteps
<1> QED BY <1>3, <1>4 DEF ArgumentsInv

\* A node that has followed the events can settle: the amounts and roots it
\* would pass are those the contract holds, in whatever order the closes,
\* updates, unlocks and punishments of the two nodes were mined.
THEOREM ArgumentsTheorem == SettleSpec => []SettleArgumentsMatch
<1>1. SettleInit => ArgumentsInv
  <2> SUFFICES ASSUME SettleInit, NEW m \in Nodes
               PROVE  /\ Replayed(log, Len(log), m, contract.proof[m])
                      /\ contract.proof[m] = NoProof
                      /\ \A n \in Nodes : Replayed(log, seen[n], m, onContract[n][m])
    BY DEF ArgumentsInv
  <2>1. /\ Len(log) = 0 /\ contract.proof[m] = NoProof
        /\ \A n \in Nodes : seen[n] = 0 /\ onContract[n][m] = [amount |-> 0, root |-> {}]
    BY DEF SettleInit
  <2>2. LastIndex(AmountEvents(log, m), 0, 0) /\ LastIndex(RootEvents(log, m), 0, 0)
    BY <2>1 DEF LastIndex, AmountEvents, RootEvents
  <2>3. AmountAt(log, 0) = 0 /\ RootAt(log, 0) = {}
    BY DEF AmountAt, RootAt
  <2>4. ASSUME NEW v, v.amount = 0, v.root = {}
        PROVE  Replayed(log, 0, m, v)
    BY <2>2, <2>3, <2>4 DEF Replayed
  <2>5. NoProof.amount = 0 /\ NoProof.root = {}
    BY DEF NoProof
  <2>6. \A n \in Nodes : onContract[n][m].amount = 0 /\ onContract[n][m].root = {}
    BY <2>1
  <2> QED BY <2>1, <2>4, <2>5, <2>6
<1>2. SettleTypeOK /\ LogInv /\ UnsignedInv /\ ArgumentsInv /\ [SettleNext]_allVars => ArgumentsInv'
  BY ArgumentsStep
<1>3. SettleTypeOK /\ ArgumentsInv => SettleArgumentsMatch
  <2> SUFFICES ASSUME SettleTypeOK, ArgumentsInv, NEW n \in Nodes, NEW m \in Nodes,
                      seen[n] = Len(log)
               PROVE  /\ onContract[n][m].amount = contract.proof[m].amount
                      /\ onContract[n][m].root = contract.proof[m].root
    BY DEF SettleArgumentsMatch, HasSeenAll
  <2>1. Len(log) \in Nat
    BY DEF SettleTypeOK
  <2>2. /\ Replayed(log, Len(log), m, onContract[n][m])
        /\ Replayed(log, Len(log), m, contract.proof[m])
    BY DEF ArgumentsInv
  <2> QED BY <2>1, <2>2, ReplayUnique
<1> QED BY <1>1, <1>2, <1>3, SettleTypeCorrect, LogAlways, UnsignedAlways, PTL DEF SettleSpec

(***************************************************************************)
(* The locks of a channel that ends.  What Channel knows of its locks and  *)
(* of the messages about them still holds.                                 *)
(***************************************************************************)

\* A message that is only acknowledged, an AnnounceDisposed that is only kept
\* and a punishment change nothing of it.
LEMMA OffChannelLocks ==
    ASSUME TypeOK, LockInv, QueueInv, NEW n \in Nodes, OffChannel(n)
    PROVE  LockInv' /\ QueueInv'
<1>1. UNCHANGED <<disposed, blk, secretSeen, height, registeredAt, deposit, fate>>
  BY DEF OffChannel, nodeVars, chainVars
<1>2. \A k, m \in Nodes : end'[k][m].tree = end[k][m].tree /\ end'[k][m].onChain = end[k][m].onChain
  BY OffChannelEnds
<1>3. LockInv'
  <2>1. \A l \in Locks : LockReach(l)'
    BY <1>1 DEF LockInv, LockReach
  <2>2. ASSUME NEW k \in Nodes, NEW l \in Locks PROVE LockBooks(k, l)'
    <3>1. LockBooks(k, l) /\ LockSender[l] \in Nodes
      BY LocksAssumption DEF LockInv
    <3> QED BY <1>1, <1>2, <3>1 DEF LockBooks, Timely
  <2> QED BY <1>1, <2>1, <2>2 DEF LockInv
<1>4. \A s \in Nodes : announced'[s] \subseteq announced[s]
  BY DEF OffChannel, TypeOK
<1>5. ASSUME NEW s \in Nodes, NEW x \in EnvelopMessage, Expected(s, x) PROVE Expected(s, x)'
  BY <1>1, <1>5 DEF Expected, Timely
<1>6. ASSUME NEW s \in Nodes
      PROVE  /\ (\A i \in 1..Len(queue[s]) : Expected(s, queue[s][i]))'
             /\ DistinctLocks(queue[s])'
  <2> DEFINE q == queue[s]
             r == queue'[s]
  <2>1. q \in Seq(EnvelopMessage) /\ Len(q) \in Nat
    BY DEF TypeOK
  <2>2. r = q \/ (q # <<>> /\ r = Tail(q))
    BY OtherNode DEF OffChannel, TypeOK
  <2>3. \E d \in {0, 1} : \A i \in 1..Len(r) : i + d \in 1..Len(q) /\ r[i] = q[i + d]
    <3>1. CASE r = q
      BY <2>1, <3>1
    <3>2. CASE q # <<>> /\ r = Tail(q)
      BY <2>1, <3>2, TailElements
    <3> QED BY <2>2, <3>1, <3>2
  <2>4. PICK d \in {0, 1} : \A i \in 1..Len(r) : i + d \in 1..Len(q) /\ r[i] = q[i + d]
    BY <2>3
  <2>5. ASSUME NEW i \in 1..Len(r) PROVE Expected(s, queue[s][i])'
    <3>1. PICK x \in EnvelopMessage : x = r[i] /\ x = q[i + d] /\ i + d \in 1..Len(q)
      BY <2>1, <2>4
    <3>2. Expected(s, x)'
      BY <1>5, <3>1 DEF QueueInv
    <3> QED BY <3>1, <3>2 DEF Expected, Timely
  <2>6. DistinctLocks(r)
    <3>1. \A i, j \in 1..Len(q) :
             i < j /\ q[i].type = "MediatedTransfer" /\ q[j].type = "MediatedTransfer"
                 => q[i].lock # q[j].lock
      BY DEF QueueInv, DistinctLocks
    <3> SUFFICES ASSUME NEW i \in 1..Len(r), NEW j \in 1..Len(r), i < j,
                        r[i].type = "MediatedTransfer", r[j].type = "MediatedTransfer"
                 PROVE  r[i].lock # r[j].lock
      BY DEF DistinctLocks
    <3>2. i + d \in 1..Len(q) /\ j + d \in 1..Len(q) /\ r[i] = q[i + d] /\ r[j] = q[j + d]
      BY <2>4
    <3>3. i + d < j + d
      OBVIOUS
    <3> QED BY <3>1, <3>2, <3>3
  <2> QED BY <2>5, <2>6
<1> QED BY <1>1, <1>3, <1>4, <1>6 DEF QueueInv

\* Both invariants hold in every reachable state.
LEMMA SettleLocksAlways == SettleSpec => [](LockInv /\ QueueInv)
<1>1. SettleInit => LockInv /\ QueueInv
  BY LocksInit DEF SettleInit
<1>2. SettleTypeOK /\ BooksMatchProof /\ LockInv /\ QueueInv /\ [SettleNext]_allVars
         => LockInv' /\ QueueInv'
  <2> SUFFICES ASSUME SettleTypeOK, BooksMatchProof, LockInv, QueueInv, [SettleNext]_allVars
               PROVE  LockInv' /\ QueueInv'
    OBVIOUS
  <2>1. TypeOK
    BY DEF SettleTypeOK
  <2> QED BY <2>1, ChannelSteps, LocksStep, OffChannelLocks
<1> QED BY <1>1, <1>2, SettleTypeCorrect, SettleBooksAlways, PTL DEF SettleSpec

(***************************************************************************)
(* The balance proofs n has signed that its partner holds or will receive, *)
(* and those a node has in its calls.                                      *)
(***************************************************************************)
Signed(n) ==
    {end[n][n].bp, end[Other(n)][n].bp} \cup {queue[n][i].bp : i \in 1..Len(queue[n])}

\* The only proof of n that a step adds is its newest one, which it sends.
LEMMA SignedSteps ==
    ASSUME SettleTypeOK, [SettleNext]_allVars, NEW n \in Nodes
    PROVE  /\ Signed(n)' \subseteq Signed(n) \cup {end'[n][n].bp}
           /\ \/ end'[n][n].bp = end[n][n].bp
              \/ \E msg \in EnvelopMessage : SendStep(n, msg)
<1> DEFINE o == Other(n)
           New == end'[n][n].bp
           Same == end'[n][n].bp = end[n][n].bp
           Sends == \E msg \in EnvelopMessage : SendStep(n, msg)
           Goal == Signed(n)' \subseteq Signed(n) \cup {New} /\ (Same \/ Sends)
<1>0. TypeOK
  BY DEF SettleTypeOK
<1>1. /\ o \in Nodes /\ o # n /\ Other(o) = n /\ \A k \in Nodes : k = n \/ k = o
      /\ queue[n] \in Seq(EnvelopMessage) /\ Len(queue[n]) \in Nat
  BY <1>0, OtherNode, NodesAssumption DEF Nodes, Other, TypeOK
<1>2. Signed(n)' = {end'[n][n].bp, end'[o][n].bp} \cup {queue'[n][i].bp : i \in 1..Len(queue'[n])}
  BY DEF Signed
<1>3. ASSUME end'[o][n].bp = end[o][n].bp \/ (queue[n] # <<>> /\ end'[o][n].bp = Head(queue[n]).bp),
             \/ queue'[n] = queue[n]
             \/ queue[n] # <<>> /\ queue'[n] = Tail(queue[n])
             \/ \E msg \in EnvelopMessage : queue'[n] = Append(queue[n], msg) /\ msg.bp = New
      PROVE  Signed(n)' \subseteq Signed(n) \cup {New}
  <2>1. ASSUME NEW i \in 1..Len(queue'[n])
        PROVE  queue'[n][i].bp \in Signed(n) \cup {New}
    <3>1. CASE queue'[n] = queue[n]
      BY <3>1 DEF Signed
    <3>2. CASE queue[n] # <<>> /\ queue'[n] = Tail(queue[n])
      <4>1. i + 1 \in 1..Len(queue[n]) /\ queue'[n][i] = queue[n][i + 1]
        BY <1>1, <3>2, TailElements
      <4> QED BY <4>1 DEF Signed
    <3>3. ASSUME NEW msg \in EnvelopMessage, queue'[n] = Append(queue[n], msg), msg.bp = New
          PROVE  queue'[n][i].bp \in Signed(n) \cup {New}
      <4>1. CASE i \in 1..Len(queue[n])
        <5>1. queue'[n][i] = queue[n][i]
          BY <1>1, <3>3, <4>1, AppendElements
        <5> QED BY <4>1, <5>1 DEF Signed
      <4>2. CASE i \notin 1..Len(queue[n])
        <5>1. i = Len(queue[n]) + 1
          BY <1>1, <3>3, <4>2, AppendElements
        <5>2. queue'[n][i] = msg
          BY <1>1, <3>3, <5>1, AppendElements
        <5> QED BY <3>3, <5>2
      <4> QED BY <4>1, <4>2
    <3> QED BY <1>3, <3>1, <3>2, <3>3
  <2>2. end'[o][n].bp \in Signed(n)
    <3>1. queue[n] # <<>> => 1 \in 1..Len(queue[n]) /\ Head(queue[n]) = queue[n][1]
      BY <1>1
    <3> QED BY <1>3, <3>1 DEF Signed
  <2> QED BY <1>2, <2>1, <2>2
<1>4. ASSUME NEW k \in Nodes, NEW msg \in EnvelopMessage, SendStep(k, msg) PROVE Goal
  <2>1. /\ end' = [end EXCEPT ![k][k] = RegisterTransfer(end[k][k], msg)]
        /\ queue' = [queue EXCEPT ![k] = Append(queue[k], msg)]
    BY <1>4 DEF SendStep, Send
  <2>2. CASE k = n
    <3>1. end'[o][n] = end[o][n] /\ queue'[n] = Append(queue[n], msg)
          /\ end'[n][n] = RegisterTransfer(end[n][n], msg)
      BY <1>0, <1>1, <2>1, <2>2 DEF TypeOK
    <3>2. end[n][n] \in EndState
      BY <1>0 DEF TypeOK
    <3>3. New = msg.bp
      BY <3>1, <3>2, RegisterTransferType
    <3> QED BY <1>3, <1>4, <2>2, <3>1, <3>3
  <2>3. CASE k = o
    <3>1. end'[o][n] = end[o][n] /\ end'[n][n] = end[n][n] /\ queue'[n] = queue[n]
      BY <1>0, <1>1, <2>1, <2>3 DEF TypeOK
    <3> QED BY <1>3, <3>1
  <2> QED BY <1>1, <2>2, <2>3
<1>5. ASSUME NEW k \in Nodes, NEW type, Receive(k, type) PROVE Goal
  <2> DEFINE j == Other(k)
             msg == Head(queue[j])
  <2>1. /\ end' = [end EXCEPT ![k][j] = RegisterTransfer(end[k][j], msg)]
        /\ queue' = [queue EXCEPT ![j] = Tail(queue[j])] /\ queue[j] # <<>>
    BY <1>5 DEF Receive
  <2>2. j \in Nodes /\ j # k /\ queue[j] \in Seq(EnvelopMessage) /\ end[k][j] \in EndState
    BY <1>0, OtherNode DEF TypeOK
  <2>3. msg \in EnvelopMessage
    BY <2>1, <2>2
  <2>4. RegisterTransfer(end[k][j], msg).bp = msg.bp
    BY <2>2, <2>3, RegisterTransferType
  <2> HIDE DEF msg
  <2>5. end'[n][n] = end[n][n]
    BY <1>0, <2>1, <2>2 DEF TypeOK
  <2>6. CASE k = o
    <3>1. /\ j = n /\ end'[o][n] = RegisterTransfer(end[o][n], msg)
          /\ queue'[n] = Tail(queue[n]) /\ queue[n] # <<>>
      BY <1>0, <1>1, <2>1, <2>6 DEF TypeOK
    <3>2. end'[o][n].bp = Head(queue[n]).bp
      BY <2>4, <2>6, <3>1 DEF msg
    <3> QED BY <1>3, <2>5, <3>1, <3>2
  <2>7. CASE k = n
    <3>1. end'[o][n] = end[o][n] /\ queue'[n] = queue[n]
      BY <1>0, <1>1, <2>1, <2>7 DEF TypeOK
    <3> QED BY <1>3, <2>5, <3>1
  <2> QED BY <1>1, <2>6, <2>7
<1>6. ASSUME UNCHANGED queue, \A k, m \in Nodes : end'[k][m].bp = end[k][m].bp PROVE Goal
  BY <1>1, <1>3, <1>6
<1>7. ASSUME NEW k \in Nodes, OffChannel(k) PROVE Goal
  <2>1. end'[n][n].bp = end[n][n].bp /\ end'[o][n].bp = end[o][n].bp
    BY <1>0, <1>1, <1>7, OffChannelEnds
  <2>2. queue'[n] = queue[n] \/ (queue[n] # <<>> /\ queue'[n] = Tail(queue[n]))
    BY <1>0, <1>7, OtherNode DEF OffChannel, TypeOK
  <2> QED BY <1>3, <2>1, <2>2
<1>8. Goal
  <2> HIDE DEF Goal
  <2> QED BY <1>0, <1>4, <1>5, <1>6, <1>7, ChannelSteps, ProofSteps
<1> QED BY <1>8

(***************************************************************************)
(* Old balance proofs.  A lock of an old proof that has left the newest    *)
(* one was paid for, unless it expired or the partner gave it up.          *)
(***************************************************************************)
Void(n) == {l \in Locks : fate[n][l] = "expired"} \cup disposed[Other(n)]

PaidLocks(n, root) == (root \ end[n][n].bp.locksRoot) \ Void(n)

\* A proof over amount and root asks for nothing that n has not signed since.
Backed(n, amount, root) ==
    amount + SumOver(LockAmount, PaidLocks(n, root)) <= end[n][n].bp.transferAmount

\* An expired lock stays expired, a lock that was given up stays given up.
LEMMA VoidGrows ==
    ASSUME SettleTypeOK, BooksMatchProof, LockInv, QueueInv, [SettleNext]_allVars,
           NEW n \in Nodes
    PROVE  Void(n) \subseteq Void(n)'
<1>0. TypeOK /\ Other(n) \in Nodes
  BY OtherNode DEF SettleTypeOK
<1>1. disposed[Other(n)] \subseteq disposed'[Other(n)]
  BY <1>0, DisposedSteps
<1>2. ASSUME NEW l \in Locks, fate[n][l] = "expired" PROVE fate'[n][l] = "expired"
  <2>1. ASSUME NEW k \in Nodes, NEW m \in Nodes, NEW msg \in EnvelopMessage,
               RegisterStep(k, m, msg)
        PROVE  fate'[n][l] = "expired"
    <3>1. CASE k # n \/ ~ Touches(msg, l)
      BY <1>0, <1>2, <2>1, <3>1, RegisterStepFacts
    <3>2. ASSUME k = n, Touches(msg, l) PROVE FALSE
      <4>1. CASE msg.type = "MediatedTransfer"
        BY <1>2, <2>1, <3>2, <4>1 DEF RegisterStep, Touches
      <4>2. CASE msg.type # "MediatedTransfer"
        <5>1. end[n][m] \in EndState /\ Books(end[n][m])
          BY <1>0 DEF TypeOK, BooksMatchProof
        <5>2. l \in end[n][m].tree
          BY <2>1, <3>2, <4>2, <5>1, RegisteredLock DEF RegisterStep
        <5>3. fate[n][l] = "locked"
          BY <5>2 DEF LockInv, LockBooks
        <5> QED BY <1>2, <5>3
      <4> QED BY <4>1, <4>2
    <3> QED BY <3>1, <3>2
  <2>2. ASSUME NEW k \in Nodes, NEW msg \in EnvelopMessage, SendStep(k, msg)
        PROVE  fate'[n][l] = "expired"
    BY <1>0, <2>1, <2>2, SendRegisters
  <2>3. ASSUME NEW k \in Nodes, NEW type, Receive(k, type)
        PROVE  fate'[n][l] = "expired"
    BY <1>0, <2>1, <2>3, ReceiveRegisters, OtherNode
  <2>4. ASSUME UNCHANGED fate PROVE fate'[n][l] = "expired"
    BY <1>2, <2>4
  <2>5. ASSUME NEW k \in Nodes, OffChannel(k) PROVE fate'[n][l] = "expired"
    BY <2>4, <2>5 DEF OffChannel
  <2>6. ASSUME [Next]_vars PROVE fate'[n][l] = "expired"
    BY <1>0, <2>2, <2>3, <2>4, <2>6, StepKinds
       DEF AnnounceStep, registerSecret, handleSecretRegisteredOnChain,
           handleBlockStateChange, handleBalance, Deposit, NewBlock, vars
  <2> QED BY <2>5, <2>6, ChannelSteps
<1> QED BY <1>1, <1>2 DEF Void

\* A step keeps what an old proof is backed by: only an Unlock message takes a
\* lock out of the newest proof that is not void, and it pays for it.
LEMMA BackedStep ==
    ASSUME SettleTypeOK, BooksMatchProof, LockInv, QueueInv, [SettleNext]_allVars,
           NEW n \in Nodes, NEW amount \in Int, NEW root \in SUBSET Locks,
           Backed(n, amount, root)
    PROVE  Backed(n, amount, root)'
<1> DEFINE bp == end[n][n].bp
           new == end'[n][n].bp
           P == PaidLocks(n, root)
           Q == (root \ new.locksRoot) \ Void(n)'
           sum(S) == SumOver(LockAmount, S)
<1>0. TypeOK /\ Other(n) \in Nodes /\ end[n][n] \in EndState /\ Books(end[n][n])
  BY OtherNode DEF SettleTypeOK, TypeOK, BooksMatchProof
<1>1. /\ bp.transferAmount \in Nat /\ bp.locksRoot \in SUBSET Locks
      /\ bp.locksRoot = end[n][n].tree
  BY <1>0 DEF EndState, BalanceProofState, Books
<1>2. P \in SUBSET Locks /\ Q \in SUBSET Locks /\ sum({}) = 0
      /\ \A S \in SUBSET Locks : sum(S) \in Nat
  BY LockSums DEF PaidLocks
<1>3. amount + sum(P) <= bp.transferAmount
  BY DEF Backed
<1>4. Backed(n, amount, root)' <=> amount + sum(Q) <= new.transferAmount
  BY DEF Backed, PaidLocks
<1>5. Void(n) \subseteq Void(n)'
  BY VoidGrows
<1>6. ASSUME NEW extra \in SUBSET Locks, Q \subseteq P \cup extra, new.transferAmount \in Nat,
             bp.transferAmount + sum(extra) <= new.transferAmount
      PROVE  Backed(n, amount, root)'
  <2>1. sum(Q) <= sum(P) + sum(extra)
    BY <1>2, <1>6, LocksCovered
  <2>2. sum(P) \in Nat /\ sum(Q) \in Nat /\ sum(extra) \in Nat
    BY <1>2
  <2> HIDE DEF sum, P, Q, bp, new
  <2> QED BY <1>1, <1>3, <1>4, <1>6, <2>1, <2>2
<1>7. CASE new = bp
  <2>1. Q \subseteq P \cup {}
    BY <1>5, <1>7 DEF PaidLocks
  <2>2. bp.transferAmount + sum({}) <= new.transferAmount
    BY <1>1, <1>2, <1>7
  <2> HIDE DEF Q, P, bp, new
  <2> QED BY <1>1, <1>6, <1>7, <2>1, <2>2
<1>8. ASSUME NEW msg \in EnvelopMessage, SendStep(n, msg)
      PROVE  Backed(n, amount, root)'
  <2>1. RegisterTransferOK(end[n][n], end[n][Other(n)], msg, blk[n])
    BY <1>8 DEF SendStep, Send
  <2>2. end'[n][n] = RegisterTransfer(end[n][n], msg)
    BY <1>0, <1>8 DEF SendStep, Send, TypeOK
  <2>3. new = msg.bp /\ msg.bp.transferAmount \in Nat
    BY <1>0, <2>2, RegisterTransferType DEF EnvelopMessage, BalanceProofState
  <2>4. bp.transferAmount <= msg.bp.transferAmount
    BY <2>1 DEF RegisterTransferOK, PreCheckReceivedTransfer
  <2>5. CASE msg.type \in {"DirectTransfer", "MediatedTransfer"}
    <3>1. bp.locksRoot \subseteq msg.bp.locksRoot
      BY <1>1, <2>1, <2>5 DEF RegisterTransferOK, RegisterDirectTransferOK,
                              RegisterMediatedTransferOK
    <3>2. Q \subseteq P \cup {}
      BY <1>5, <2>3, <3>1 DEF PaidLocks
    <3>3. bp.transferAmount + sum({}) <= new.transferAmount
      BY <1>1, <1>2, <2>3, <2>4
    <3> HIDE DEF Q, P, bp, new
    <3> QED BY <1>6, <2>3, <3>2, <3>3
  <2>6. CASE msg.type \notin {"DirectTransfer", "MediatedTransfer"}
    <3> DEFINE l == msg.lock
    <3>1. /\ msg.type \in {"UnLock", "RemoveExpired", "AnnounceDisposedResponse"}
          /\ l \in Locks /\ LockAmount[l] \in Nat
      BY <2>6, LocksAssumption DEF EnvelopMessage, LockMessages
    <3>2. new.locksRoot = bp.locksRoot \ {l}
      BY <1>1, <2>1, <2>3, <3>1 DEF RegisterTransferOK, RegisterUnlockOK, RegisterRemoveLockOK
    <3>3. CASE msg.type = "UnLock"
      <4>1. new.transferAmount = bp.transferAmount + LockAmount[l]
        BY <2>1, <2>3, <3>3 DEF RegisterTransferOK, RegisterUnlockOK
      <4>2. sum({l}) = LockAmount[l]
        <5>1. sum({l}) = LockAmount[l] + sum({l} \ {l}) /\ {l} \ {l} = {}
          BY <3>1, LockSums
        <5> QED BY <1>2, <3>1, <5>1
      <4>3. Q \subseteq P \cup {l}
        BY <1>5, <3>2 DEF PaidLocks
      <4> HIDE DEF Q, P, bp, new, l
      <4> QED BY <1>1, <1>6, <2>3, <3>1, <4>1, <4>2, <4>3
    <3>4. CASE msg.type # "UnLock"
      <4>1. l \in Void(n)'
        <5>1. CASE msg.type = "AnnounceDisposedResponse"
          <6>1. l \in disposed[Other(n)] /\ UNCHANGED disposed
            BY <1>0, <1>8, <5>1 DEF SendStep, QueueInv
          <6> QED BY <6>1 DEF Void
        <5>2. CASE msg.type = "RemoveExpired"
          <6>1. RegisterStep(n, n, msg)
            BY <1>0, <1>8, SendRegisters
          <6>2. Touches(msg, l)
            BY <5>2 DEF Touches
          <6>3. fate'[n][l] = "expired"
            BY <1>0, <3>1, <5>2, <6>1, <6>2, RegisterStepFacts
          <6> QED BY <3>1, <6>3 DEF Void
        <5> QED BY <3>1, <3>4, <5>1, <5>2
      <4>2. Q \subseteq P \cup {}
        BY <1>5, <3>2, <4>1 DEF PaidLocks
      <4>3. bp.transferAmount + sum({}) <= new.transferAmount
        BY <1>1, <1>2, <2>3, <2>4
      <4> HIDE DEF Q, P, bp, new, l
      <4> QED BY <1>6, <2>3, <4>2, <4>3
    <3> QED BY <3>3, <3>4
  <2> QED BY <2>5, <2>6
<1> QED BY <1>7, <1>8, SignedSteps

\* The proofs n has signed, and those its partner hands in, are backed.
BackedInv ==
    \A n \in Nodes :
        /\ \A bp \in Signed(n) : Backed(n, bp.transferAmount, bp.locksRoot)
        /\ \A i \in 1..Len(pool[Other(n)]) :
              pool[Other(n)][i].type \in ProofCalls =>
                 LET bp == pool[Other(n)][i].bp
                 IN  Backed(n, bp.transferAmount, bp.locksRoot)

\* The proofs of a node are balance proofs.
LEMMA SignedTypes ==
    ASSUME TypeOK, NEW n \in Nodes
    PROVE  /\ Signed(n) \subseteq BalanceProofState
           /\ end[n][n].bp \in BalanceProofState /\ end[Other(n)][n].bp \in BalanceProofState
<1>1. /\ Other(n) \in Nodes /\ end[n][n] \in EndState /\ end[Other(n)][n] \in EndState
      /\ queue[n] \in Seq(EnvelopMessage)
  BY OtherNode DEF TypeOK
<1>2. \A i \in 1..Len(queue[n]) : queue[n][i] \in EnvelopMessage
  BY <1>1
<1> QED BY <1>1, <1>2 DEF Signed, EndState, EnvelopMessage

\* The newest proof backs itself.
LEMMA NewestBacked ==
    ASSUME TypeOK, NEW n \in Nodes
    PROVE  Backed(n, end[n][n].bp.transferAmount, end[n][n].bp.locksRoot)
<1>1. end[n][n].bp.transferAmount \in Nat
  BY SignedTypes DEF BalanceProofState
<1>2. PaidLocks(n, end[n][n].bp.locksRoot) = {}
  BY DEF PaidLocks
<1> QED BY <1>1, <1>2, LockSums DEF Backed

\* Every step keeps them backed.
LEMMA BackedInvStep ==
    ASSUME SettleTypeOK, SettleTypeOK', LogInv, BooksMatchProof, LockInv, QueueInv, BackedInv,
           [SettleNext]_allVars
    PROVE  BackedInv'
<1> SUFFICES ASSUME NEW n \in Nodes
             PROVE  /\ (\A bp \in Signed(n) : Backed(n, bp.transferAmount, bp.locksRoot))'
                    /\ (\A i \in 1..Len(pool[Other(n)]) :
                          pool[Other(n)][i].type \in ProofCalls =>
                             LET bp == pool[Other(n)][i].bp
                             IN  Backed(n, bp.transferAmount, bp.locksRoot))'
  BY DEF BackedInv
<1> DEFINE o == Other(n)
<1>0. TypeOK /\ TypeOK' /\ o \in Nodes /\ Other(o) = n
  BY OtherNode DEF SettleTypeOK
<1>1. ASSUME NEW bp \in BalanceProofState, Backed(n, bp.transferAmount, bp.locksRoot)
      PROVE  Backed(n, bp.transferAmount, bp.locksRoot)'
  <2>1. bp.transferAmount \in Int /\ bp.locksRoot \in SUBSET Locks
    BY DEF BalanceProofState
  <2> QED BY <1>1, <2>1, BackedStep
<1>2. ASSUME NEW bp \in Signed(n)' PROVE Backed(n, bp.transferAmount, bp.locksRoot)'
  <2>1. CASE bp = end'[n][n].bp
    <3>1. Backed(n, end[n][n].bp.transferAmount, end[n][n].bp.locksRoot)'
      BY <1>0, NewestBacked, PTL
    <3>2. Backed(n, bp.transferAmount, bp.locksRoot)'
             <=> Backed(n, end[n][n].bp.transferAmount, end[n][n].bp.locksRoot)'
      BY <2>1 DEF Backed, PaidLocks, Void
    <3> QED BY <3>1, <3>2
  <2>2. CASE bp \in Signed(n)
    <3>1. bp \in BalanceProofState
      BY <1>0, <2>2, SignedTypes
    <3> QED BY <1>1, <2>2, <3>1 DEF BackedInv
  <2> QED BY <1>2, <2>1, <2>2, SignedSteps
<1>3. ASSUME NEW i \in 1..Len(pool'[o]), pool'[o][i].type \in ProofCalls,
             NEW bp, bp = pool'[o][i].bp
      PROVE  Backed(n, bp.transferAmount, bp.locksRoot)'
  <2>1. PICK x : x = pool'[o][i]
    OBVIOUS
  <2>2. x.type \in ProofCalls /\ x.type # "unlock" /\ bp = x.bp
    BY <1>3, <2>1 DEF ProofCalls
  <2>3. ASSUME NEW j \in 1..Len(pool[o]), Descends(x, pool[o][j])
        PROVE  Backed(n, bp.transferAmount, bp.locksRoot)'
    <3>1. x = pool[o][j]
      BY <2>2, <2>3 DEF Descends
    <3>2. bp \in BalanceProofState
      <4>1. pool[o] \in Seq(Calls)
        BY <1>0 DEF SettleTypeOK
      <4>2. x \in Calls
        BY <3>1, <4>1
      <4> QED BY <2>2, <4>2, CallFields DEF ProofCalls
    <3>3. Backed(n, bp.transferAmount, bp.locksRoot)
      BY <2>2, <3>1 DEF BackedInv
    <3> QED BY <1>1, <3>2, <3>3
  <2>4. ASSUME SendsCall(o, x)
        PROVE  Backed(n, bp.transferAmount, bp.locksRoot)'
    <3>1. bp = end'[o][n].bp
      BY <1>0, <2>2, <2>4 DEF SendsCall, ProofCalls
    <3>2. bp \in Signed(n)'
      BY <3>1 DEF Signed, Other
    <3> QED BY <1>2, <3>2
  <2> QED BY <1>0, <1>3, <2>1, <2>2, <2>3, <2>4, PoolSteps
<1>4. ASSUME NEW i \in 1..Len(pool'[o]), pool'[o][i].type \in ProofCalls
      PROVE  (LET bp == pool[Other(n)][i].bp
              IN  Backed(n, bp.transferAmount, bp.locksRoot))'
  <2>1. PICK bp : bp = pool'[o][i].bp
    OBVIOUS
  <2>2. Backed(n, bp.transferAmount, bp.locksRoot)'
    BY <1>3, <1>4, <2>1
  <2> QED BY <2>1, <2>2 DEF Backed, PaidLocks, Void, Other
<1> QED BY <1>2, <1>4 DEF Other

\* They are backed in every reachable state.
LEMMA BackedAlways == SettleSpec => []BackedInv
<1>1. SettleInit => BackedInv
  <2> SUFFICES ASSUME SettleInit, NEW n \in Nodes
               PROVE  /\ \A bp \in Signed(n) : Backed(n, bp.transferAmount, bp.locksRoot)
                      /\ Len(pool[Other(n)]) = 0
    BY DEF BackedInv
  <2>1. TypeOK /\ Other(n) \in Nodes
    BY SettleTypeInit, OtherNode DEF SettleTypeOK
  <2>2. Len(pool[Other(n)]) = 0 /\ Len(queue[n]) = 0
    BY <2>1 DEF SettleInit, Init
  <2>3. end[Other(n)][n].bp = end[n][n].bp
    BY <2>1 DEF SettleInit, Init
  <2>4. \A bp \in Signed(n) : bp = end[n][n].bp
    BY <2>2, <2>3 DEF Signed
  <2> QED BY <2>1, <2>2, <2>4, NewestBacked
<1>2. SettleTypeOK /\ SettleTypeOK' /\ LogInv /\ BooksMatchProof /\ LockInv /\ QueueInv /\ BackedInv
         /\ [SettleNext]_allVars => BackedInv'
  BY BackedInvStep
<1> QED BY <1>1, <1>2, SettleTypeCorrect, LogAlways, SettleBooksAlways, SettleLocksAlways, PTL
        DEF SettleSpec

(***************************************************************************)
(* Solvency of a channel that ends.  The deposits a node has booked change *)
(* when its partner is punished; from its close on it signs nothing that   *)
(* needs them.                                                             *)
(***************************************************************************)
FundsInv ==
    \A s \in Nodes :
        /\ \A bp \in Signed(s) : Owed(bp) <= Limit(s)
        /\ state[s] \notin Ended => end[s][s].contractBalance <= deposit[s]

\* A node sends a new transfer only while its channel is open.
LEMMA SendsInState ==
    ASSUME SettleTypeOK, [SettleNext]_allVars, NEW n \in Nodes, NEW msg \in EnvelopMessage,
           SendStep(n, msg), msg.type \in {"DirectTransfer", "MediatedTransfer"}
    PROVE  state[n] = "Opened"
<1> SUFFICES ASSUME state[n] # "Opened" PROVE FALSE
  OBVIOUS
<1>0. TypeOK /\ queue[n] \in Seq(EnvelopMessage) /\ Len(queue[n]) \in Nat
  BY DEF SettleTypeOK, TypeOK
<1>1. /\ queue'[n] = Append(queue[n], msg) /\ Len(queue'[n]) = Len(queue[n]) + 1
      /\ queue'[n][Len(queue[n]) + 1] = msg
  <2>1. queue'[n] = Append(queue[n], msg)
    BY <1>0 DEF SendStep, Send, TypeOK
  <2> QED BY <1>0, <2>1, AppendElements
<1>2. ASSUME queue'[n] = queue[n] PROVE FALSE
  BY <1>0, <1>1, <1>2
<1>3. ASSUME NEW k \in Nodes, NEW x \in EnvelopMessage, Send(k, x),
             x.type \notin {"DirectTransfer", "MediatedTransfer"}
      PROVE  FALSE
  <2>1. CASE k # n
    <3>1. queue'[n] = queue[n]
      BY <1>0, <1>3, <2>1 DEF Send, TypeOK
    <3> QED BY <1>2, <3>1
  <2>2. CASE k = n
    <3>1. queue'[n] = Append(queue[n], x)
      BY <1>0, <1>3, <2>2 DEF Send, TypeOK
    <3>2. queue'[n][Len(queue[n]) + 1] = x
      BY <1>0, <3>1, AppendElements
    <3> QED BY <1>1, <1>3, <3>2
  <2> QED BY <2>1, <2>2
<1>4. ASSUME NEW k \in Nodes, queue[k] # <<>>, queue' = [queue EXCEPT ![k] = Tail(queue[k])]
      PROVE  FALSE
  <2>1. CASE k = n
    <3>1. queue'[n] = Tail(queue[n])
      BY <1>0, <1>4, <2>1 DEF TypeOK
    <3>2. Len(queue'[n]) = Len(queue[n]) - 1
      BY <1>0, <1>4, <2>1, <3>1, TailElements
    <3> QED BY <1>0, <1>1, <3>2
  <2>2. CASE k # n
    BY <1>0, <1>2, <1>4, <2>2 DEF TypeOK
  <2> QED BY <2>1, <2>2
<1>5. \A k \in Nodes : end[k][k] \in EndState /\ Other(k) \in Nodes
  BY <1>0, OtherNode DEF TypeOK
<1>6. ASSUME NEW k \in Nodes, SendTransfer(k) PROVE FALSE
  <2>1. ASSUME NEW l \in Locks, eventSendUnlock(k, l) \/ eventUnlockFailed(k, l) PROVE FALSE
    <3>1. PICK x : x \in {CreateUnlock(end[k][k], l), CreateRemoveExpired(end[k][k], l)} /\ Send(k, x)
      BY <2>1 DEF eventSendUnlock, eventUnlockFailed
    <3>2. x \in EnvelopMessage
      BY <1>5, <3>1, CreatedMessages
    <3>3. x.type \in {"UnLock", "RemoveExpired"}
      BY <3>1 DEF CreateUnlock, CreateRemoveExpired
    <3> QED BY <1>3, <3>1, <3>2, <3>3
  <2>2. ASSUME NEW l \in Locks, eventSendAnnouncedDisposed(k, l) PROVE FALSE
    BY <1>2, <2>2 DEF eventSendAnnouncedDisposed
  <2>3. ASSUME CanTransfer(k), NEW x \in EnvelopMessage, Send(k, x) PROVE FALSE
    <3>1. k # n
      BY <2>3 DEF CanTransfer
    <3>2. queue'[n] = queue[n]
      BY <1>0, <2>3, <3>1 DEF Send, TypeOK
    <3> QED BY <1>2, <3>2
  <2>4. ASSUME CanTransfer(k), NEW a \in DirectAmounts, directTransferAsync(k, a) PROVE FALSE
    <3>1. CreateDirectTransfer(end[k][k], a) \in EnvelopMessage
      BY <1>5, CreatedMessages
    <3> QED BY <2>3, <2>4, <3>1 DEF directTransferAsync
  <2>5. ASSUME CanTransfer(k), NEW l \in Locks, eventSendMediatedTransfer(k, l) PROVE FALSE
    <3>1. CreateMediatedTransfer(end[k][k], l) \in EnvelopMessage
      BY <1>5, CreatedMessages
    <3> QED BY <2>3, <2>5, <3>1 DEF eventSendMediatedTransfer
  <2> QED BY <1>6, <2>1, <2>2, <2>4, <2>5 DEF SendTransfer
<1>7. ASSUME NEW k \in Nodes, ReceiveTransfer(k) PROVE FALSE
  <2>1. /\ queue[Other(k)] # <<>>
        /\ queue' = [queue EXCEPT ![Other(k)] = Tail(queue[Other(k)])]
    BY <1>7 DEF ReceiveTransfer, AcknowledgeOnly, messageDirectTransfer, messageMediatedTransfer,
         messageUnlock, messageRemoveExpiredHashlockTransfer,
         messageAnnounceDisposedResponse, Receive
  <2> QED BY <1>4, <1>5, <2>1
<1>8. ASSUME NEW k \in Nodes, NEW l \in Locks, ReceiveAnnounceDisposed(k, l) PROVE FALSE
  <2>1. UNCHANGED queue \/ Send(k, CreateAnnounceDisposedResponse(end[k][k], l))
    BY <1>8 DEF ReceiveAnnounceDisposed, messageAnnounceDisposed
  <2>2. CreateAnnounceDisposedResponse(end[k][k], l) \in EnvelopMessage
    BY <1>5, CreatedMessages
  <2>3. CreateAnnounceDisposedResponse(end[k][k], l).type = "AnnounceDisposedResponse"
    BY DEF CreateAnnounceDisposedResponse
  <2> QED BY <1>2, <1>3, <2>1, <2>2, <2>3
<1>9. ASSUME UNCHANGED queue PROVE FALSE
  BY <1>2, <1>9
<1>10. ASSUME NEW k \in Nodes, NEW l \in Locks, SecretRegistered(k, l) \/ SecretLearned(k, l)
       PROVE  UNCHANGED queue
  BY <1>10 DEF SecretRegistered, SecretLearned, handleSecretRegisteredOnChain, registerSecret
<1>11. ASSUME NEW k \in Nodes,
              \/ FollowBlocks(k) \/ Close(k) \/ Settle(k) \/ handleClosed(k)
              \/ handleBalanceProofOnChain(k) \/ handleUnlockOnChain(k) \/ handleSettled(k)
              \/ handlePunishedOnChain(k) \/ Revert(k) \/ Drop(k)
       PROVE  UNCHANGED queue
  BY <1>11 DEF FollowBlocks, handleBlockStateChange, Close, Settle, handleClosed,
       handleBalanceProofOnChain, handleUnlockOnChain, handleSettled, handlePunishedOnChain,
       Revert, Drop, vars
<1>12. ASSUME NEW k \in Nodes,
              \/ prepareSettle(k) \/ updateBalanceProof(k) \/ punishObsoleteUnlock(k)
              \/ settle(k) \/ \E l \in Locks : unlock(k, l)
       PROVE  UNCHANGED queue
  BY <1>12 DEF prepareSettle, updateBalanceProof, punishObsoleteUnlock, settle, unlock, Mined, vars
<1>13. ASSUME NEW S \in SUBSET Registrable, NewBlock(S) PROVE UNCHANGED queue
  BY <1>13 DEF NewBlock
<1>14. ASSUME UNCHANGED allVars PROVE UNCHANGED queue
  BY <1>14 DEF allVars, vars
<1> QED BY <1>6, <1>7, <1>8, <1>9, <1>10, <1>11, <1>12, <1>13, <1>14 DEF SettleNext

\* The deposit a node has booked for itself stays within its deposit until it
\* hears of a punishment, which is after the close.
LEMMA BookedDeposit ==
    ASSUME SettleTypeOK, LogInv, [SettleNext]_allVars, NEW n \in Nodes, state'[n] \notin Ended
    PROVE  /\ state[n] \notin Ended
           /\ end[n][n].contractBalance <= deposit[n]
                 => end'[n][n].contractBalance <= deposit'[n]
<1>1. state[n] \notin Ended
  BY StateSteps DEF Ended, SettleTypeOK
<1>2. UNCHANGED deposit
  BY ContractSteps
<1>3. TypeOK /\ end[n][n] \in EndState /\ deposit[n] \in Nat
  BY DEF SettleTypeOK, TypeOK
<1>4. ASSUME end'[n][n].contractBalance = end[n][n].contractBalance
      PROVE  end[n][n].contractBalance <= deposit[n] => end'[n][n].contractBalance <= deposit'[n]
  BY <1>2, <1>4
<1>5. ASSUME [Next]_vars
      PROVE  end[n][n].contractBalance <= deposit[n] => end'[n][n].contractBalance <= deposit'[n]
  <2>1. ASSUME NEW k \in Nodes, NEW msg \in EnvelopMessage, SendStep(k, msg)
        PROVE  end'[n][n].contractBalance = end[n][n].contractBalance
    <3>1. end'[n][n] = IF k = n THEN RegisterTransfer(end[n][n], msg) ELSE end[n][n]
      BY <1>3, <2>1 DEF SendStep, Send, TypeOK
    <3> QED BY <1>3, <3>1, RegisterTransferType
  <2>2. ASSUME NEW k \in Nodes, NEW type, Receive(k, type)
        PROVE  end'[n][n].contractBalance = end[n][n].contractBalance
    BY <1>3, <2>2, OtherNode DEF Receive, TypeOK
  <2>3. ASSUME NEW k \in Nodes, NEW l \in Locks,
               registerSecret(k, l) \/ handleSecretRegisteredOnChain(k, l)
        PROVE  end'[n][n].contractBalance = end[n][n].contractBalance
    <3> DEFINE s == LockSender[l]
               e == end[k][s]
    <3>1. s \in Nodes /\ e \in EndState
      BY <1>3, LocksAssumption DEF TypeOK
    <3>2. PICK f : /\ end' = [end EXCEPT ![k][s] = f]
                   /\ \/ f = RegisterSecret(e, l)
                      \/ f = RegisterRevealedSecretHash(e, l, registeredAt[l])
      BY <2>3 DEF registerSecret, handleSecretRegisteredOnChain
    <3>3. f.contractBalance = e.contractBalance
      BY <3>1, <3>2, SecretOperators
    <3> QED BY <1>3, <3>1, <3>2, <3>3 DEF TypeOK
  <2>4. ASSUME NEW k \in Nodes, NEW m \in Nodes, handleBalance(k, m)
        PROVE  \/ end'[n][n].contractBalance = end[n][n].contractBalance
               \/ end'[n][n].contractBalance <= deposit[n]
    <3>1. PICK f : /\ end' = [end EXCEPT ![k][m] = f]
                   /\ f = UpdateContractBalance(end[k][m], end[k][m].contractBalance + 1)
      BY <2>4 DEF handleBalance
    <3>2. end'[n][n] = IF k = n /\ m = n THEN f ELSE end[n][n]
      BY <1>3, <3>1 DEF TypeOK
    <3>3. CASE k = n /\ m = n
      <4>1. f.contractBalance = end[n][n].contractBalance + 1
        BY <1>3, <3>1, <3>3, BalanceOperator
      <4>2. end[n][n].contractBalance < deposit[n] /\ end[n][n].contractBalance \in Nat
        BY <1>3, <2>4, <3>3 DEF handleBalance, EndState
      <4> QED BY <1>3, <3>2, <3>3, <4>1, <4>2
    <3> QED BY <3>2, <3>3
  <2>5. ASSUME UNCHANGED end PROVE end'[n][n].contractBalance = end[n][n].contractBalance
    BY <2>5
  <2> QED BY <1>2, <1>3, <1>4, <1>5, <2>1, <2>2, <2>3, <2>4, <2>5, StepKinds
          DEF AnnounceStep, handleBlockStateChange, Deposit, NewBlock, vars
<1>6. ASSUME NEW k \in Nodes, handlePunishedOnChain(k)
      PROVE  end'[n][n].contractBalance = end[n][n].contractBalance
  <2>1. CASE k # n
    <3> DEFINE b == log[seen[k] + 1].beneficiary
    <3>1. end' = [end EXCEPT
               ![k][b].contractBalance = @ + end[k][Other(b)].contractBalance,
               ![k][Other(b)].contractBalance = 0]
      BY <1>6 DEF handlePunishedOnChain
    <3> HIDE DEF b
    <3>2. end'[n] = end[n]
      BY <1>3, <2>1, <3>1 DEF TypeOK
    <3> QED BY <3>2
  <2>2. ASSUME k = n PROVE FALSE
    <3>1. HandleEvent(n, "ChannelPunished")
      BY <1>6, <2>2 DEF handlePunishedOnChain
    <3>2. /\ seen[n] \in Nat /\ Len(log) \in Nat /\ seen[n] + 1 \in 1..Len(log)
          /\ log[seen[n] + 1].type = "ChannelPunished"
      BY <3>1, HandledEvent
    <3>3. seen[n] # 0
      BY <3>2 DEF LogInv
    <3> QED BY <1>1, <3>2, <3>3 DEF LogInv
  <2> QED BY <2>1, <2>2
<1>8. UNCHANGED end \/ [Next]_vars \/ \E k \in Nodes : handlePunishedOnChain(k)
  <2>1. ASSUME NEW k \in Nodes, SendTransfer(k) PROVE Next
    BY <2>1 DEF SendTransfer, Next
  <2>2. ASSUME NEW k \in Nodes, ReceiveTransfer(k) PROVE Next \/ UNCHANGED end
    BY <2>2 DEF ReceiveTransfer, AcknowledgeOnly, Next, ReceiveAny
  <2>3. ASSUME NEW k \in Nodes, NEW l \in Locks, ReceiveAnnounceDisposed(k, l)
        PROVE  Next \/ UNCHANGED end
    BY <2>3 DEF ReceiveAnnounceDisposed, Next
  <2>4. ASSUME NEW k \in Nodes, NEW l \in Locks, SecretRegistered(k, l) \/ SecretLearned(k, l)
        PROVE  Next
    BY <2>4 DEF SecretRegistered, SecretLearned, Next
  <2>5. ASSUME NEW k \in Nodes, FollowBlocks(k) PROVE Next
    BY <2>5 DEF FollowBlocks, Next
  <2>6. ASSUME NEW S \in SUBSET Registrable, NewBlock(S) PROVE Next
    BY <2>6 DEF Next
  <2>7. ASSUME NEW k \in Nodes,
               \/ Close(k) \/ Settle(k) \/ handleClosed(k) \/ handleBalanceProofOnChain(k)
               \/ handleUnlockOnChain(k) \/ handleSettled(k) \/ Revert(k) \/ Drop(k)
        PROVE  UNCHANGED end
    BY <2>7 DEF Close, Settle, handleClosed, handleBalanceProofOnChain, handleUnlockOnChain,
         handleSettled, Revert, Drop, vars
  <2>8. ASSUME NEW k \in Nodes,
               \/ prepareSettle(k) \/ updateBalanceProof(k) \/ punishObsoleteUnlock(k)
               \/ settle(k) \/ \E l \in Locks : unlock(k, l)
        PROVE  UNCHANGED end
    BY <2>8 DEF prepareSettle, updateBalanceProof, punishObsoleteUnlock, settle, unlock, Mined, vars
  <2>9. ASSUME UNCHANGED allVars PROVE UNCHANGED end
    BY <2>9 DEF allVars, vars
  <2> QED BY <2>1, <2>2, <2>3, <2>4, <2>5, <2>6, <2>7, <2>8, <2>9 DEF SettleNext
<1>9. ASSUME UNCHANGED end PROVE end'[n][n].contractBalance = end[n][n].contractBalance
  BY <1>9
<1> QED BY <1>1, <1>4, <1>5, <1>6, <1>8, <1>9

\* What a node holds of its partner never falls.
LEMMA LimitGrows ==
    ASSUME SettleTypeOK, SettleTypeOK', [SettleNext]_allVars, NEW s \in Nodes
    PROVE  Limit(s) \in Nat /\ Limit(s)' \in Nat /\ Limit(s) <= Limit(s)'
<1> DEFINE o == Other(s)
           ta == end[s][o].bp.transferAmount
           tb == end'[s][o].bp.transferAmount
<1>0. TypeOK /\ TypeOK' /\ o \in Nodes /\ o # s /\ Other(o) = s /\ deposit' = deposit
  BY OtherNode, ContractSteps DEF SettleTypeOK
<1>1. ta \in Nat /\ tb \in Nat /\ deposit[s] \in Nat /\ end[s][o] \in EndState
  <2>1. end[s][o] \in EndState /\ end'[s][o] \in EndState /\ deposit[s] \in Nat
    BY <1>0 DEF TypeOK
  <2> QED BY <2>1 DEF EndState, BalanceProofState
<1>2. ta <= tb
  <2>1. ASSUME NEW k \in Nodes, NEW msg \in EnvelopMessage, SendStep(k, msg) PROVE ta <= tb
    <3>1. end'[s][o] = end[s][o]
      BY <2>1, SendsChangeOwnHalf DEF SendStep
    <3> QED BY <1>1, <3>1
  <2>2. ASSUME NEW k \in Nodes, NEW type, Receive(k, type) PROVE ta <= tb
    <3> DEFINE j == Other(k)
               msg == Head(queue[j])
    <3>1. /\ end' = [end EXCEPT ![k][j] = RegisterTransfer(end[k][j], msg)]
          /\ queue[j] # <<>> /\ RegisterTransferOK(end[k][j], end[k][k], msg, blk[k])
      BY <2>2 DEF Receive, CanReceive
    <3>2. j \in Nodes /\ j # k /\ queue[j] \in Seq(EnvelopMessage) /\ end[k][j] \in EndState
      BY <1>0, OtherNode DEF TypeOK
    <3>3. msg \in EnvelopMessage
      BY <3>1, <3>2
    <3>4. RegisterTransfer(end[k][j], msg).bp = msg.bp
      BY <3>2, <3>3, RegisterTransferType
    <3>5. msg.bp.transferAmount >= end[k][j].bp.transferAmount
      BY <3>1 DEF RegisterTransferOK, PreCheckReceivedTransfer
    <3> HIDE DEF msg
    <3>6. CASE k = s
      BY <1>0, <1>1, <3>1, <3>4, <3>5, <3>6 DEF TypeOK
    <3>7. CASE k # s
      <4>1. end'[s][o] = end[s][o]
        BY <1>0, <3>1, <3>7 DEF TypeOK
      <4> QED BY <1>1, <4>1
    <3> QED BY <3>6, <3>7
  <2>3. ASSUME \A k, m \in Nodes : end'[k][m].bp = end[k][m].bp PROVE ta <= tb
    BY <1>0, <1>1, <2>3
  <2>4. ASSUME NEW k \in Nodes, OffChannel(k) PROVE ta <= tb
    <3>1. end'[s][o].bp = end[s][o].bp
      BY <1>0, <2>4, OffChannelEnds
    <3> QED BY <1>1, <3>1
  <2> HIDE DEF ta, tb
  <2> QED BY <1>0, <2>1, <2>2, <2>3, <2>4, ChannelSteps, ProofSteps
<1>3. Limit(s) = deposit[s] + ta
  BY DEF Limit
<1>4. Limit(s)' = deposit[s] + tb
  BY <1>0 DEF Limit, Other
<1> HIDE DEF ta, tb
<1> QED BY <1>1, <1>2, <1>3, <1>4

\* A proof that is sent is within the limit.
LEMMA SentIsFunded ==
    ASSUME SettleTypeOK, BooksMatchProof, FundsInv, [SettleNext]_allVars,
           NEW n \in Nodes, NEW msg \in EnvelopMessage, SendStep(n, msg)
    PROVE  Owed(msg.bp) <= Limit(n)
<1> DEFINE o == Other(n)
<1>1. /\ end[n][n] \in EndState /\ end[n][o] \in EndState /\ Books(end[n][n])
      /\ deposit[n] \in Nat /\ o \in Nodes
      /\ RegisterTransferOK(end[n][n], end[n][o], msg, blk[n])
      /\ msg.type = "MediatedTransfer" => msg.bp.transferAmount = end[n][n].bp.transferAmount
  BY OtherNode DEF SettleTypeOK, TypeOK, BooksMatchProof, SendStep, Send
<1>2. end[n][o].bp.transferAmount \in Nat /\ end[n][n].contractBalance \in Nat
  BY <1>1 DEF EndState, BalanceProofState
<1>3. Limit(n) = deposit[n] + end[n][o].bp.transferAmount
  BY DEF Limit
<1>4. Limit(n) \in Nat
  BY <1>1, <1>2, <1>3
<1>5. Owed(end[n][n].bp) <= Limit(n)
  BY DEF FundsInv, Signed
<1>6. CASE msg.type \in {"DirectTransfer", "MediatedTransfer"}
  <2>1. state[n] = "Opened"
    BY <1>6, SendsInState
  <2>2. end[n][n].contractBalance <= deposit[n]
    BY <2>1 DEF FundsInv, Ended
  <2>3. end[n][n].contractBalance + end[n][o].bp.transferAmount <= Limit(n)
    BY <1>1, <1>2, <1>3, <2>2
  <2> HIDE DEF o
  <2> QED BY <1>1, <1>4, <1>5, <2>3, AcceptedIsFunded
<1>7. CASE msg.type \notin {"DirectTransfer", "MediatedTransfer"}
  <2> DEFINE e == UpdateContractBalance(end[n][n], 0)
  <2>1. /\ e \in EndState /\ e.contractBalance = 0 /\ e.bp = end[n][n].bp
        /\ e.tree = end[n][n].tree /\ e.pending = end[n][n].pending
        /\ e.unclaimed = end[n][n].unclaimed /\ e.onChain = end[n][n].onChain
    BY <1>1, BalanceOperator
  <2> HIDE DEF e, o
  <2>2. Books(e)
    BY <1>1, <2>1 DEF Books
  <2>3. RegisterTransferOK(e, end[n][o], msg, blk[n])
    BY <1>1, <1>7, <2>1 DEF RegisterTransferOK, PreCheckReceivedTransfer, RegisterUnlockOK,
       RegisterRemoveLockOK, TryRemoveHashLock, IsKnown, IsUnknownSecretLock
  <2>4. 0 + end[n][o].bp.transferAmount <= Limit(n)
    BY <1>1, <1>2, <1>3
  <2> QED BY <1>1, <1>4, <1>5, <1>7, <2>1, <2>2, <2>3, <2>4, AcceptedIsFunded
<1> QED BY <1>6, <1>7

\* The bounds hold in every reachable state.
LEMMA FundsAlways == SettleSpec => []FundsInv
<1>1. SettleInit => FundsInv
  <2> SUFFICES ASSUME SettleInit, NEW s \in Nodes
               PROVE  /\ \A bp \in Signed(s) : Owed(bp) <= Limit(s)
                      /\ end[s][s].contractBalance <= deposit[s]
    BY DEF FundsInv
  <2>1. Other(s) \in Nodes /\ InitDeposit[s] \in Nat
    BY OtherNode, NumbersAssumption
  <2>2. \A n \in Nodes : /\ end[n][s].bp.transferAmount = 0
                         /\ end[n][s].bp.locksRoot = {}
                         /\ end[n][s].contractBalance = InitDeposit[s]
    BY DEF SettleInit, Init, NewChannelEndState
  <2>3. end[s][Other(s)].bp.transferAmount = 0 /\ deposit[s] = InitDeposit[s] /\ Len(queue[s]) = 0
    BY <2>1 DEF SettleInit, Init, NewChannelEndState
  <2>4. \A bp \in Signed(s) : bp.transferAmount = 0 /\ bp.locksRoot = {}
    BY <2>1, <2>2, <2>3 DEF Signed
  <2>5. \A bp \in Signed(s) : Owed(bp) = 0
    <3> TAKE bp \in Signed(s)
    <3>1. Owed(bp) = 0 + SumOver(LockAmount, {})
      BY <2>4 DEF Owed
    <3>2. SumOver(LockAmount, {}) = 0
      BY LockSums
    <3> QED BY <3>1, <3>2
  <2>6. Limit(s) = InitDeposit[s] + 0
    BY <2>3 DEF Limit
  <2> QED BY <2>1, <2>2, <2>3, <2>5, <2>6
<1>2. SettleTypeOK /\ SettleTypeOK' /\ LogInv /\ BooksMatchProof /\ FundsInv /\ [SettleNext]_allVars
         => FundsInv'
  <2> SUFFICES ASSUME SettleTypeOK, SettleTypeOK', LogInv, BooksMatchProof, FundsInv,
                      [SettleNext]_allVars, NEW s \in Nodes
               PROVE  /\ \A bp \in Signed(s)' : Owed(bp) <= Limit(s)'
                      /\ state'[s] \notin Ended => end'[s][s].contractBalance <= deposit'[s]
    BY DEF FundsInv, Owed
  <2>1. TypeOK /\ TypeOK'
    BY DEF SettleTypeOK
  <2>2. Limit(s) \in Nat /\ Limit(s)' \in Nat /\ Limit(s) <= Limit(s)'
    BY LimitGrows
  <2>3. ASSUME NEW bp \in BalanceProofState, Owed(bp) <= Limit(s) PROVE Owed(bp) <= Limit(s)'
    <3>1. Owed(bp) \in Nat
      BY OwedType
    <3> QED BY <2>2, <2>3, <3>1
  <2>4. ASSUME NEW bp \in Signed(s) PROVE bp \in BalanceProofState /\ Owed(bp) <= Limit(s)
    BY <2>1, SignedTypes DEF FundsInv
  <2>5. ASSUME NEW msg \in EnvelopMessage, SendStep(s, msg), NEW bp, bp = end'[s][s].bp
        PROVE  bp \in BalanceProofState /\ Owed(bp) <= Limit(s)
    <3>1. end'[s][s] = RegisterTransfer(end[s][s], msg) /\ end[s][s] \in EndState
      BY <2>1, <2>5 DEF SendStep, Send, TypeOK
    <3>2. bp = msg.bp /\ msg.bp \in BalanceProofState
      BY <2>5, <3>1, RegisterTransferType DEF EnvelopMessage
    <3> QED BY <2>5, <3>2, SentIsFunded
  <2>6. end[s][s].bp \in Signed(s)
    BY DEF Signed
  <2>7. ASSUME NEW bp \in Signed(s)' PROVE Owed(bp) <= Limit(s)'
    <3>1. bp \in Signed(s) \/ \E msg \in EnvelopMessage : SendStep(s, msg) /\ bp = end'[s][s].bp
      BY <2>6, <2>7, SignedSteps
    <3> QED BY <2>3, <2>4, <2>5, <3>1
  <2>8. ASSUME state'[s] \notin Ended PROVE end'[s][s].contractBalance <= deposit'[s]
    BY <2>8, BookedDeposit DEF FundsInv
  <2> QED BY <2>7, <2>8
<1> QED BY <1>1, <1>2, SettleTypeCorrect, LogAlways, SettleBooksAlways, PTL DEF SettleSpec

(***************************************************************************)
(* The proofs on the contract.  An unlock adds to the amount of a proof    *)
(* what one of the proof's locks is worth, once per lock and proof.        *)
(***************************************************************************)
UnlocksOf(n) == {l \in Locks : <<contract.proof[n].nonce, l>> \in contract.unlocked[n]}

\* The amount of n's proof before the unlocks
SignedAmount(n) == contract.proof[n].amount - SumOver(LockAmount, UnlocksOf(n))

UnlocksInv ==
    \A n \in Nodes :
        /\ contract.state = "open" => contract.unlocked[n] = {}
        /\ n \notin Punished =>
              /\ \A p \in contract.unlocked[n] : p[1] <= contract.proof[n].nonce /\ Timely(p[2])
              /\ UnlocksOf(n) \subseteq contract.proof[n].root
              /\ Backed(n, SignedAmount(n), contract.proof[n].root)

\* A secret that was registered in time stays registered in time.
LEMMA TimelyStays ==
    ASSUME SettleTypeOK, [SettleNext]_allVars, NEW l \in Locks, Timely(l)
    PROVE  Timely(l)'
<1>0. TypeOK /\ Expiration[l] \in Nat /\ registeredAt[l] \in Nat /\ registeredAt[l] # 0
  BY LocksAssumption DEF SettleTypeOK, TypeOK, Timely
<1>1. ASSUME UNCHANGED registeredAt PROVE Timely(l)'
  BY <1>1 DEF Timely
<1>2. ASSUME NEW S \in SUBSET Registrable, NewBlock(S) PROVE Timely(l)'
  <2>1. l \notin S
    BY <1>0, <1>2 DEF NewBlock
  <2>2. registeredAt'[l] = registeredAt[l]
    BY <1>2, <2>1 DEF NewBlock
  <2> QED BY <2>2 DEF Timely
<1>3. ASSUME [Next]_vars PROVE Timely(l)'
  BY <1>0, <1>1, <1>2, <1>3, StepKinds
     DEF SendStep, Receive, AnnounceStep, registerSecret, handleSecretRegisteredOnChain,
         handleBlockStateChange, handleBalance, Deposit, chainVars, vars
<1>4. ASSUME NEW k \in Nodes, OffChannel(k) PROVE Timely(l)'
  BY <1>1, <1>4 DEF OffChannel, chainVars
<1> QED BY <1>3, <1>4, ChannelSteps

\* How a step changes what the contract has of n.
LEMMA ProofAndUnlocks ==
    ASSUME SettleTypeOK, [SettleNext]_allVars, NEW n \in Nodes, n \notin Punished'
    PROVE  LET o == Other(n)
               p == contract.proof[n]
               q == contract'.proof[n]
           IN  \/ q = p /\ contract'.unlocked[n] = contract.unlocked[n]
               \/ \E i \in 1..Len(pool[o]) :
                     /\ pool[o][i].type \in ProofCalls /\ q = ProofOf(pool[o][i].bp)
                     /\ contract.state = "open" \/ pool[o][i].bp.nonce > p.nonce
                     /\ contract'.unlocked[n] = contract.unlocked[n]
               \/ \E l \in Locks : unlock(o, l)
<1> DEFINE o == Other(n)
           p == contract.proof[n]
           q == contract'.proof[n]
           Same == q = p /\ contract'.unlocked[n] = contract.unlocked[n]
           Handed == \E i \in 1..Len(pool[o]) :
                        /\ pool[o][i].type \in ProofCalls /\ q = ProofOf(pool[o][i].bp)
                        /\ contract.state = "open" \/ pool[o][i].bp.nonce > p.nonce
                        /\ contract'.unlocked[n] = contract.unlocked[n]
           Unl == \E l \in Locks : unlock(o, l)
<1>0. o \in Nodes /\ o # n /\ Other(o) = n /\ \A k \in Nodes : k = n \/ k = o
  BY OtherNode, NodesAssumption DEF Nodes, Other
<1>1. CASE UNCHANGED <<contract, log, payout>>
  BY <1>1
<1>2. ASSUME NEW k \in Nodes, prepareSettle(k) PROVE Same \/ Handed
  <2>1. CASE k = n
    <3>1. q = p /\ contract'.unlocked = contract.unlocked
      BY <1>2, <2>1, PrepareSettled
    <3> QED BY <3>1
  <2>2. CASE k = o
    <3> DEFINE bp == Head(pool[o]).bp
    <3>1. /\ contract.state = "open" /\ contract'.unlocked = contract.unlocked
          /\ q = IF bp.nonce > 0
                 THEN [amount |-> bp.transferAmount, root |-> bp.locksRoot, nonce |-> bp.nonce]
                 ELSE p
      BY <1>0, <1>2, <2>2, PrepareSettled
    <3>2. Head(pool[o]) = pool[o][1] /\ 1 \in 1..Len(pool[o]) /\ Head(pool[o]).type = "prepareSettle"
      <4>1. Mined(o, "prepareSettle")
        BY <1>2, <2>2 DEF prepareSettle
      <4> QED BY <1>0, <4>1, MinedCall
    <3> QED BY <3>1, <3>2 DEF ProofOf, ProofCalls
  <2> QED BY <1>0, <2>1, <2>2
<1>3. ASSUME NEW k \in Nodes, updateBalanceProof(k) PROVE Same \/ Handed
  <2>1. CASE k = n
    <3>1. q = p /\ contract'.unlocked = contract.unlocked
      BY <1>3, <2>1, BalanceProofUpdated
    <3> QED BY <3>1
  <2>2. CASE k = o
    <3> DEFINE bp == Head(pool[o]).bp
    <3>1. /\ bp.nonce > p.nonce /\ contract'.unlocked = contract.unlocked
          /\ q = [amount |-> bp.transferAmount, root |-> bp.locksRoot, nonce |-> bp.nonce]
      BY <1>0, <1>3, <2>2, BalanceProofUpdated
    <3>2. /\ Head(pool[o]) = pool[o][1] /\ 1 \in 1..Len(pool[o])
          /\ Head(pool[o]).type = "updateBalanceProof"
      <4>1. Mined(o, "updateBalanceProof")
        BY <1>3, <2>2 DEF updateBalanceProof
      <4> QED BY <1>0, <4>1, MinedCall
    <3> QED BY <3>1, <3>2 DEF ProofOf, ProofCalls
  <2> QED BY <1>0, <2>1, <2>2
<1>4. ASSUME NEW k \in Nodes, punishObsoleteUnlock(k) PROVE Same
  <2>1. k = o
    BY <1>0, <1>4, PunishedNow
  <2> QED BY <1>0, <1>4, <2>1, ObsoleteUnlockPunished
<1>5. ASSUME NEW k \in Nodes, settle(k) PROVE Same
  <2>1. contract'.proof = contract.proof /\ contract'.unlocked = contract.unlocked
    BY <1>5, SettledOnce
  <2> QED BY <2>1
<1>6. ASSUME NEW k \in Nodes, NEW l \in Locks, unlock(k, l) PROVE Same \/ Unl
  <2>1. CASE k = n
    BY <1>6, <2>1, Unlocked
  <2>2. CASE k = o
    BY <1>6, <2>2
  <2> QED BY <1>0, <2>1, <2>2
<1>7. Same \/ Handed \/ Unl
  <2> HIDE DEF Same, Handed, Unl
  <2> QED BY <1>1, <1>2, <1>3, <1>4, <1>5, <1>6, ContractSteps DEF Same
<1> QED BY <1>7

\* Whatever is mined or signed, the contract counts no more than n has agreed
\* to pay, the locks its partner has unlocked aside.
LEMMA UnlocksStep ==
    ASSUME SettleTypeOK, SettleTypeOK', BooksMatchProof, LockInv, QueueInv, BackedInv,
           UnlocksInv, [SettleNext]_allVars
    PROVE  UnlocksInv'
<1> SUFFICES ASSUME NEW n \in Nodes
             PROVE  /\ contract'.state = "open" => contract'.unlocked[n] = {}
                    /\ n \notin Punished' =>
                          /\ \A p \in contract'.unlocked[n] :
                                p[1] <= contract'.proof[n].nonce /\ Timely(p[2])'
                          /\ UnlocksOf(n)' \subseteq contract'.proof[n].root
                          /\ Backed(n, SignedAmount(n), contract.proof[n].root)'
  BY DEF UnlocksInv, Timely
<1> DEFINE o == Other(n)
           p == contract.proof[n]
           q == contract'.proof[n]
           U == UnlocksOf(n)
           V == UnlocksOf(n)'
           sum(S) == SumOver(LockAmount, S)
<1>0. o \in Nodes /\ o # n /\ Other(o) = n
  BY OtherNode
<1>1. contract'.state = "open" => contract'.unlocked[n] = {}
  <2>1. contract'.state = "open" => UNCHANGED contract
    BY LogSteps
  <2> QED BY <2>1 DEF UnlocksInv
<1>2. /\ p.amount \in Nat /\ p.root \in SUBSET Locks /\ p.nonce \in Nat
      /\ contract.unlocked[n] \in SUBSET (Nat \X Locks)
      /\ q.amount \in Nat /\ q.root \in SUBSET Locks /\ q.nonce \in Nat
  <2>1. contract.proof[n] \in ContractProof /\ contract'.proof[n] \in ContractProof
        /\ contract.unlocked[n] \in SUBSET (Nat \X Locks)
    BY DEF SettleTypeOK, ChannelRecord
  <2> QED BY <2>1 DEF ContractProof
<1>3. /\ U \in SUBSET Locks /\ V \in SUBSET Locks /\ sum({}) = 0
      /\ \A S \in SUBSET Locks : sum(S) \in Nat
  BY LockSums DEF UnlocksOf
<1>4. V = {l \in Locks : <<q.nonce, l>> \in contract'.unlocked[n]}
  BY DEF UnlocksOf
<1>5. Backed(n, SignedAmount(n), contract.proof[n].root)'
         <=> \A x, r : x = q.amount - sum(V) /\ r = q.root => Backed(n, x, r)'
  BY DEF SignedAmount, Backed, PaidLocks, Void
<1>6. ASSUME NEW x \in Int, NEW r \in SUBSET Locks, Backed(n, x, r) PROVE Backed(n, x, r)'
  BY <1>6, BackedStep
<1>7. ASSUME n \notin Punished'
      PROVE  /\ \A e \in contract'.unlocked[n] : e[1] <= q.nonce /\ Timely(e[2])'
             /\ V \subseteq q.root
             /\ Backed(n, SignedAmount(n), contract.proof[n].root)'
  <2>1. n \notin Punished
    BY <1>7, PunishedSteps
  <2>2. /\ \A e \in contract.unlocked[n] : e[1] <= p.nonce /\ Timely(e[2])
        /\ U \subseteq p.root /\ Backed(n, p.amount - sum(U), p.root)
    BY <2>1 DEF UnlocksInv, SignedAmount
  <2>3. ASSUME NEW e \in contract.unlocked[n] PROVE Timely(e[2])' /\ e[1] \in Nat /\ e[1] <= p.nonce
    <3>1. e[2] \in Locks /\ e[1] \in Nat /\ Timely(e[2]) /\ e[1] <= p.nonce
      BY <1>2, <2>2
    <3>2. ASSUME NEW l \in Locks, Timely(l), e[2] = l PROVE Timely(e[2])'
      BY <3>2, TimelyStays DEF Timely
    <3> QED BY <3>1, <3>2
  <2>4. CASE q = p /\ contract'.unlocked[n] = contract.unlocked[n]
    <3>1. V = U
      BY <1>4, <2>4 DEF UnlocksOf
    <3>2. ASSUME NEW x, NEW r, x = q.amount - sum(V), r = q.root PROVE Backed(n, x, r)'
      <4>1. x \in Int /\ r \in SUBSET Locks
        <5> HIDE DEF sum
        <5> QED BY <1>2, <1>3, <3>2
      <4>2. Backed(n, x, r)
        BY <2>2, <2>4, <3>1, <3>2
      <4> QED BY <1>6, <4>1, <4>2
    <3> QED BY <1>5, <2>2, <2>3, <2>4, <3>1, <3>2
  <2>5. ASSUME NEW i \in 1..Len(pool[o]), pool[o][i].type \in ProofCalls, q = ProofOf(pool[o][i].bp),
               contract.state = "open" \/ pool[o][i].bp.nonce > p.nonce,
               contract'.unlocked[n] = contract.unlocked[n]
        PROVE  /\ \A e \in contract'.unlocked[n] : e[1] <= q.nonce /\ Timely(e[2])'
               /\ V \subseteq q.root
               /\ Backed(n, SignedAmount(n), contract.proof[n].root)'
    <3>1. PICK bp : bp = pool[o][i].bp
      OBVIOUS
    <3>2. q.amount = bp.transferAmount /\ q.root = bp.locksRoot /\ q.nonce = bp.nonce
      BY <2>5, <3>1 DEF ProofOf
    <3>3. Backed(n, bp.transferAmount, bp.locksRoot)
      BY <2>5, <3>1 DEF BackedInv
    <3>4. contract.state = "open" => contract.unlocked[n] = {}
      BY DEF UnlocksInv
    <3>5. \A e \in contract.unlocked[n] : e[1] \in Nat /\ e[1] < q.nonce
      BY <1>2, <2>3, <2>5, <3>1, <3>2, <3>4
    <3>6. V = {}
      <4> SUFFICES ASSUME NEW l \in Locks, <<q.nonce, l>> \in contract.unlocked[n] PROVE FALSE
        BY <1>4, <2>5
      <4>1. <<q.nonce, l>>[1] = q.nonce
        OBVIOUS
      <4>2. q.nonce < q.nonce
        BY <3>5, <4>1
      <4> QED BY <1>2, <4>2
    <3>7. ASSUME NEW x, NEW r, x = q.amount - sum(V), r = q.root PROVE Backed(n, x, r)'
      <4>1. x = bp.transferAmount /\ r = bp.locksRoot
        BY <1>2, <1>3, <3>2, <3>6, <3>7
      <4>2. x \in Int /\ r \in SUBSET Locks
        BY <1>2, <3>2, <4>1
      <4>3. Backed(n, x, r)
        BY <3>3, <4>1
      <4> QED BY <1>6, <4>2, <4>3
    <3>8. \A e \in contract'.unlocked[n] : e[1] <= q.nonce /\ Timely(e[2])'
      BY <1>2, <2>3, <2>5, <3>5
    <3> QED BY <1>5, <3>6, <3>7, <3>8
  <2>6. ASSUME NEW l \in Locks, unlock(o, l)
        PROVE  /\ \A e \in contract'.unlocked[n] : e[1] <= q.nonce /\ Timely(e[2])'
               /\ V \subseteq q.root
               /\ Backed(n, SignedAmount(n), contract.proof[n].root)'
    <3>1. /\ l \in p.root
          /\ contract'.unlocked[n] = contract.unlocked[n] \cup {<<p.nonce, l>>}
          /\ q = [amount |-> p.amount + LockAmount[l], root |-> p.root, nonce |-> p.nonce]
      <4>1. PICK k \in Nodes : k = o
        BY <1>0
      <4>2. unlock(k, l) /\ Other(k) = n
        BY <1>0, <2>6, <4>1
      <4>3. /\ l \in contract.proof[Other(k)].root
            /\ contract'.unlocked[Other(k)] =
                  contract.unlocked[Other(k)] \cup {<<contract.proof[Other(k)].nonce, l>>}
            /\ contract'.proof[Other(k)] =
                  [amount |-> contract.proof[Other(k)].amount + LockAmount[l],
                   root |-> contract.proof[Other(k)].root,
                   nonce |-> contract.proof[Other(k)].nonce]
        BY <4>2, Unlocked
      <4> QED BY <4>2, <4>3
    <3>2. Timely(l) /\ <<p.nonce, l>> \notin contract.unlocked[n]
      BY <1>0, <2>6 DEF unlock, unlockOK, Timely
    <3>3. Timely(l)'
      BY <3>2, TimelyStays
    <3>4. q.amount = p.amount + LockAmount[l] /\ q.root = p.root /\ q.nonce = p.nonce
      BY <3>1
    <3>5. V = U \cup {l} /\ l \notin U
      BY <1>4, <3>1, <3>2, <3>4 DEF UnlocksOf
    <3>6. sum(V) = LockAmount[l] + sum(U) /\ LockAmount[l] \in Nat
      <4>1. V \ {l} = U /\ l \in V
        BY <3>5
      <4>2. sum(V) = LockAmount[l] + sum(V \ {l})
        BY <1>3, <4>1, LockSums
      <4> QED BY <4>1, <4>2, LocksAssumption
    <3>7. ASSUME NEW x, NEW r, x = q.amount - sum(V), r = q.root PROVE Backed(n, x, r)'
      <4>1. sum(U) \in Nat
        BY <1>3
      <4>2. x = p.amount - sum(U) /\ x \in Int /\ r = p.root /\ r \in SUBSET Locks
        <5> HIDE DEF sum, U, V, p, q
        <5> QED BY <1>2, <3>4, <3>6, <3>7, <4>1
      <4>3. Backed(n, x, r)
        BY <2>2, <4>2
      <4> QED BY <1>6, <4>2, <4>3
    <3>8. \A e \in contract'.unlocked[n] : e[1] <= q.nonce /\ Timely(e[2])'
      <4> TAKE e \in contract'.unlocked[n]
      <4>1. CASE e \in contract.unlocked[n]
        BY <2>3, <3>4, <4>1
      <4>2. CASE e = <<p.nonce, l>>
        <5>1. e[1] = p.nonce /\ e[2] = l
          BY <4>2
        <5> QED BY <1>2, <3>3, <3>4, <5>1 DEF Timely
      <4> QED BY <3>1, <4>1, <4>2
    <3> QED BY <1>5, <2>2, <3>1, <3>4, <3>5, <3>7, <3>8
  <2> HIDE DEF p, q, U, V
  <2> QED BY <1>7, <2>4, <2>5, <2>6, ProofAndUnlocks DEF p, q
<1> QED BY <1>1, <1>7

\* This holds in every reachable state.
LEMMA UnlocksAlways == SettleSpec => []UnlocksInv
<1>1. SettleInit => UnlocksInv
  <2> SUFFICES ASSUME SettleInit, NEW n \in Nodes
               PROVE  /\ contract.unlocked[n] = {} /\ UnlocksOf(n) = {}
                      /\ Backed(n, SignedAmount(n), contract.proof[n].root)
    BY DEF UnlocksInv
  <2>1. TypeOK
    BY SettleTypeInit DEF SettleTypeOK
  <2>2. contract.unlocked[n] = {} /\ contract.proof[n].amount = 0 /\ contract.proof[n].root = {}
    BY DEF SettleInit, NoProof
  <2>3. UnlocksOf(n) = {}
    BY <2>2 DEF UnlocksOf
  <2>4. end[n][n].bp.transferAmount = 0 /\ end[n][n].bp.locksRoot = {}
    BY DEF SettleInit, Init, NewChannelEndState
  <2>5. SumOver(LockAmount, {}) = 0
    BY LockSums
  <2>6. SignedAmount(n) = 0
    BY <2>2, <2>3, <2>5 DEF SignedAmount
  <2> QED BY <2>1, <2>2, <2>3, <2>4, <2>6, NewestBacked
<1>2. SettleTypeOK /\ SettleTypeOK' /\ BooksMatchProof /\ LockInv /\ QueueInv /\ BackedInv /\ UnlocksInv
         /\ [SettleNext]_allVars => UnlocksInv'
  BY UnlocksStep
<1> QED BY <1>1, <1>2, SettleTypeCorrect, SettleBooksAlways, SettleLocksAlways, BackedAlways, PTL
        DEF SettleSpec

(***************************************************************************)
(* What settle pays.                                                       *)
(***************************************************************************)
ShareInv ==
    /\ contract.state # "open" /\ Punished = {} => contract.share = deposit
    /\ contract.state = "gone" => payout = SettleAmounts

\* Without a punishment the shares are the deposits.
LEMMA ShareAlways == SettleSpec => []ShareInv
<1>1. SettleInit => ShareInv
  BY DEF SettleInit, ShareInv
<1>2. SettleTypeOK /\ ShareInv /\ [SettleNext]_allVars => ShareInv'
  <2> SUFFICES ASSUME SettleTypeOK, ShareInv, [SettleNext]_allVars PROVE ShareInv'
    OBVIOUS
  <2>1. deposit' = deposit /\ (Punished' = {} => Punished = {})
    BY ContractSteps, PunishedSteps
  <2>2. CASE UNCHANGED <<contract, log, payout>>
    <3>1. SettleAmounts' = SettleAmounts
      BY <2>2 DEF SettleAmounts
    <3> QED BY <2>1, <2>2, <3>1 DEF ShareInv
  <2>3. ASSUME NEW k \in Nodes, prepareSettle(k) PROVE ShareInv'
    <3>1. contract'.state = "closed" /\ contract'.share = deposit
      BY <2>3, PrepareSettled
    <3> QED BY <2>1, <3>1 DEF ShareInv
  <2>4. ASSUME NEW k \in Nodes, updateBalanceProof(k) PROVE ShareInv'
    <3>1. /\ contract.state = "closed" /\ contract'.state = "closed"
          /\ contract'.share = contract.share
      BY <2>4, BalanceProofUpdated
    <3> QED BY <2>1, <3>1 DEF ShareInv
  <2>5. ASSUME NEW k \in Nodes, punishObsoleteUnlock(k) PROVE ShareInv'
    <3>1. contract'.state = "closed" /\ k \in Punished'
      BY <2>5, ObsoleteUnlockPunished, PunishedNow
    <3> QED BY <3>1 DEF ShareInv
  <2>6. ASSUME NEW k \in Nodes, settle(k) PROVE ShareInv'
    <3>1. /\ contract.state = "closed" /\ contract'.state = "gone"
          /\ contract'.share = contract.share /\ contract'.proof = contract.proof
          /\ payout' = SettleAmounts
      BY <2>6, SettledOnce
    <3>2. SettleAmounts' = SettleAmounts
      BY <3>1 DEF SettleAmounts
    <3> QED BY <2>1, <3>1, <3>2 DEF ShareInv
  <2>7. ASSUME NEW k \in Nodes, NEW l \in Locks, unlock(k, l) PROVE ShareInv'
    <3>1. /\ contract.state = "closed" /\ contract'.state = "closed"
          /\ contract'.share = contract.share
      BY <2>7, Unlocked
    <3> QED BY <2>1, <3>1 DEF ShareInv
  <2> QED BY <2>2, <2>3, <2>4, <2>5, <2>6, <2>7, ContractSteps
<1> QED BY <1>1, <1>2, SettleTypeCorrect, PTL DEF SettleSpec

\* n's proof on the contract asks for no more than n has transferred and
\* locked, although it may be an old one with locks that are gone since: those
\* that were unlocked on chain and are neither locked nor paid for would be
\* expired, and were registered in time, or given up by the partner, which
\* then has cheated.
LEMMA ContractAsksLess ==
    ASSUME SettleTypeOK, LockInv, UnlocksInv, NEW n \in Nodes, n \notin Punished,
           ~ CheatedBy(Other(n))
    PROVE  contract.proof[n].amount <= Owed(end[n][n].bp)
<1> DEFINE o == Other(n)
           p == contract.proof[n]
           U == UnlocksOf(n)
           P == PaidLocks(n, p.root)
           R == end[n][n].bp.locksRoot
           T == end[n][n].bp.transferAmount
           sum(S) == SumOver(LockAmount, S)
<1>1. o \in Nodes /\ Other(o) = n /\ TypeOK
  BY OtherNode DEF SettleTypeOK
<1>2. /\ p.amount \in Nat /\ p.root \in SUBSET Locks
      /\ T \in Nat /\ R \in SUBSET Locks
  BY <1>1, SignedTypes, RecordFields DEF BalanceProofState
<1>3. /\ \A e \in contract.unlocked[n] : Timely(e[2])
      /\ U \subseteq p.root /\ p.amount - sum(U) + sum(P) <= T
  BY DEF UnlocksInv, Backed, SignedAmount
<1>4. U \subseteq P \cup R
  <2> SUFFICES ASSUME NEW l \in U, l \notin R PROVE l \in P
    OBVIOUS
  <2>1. l \in Locks /\ <<p.nonce, l>> \in contract.unlocked[n]
    BY DEF UnlocksOf
  <2>2. Timely(l)
    <3>1. <<p.nonce, l>>[2] = l
      OBVIOUS
    <3> QED BY <1>3, <2>1, <3>1
  <2>3. fate[n][l] # "expired"
    BY <2>1, <2>2 DEF LockInv, LockBooks
  <2>4. l \notin disposed[o]
    BY <1>1, <2>1 DEF CheatedBy
  <2> QED BY <1>3, <2>1, <2>3, <2>4 DEF PaidLocks, Void
<1>5. U \in SUBSET Locks /\ P \in SUBSET Locks
  BY <1>2 DEF UnlocksOf, PaidLocks
<1>6. sum(U) <= sum(P) + sum(R)
  BY <1>2, <1>4, <1>5, LocksCovered
<1>7. sum(U) \in Nat /\ sum(P) \in Nat /\ sum(R) \in Nat
  BY <1>2, <1>5, LockSums
<1>8. Owed(end[n][n].bp) = T + sum(R)
  BY DEF Owed
<1> HIDE DEF p, U, P, R, T, sum
<1> QED BY <1>2, <1>3, <1>6, <1>7, <1>8 DEF p

\* Settlement pays a node that got its proof in at least what its own books
\* say at worst, for every set of locks, deposits and amounts: whichever of its
\* proofs the partner hands in, and whatever is unlocked or punished before the
\* channel is settled.  The partner may cheat; if it does and is not punished,
\* or if n cheats itself, nothing is promised.
THEOREM PaidTheorem == SettleSpec /\ []NoncesFit => []PaidAsAgreed
<1>1. SettleTypeOK /\ BooksMatchProof /\ LockInv /\ BackedInv /\ FundsInv /\ UnlocksInv /\ ShareInv
         /\ MoneyInv /\ UnsignedInv /\ HonestNeverPunished /\ RegisteredIsSubmitted /\ PunishInv
         => PaidAsAgreed
  <2> SUFFICES ASSUME SettleTypeOK, BooksMatchProof, LockInv, BackedInv, FundsInv, UnlocksInv,
                      ShareInv, MoneyInv, UnsignedInv, HonestNeverPunished,
                      RegisteredIsSubmitted, PunishInv,
                      NEW n \in Nodes, contract.state = "gone", n \notin cheated,
                      contract.proof[Other(n)].nonce > 0 \/ end[n][Other(n)].bp.nonce = 0,
                      ~ CheatedBy(Other(n))
               PROVE  payout[n] >= deposit[n] + end[n][Other(n)].bp.transferAmount
                                     - end[n][n].bp.transferAmount - AmountLocked(end[n][n])
    BY DEF PaidAsAgreed
  <2> DEFINE o == Other(n)
             D == deposit[n]
             E == deposit[o]
             H == end[n][o].bp.transferAmount
             T == end[n][n].bp.transferAmount
             S == end[o][n].bp.transferAmount
             K == AmountLocked(end[n][n])
             x == D + H - T - K
             pn == contract.proof[n].amount
             po == contract.proof[o].amount
  <2>1. TypeOK /\ o \in Nodes /\ o # n /\ Other(o) = n
        /\ ((n = A /\ o = B) \/ (n = B /\ o = A))
    BY OtherNode, NodesAssumption DEF SettleTypeOK, Nodes, Other
  <2>2. /\ D \in Nat /\ E \in Nat /\ H \in Nat /\ T \in Nat /\ S \in Nat
        /\ pn \in Nat /\ po \in Nat /\ payout[n] \in Nat /\ payout[o] \in Nat
    <3>1. D \in Nat /\ E \in Nat /\ payout[n] \in Nat /\ payout[o] \in Nat
      BY <2>1 DEF TypeOK, SettleTypeOK
    <3>2. H \in Nat /\ T \in Nat /\ S \in Nat
      BY <2>1, SignedTypes DEF BalanceProofState
    <3> QED BY <2>1, <3>1, <3>2, RecordFields
  <2>3. K \in Nat /\ Owed(end[n][n].bp) = T + K
    <3>1. Books(end[n][n])
      BY DEF BooksMatchProof
    <3>2. K = SumOver(LockAmount, end[n][n].bp.locksRoot)
      BY <3>1, AmountLockedIsSum
    <3>3. end[n][n].bp.locksRoot \in SUBSET Locks
      BY <2>1, SignedTypes DEF BalanceProofState
    <3> QED BY <3>2, <3>3, LockSums DEF Owed
  <2>4. H <= E + S
    <3>1. end[n][o].bp \in Signed(o)
      BY <2>1 DEF Signed
    <3>2. Owed(end[n][o].bp) <= E + S
      BY <2>1, <3>1 DEF FundsInv, Limit
    <3>3. end[n][o].bp.locksRoot \in SUBSET Locks
      BY <2>1, SignedTypes DEF BalanceProofState
    <3>4. PICK y \in Nat : y = SumOver(LockAmount, end[n][o].bp.locksRoot)
      BY <3>3, LockSums
    <3>5. Owed(end[n][o].bp) = H + y
      BY <3>4 DEF Owed
    <3> HIDE DEF E, S, H
    <3> QED BY <2>2, <3>2, <3>5
  <2>5. S <= T
    <3>1. end[o][n].bp \in Signed(n)
      BY DEF Signed
    <3>2. S + SumOver(LockAmount, PaidLocks(n, end[o][n].bp.locksRoot)) <= T
      BY <3>1 DEF BackedInv, Backed
    <3>3. end[o][n].bp.locksRoot \in SUBSET Locks
      BY <2>1, SignedTypes DEF BalanceProofState
    <3>4. PICK y \in Nat : y = SumOver(LockAmount, PaidLocks(n, end[o][n].bp.locksRoot))
      BY <3>3, LockSums DEF PaidLocks
    <3> HIDE DEF S, T
    <3> QED BY <2>2, <3>2, <3>4
  <2>6. x \in Int /\ x <= D + E
    <3> HIDE DEF D, E, H, T, S, K
    <3> QED BY <2>2, <2>3, <2>4, <2>5
  <2>7. contract.share[A] + contract.share[B] = D + E
    <3>1. contract.share[A] + contract.share[B] = deposit[A] + deposit[B]
      BY DEF MoneyInv
    <3>2. deposit[A] + deposit[B] = D + E
      BY <2>1, <2>2
    <3> QED BY <3>1, <3>2
  <2>8. payout = SettleAmounts
    BY DEF ShareInv
  <2>9. CASE n \in Punished
    <3>1. payout[o] = 0
      BY <2>9 DEF PunishInv
    <3>2. payout[A] + payout[B] = D + E
      BY <2>7, <2>8, SettleAmountsFacts
    <3>3. payout[n] = D + E
      BY <2>1, <2>2, <3>1, <3>2
    <3> HIDE DEF x, D, E
    <3>4. payout[n] >= x
      BY <2>2, <2>6, <3>3
    <3> QED BY <3>4 DEF x, D
  <2>10. ASSUME n \notin Punished PROVE payout[n] >= x
    <3>1. o \notin Punished
      BY <2>1 DEF HonestNeverPunished
    <3>2. Punished = {}
      BY <2>1, <2>10, <3>1 DEF Punished, Nodes
    <3>3. contract.share[n] = D
      BY <3>2 DEF ShareInv
    <3>4. po >= H
      <4>1. CASE contract.proof[o].nonce > 0
        BY <3>1, <4>1 DEF RegisteredIsSubmitted
      <4>2. CASE end[n][o].bp.nonce = 0
        <5>1. H = 0
          BY <4>2 DEF UnsignedInv
        <5> QED BY <2>2, <5>1
      <4> QED BY <4>1, <4>2
    <3>5. pn <= T + K
      BY <2>3, <2>10, ContractAsksLess
    <3>6. x <= contract.share[n] + po - pn
      <4> HIDE DEF D, H, T, K, po, pn
      <4> QED BY <2>2, <2>3, <3>3, <3>4, <3>5
    <3>7. x <= contract.share[A] + contract.share[B]
      BY <2>6, <2>7
    <3> HIDE DEF x
    <3> QED BY <2>6, <2>8, <3>6, <3>7, SettleAmountsLeast
  <2> QED BY <2>9, <2>10
<1> QED BY <1>1, SettleTypeCorrect, SettleBooksAlways, SettleLocksAlways, BackedAlways, FundsAlways,
        UnlocksAlways, ShareAlways, MoneyAlways, UnsignedAlways, HonestTheorem, SubmitTheorem,
        PunishAlways, PTL
=============================================================================
