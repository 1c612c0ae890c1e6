------------------------- MODULE NegotiationProofs -------------------------
(***************************************************************************)
(* Proofs about Negotiation, for every set of locks, every deposit, every  *)
(* amount that is withdrawn and any number of epochs.                      *)
(***************************************************************************)
EXTENDS Negotiation, ChannelProofs

(***************************************************************************)
(* The types of the messages, the calls and the events.                    *)
(***************************************************************************)
Events ==
    [type : {"ChannelWithdraw"}, balance : [Nodes -> Nat]]
        \cup [type : {"ChannelNewDeposit"}, participant : Nodes, total : Nat]
        \cup [type : {"ChannelCooperativeSettled", "ChannelClosed"}]

Responses ==
    [type : {"WithdrawResponse"}, epoch : Nat, balance : Nat, amount : Nat]
        \cup [type : {"SettleResponse"}, epoch : Nat, balances : [Nodes -> Nat]]

Agreements ==
    [type : {"withDraw"}, who : Nodes, epoch : Nat, balance : Nat, amount : Nat,
     counted : Nat]
        \cup [type : {"cooperativeSettle"}, who : Nodes, epoch : Nat,
              balances : [Nodes -> Nat], counted : Nat]

Closes == [type : {"prepareSettle"}, who : Nodes, epoch : Nat, signed : BOOLEAN]

QuietStates == {"Opened"} \cup PrepareStates
EndStates == {"Closing", "Closed", "Settled"}

TypeInv ==
    /\ end \in [Nodes -> [Nodes -> EndState]]
    /\ queue \in [Nodes -> Seq(EnvelopMessage \cup Requests)]
    /\ deposit \in [Nodes -> Nat]
    /\ state \in [Nodes -> QuietStates \cup PartnerStates \cup AskedStates \cup EndStates]
    /\ epoch \in [Nodes -> Nat]
    /\ responses \in [Nodes -> SUBSET Responses]
    /\ pendingDeposit \in [Nodes -> BOOLEAN]
    /\ calls \subseteq Agreements \cup Closes
    /\ contract \in [state : {"open", "closed", "gone"}, epoch : Nat]
    /\ log \in Seq(Events)
    /\ seen \in [Nodes -> 0..Len(log)]
    /\ paid \in [Nodes -> Nat]

(***************************************************************************)
(* The kinds of steps.                                                     *)
(***************************************************************************)
agreeVars == <<responses, calls>>
ledgerVars == <<deposit, contract, log, paid>>

\* n signs a balance proof; a transfer only while its channel is open.
Sent(n, msg) ==
    /\ RegisterTransferOK(end[n][n], end[n][Other(n)], msg, blk[n])
    /\ msg.type = "MediatedTransfer" =>
          msg.bp.transferAmount = end[n][n].bp.transferAmount
    /\ state[n] \notin {"Closed", "Settled"}
    /\ msg.type \in {"DirectTransfer", "MediatedTransfer"} => state[n] = "Opened"
    /\ end' = [end EXCEPT ![n][n] = RegisterTransfer(@, msg)]
    /\ queue' = [queue EXCEPT ![n] = Append(@, msg)]
    /\ UNCHANGED <<agreeVars, ledgerVars, state, epoch, pendingDeposit, seen>>

\* n registers the balance proof at the head of its partner's queue; only one
\* that takes a lock out once it has agreed to something.
Got(n, msg) ==
    /\ queue[Other(n)] # <<>> /\ msg = Head(queue[Other(n)])
    /\ SameEpoch
    /\ RegisterTransferOK(end[n][Other(n)], end[n][n], msg, blk[n])
    /\ state[n] # "Settled"
    /\ msg.type # "RemoveExpired" => state[n] \in QuietStates
    /\ msg.type = "MediatedTransfer" => state[n] = "Opened"
    /\ end' = [end EXCEPT ![n][Other(n)] = RegisterTransfer(@, msg)]
    /\ queue' = [queue EXCEPT ![Other(n)] = Tail(@)]
    /\ UNCHANGED <<agreeVars, ledgerVars, state, epoch, pendingDeposit, seen>>

\* n learns a secret.
Learned(n, l) ==
    /\ l \in end[n][LockSender[l]].pending
    /\ end' = [end EXCEPT ![n][LockSender[l]] = RegisterSecret(@, l)]
    /\ UNCHANGED <<queue, agreeVars, ledgerVars, state, epoch, pendingDeposit, seen>>

\* n's user prepares for an agreement, or thinks better of it.
Prepared(n, s) ==
    /\ state[n] \in QuietStates /\ s \in QuietStates
    /\ state' = [state EXCEPT ![n] = s]
    /\ UNCHANGED <<end, queue, agreeVars, ledgerVars, epoch, pendingDeposit, seen>>

\* n sends a request, if need be from a state that should not allow it.
Requested(n, req, s) ==
    /\ state[n] # "Settled" /\ s \in AskedStates
    /\ MayCreateRequest(n)
    /\ \/ /\ req.type = "WithdrawRequest" /\ req.balance = BalanceOf(n, n)
          /\ req.amount \in Nat
          /\ req = [type |-> "WithdrawRequest", balance |-> req.balance, amount |-> req.amount]
       \/ req = [type |-> "SettleRequest", balances |-> [m \in Nodes |-> BalanceOf(n, m)]]
    /\ queue' = [queue EXCEPT ![n] = Append(@, req)]
    /\ state' = [state EXCEPT ![n] = s]
    /\ UNCHANGED <<end, agreeVars, ledgerVars, epoch, pendingDeposit, seen>>

\* n grants the request at the head of its partner's queue.
Granted(n, req, s, response) ==
    /\ queue[Other(n)] # <<>> /\ req = Head(queue[Other(n)])
    /\ req \in Requests /\ response \in Responses /\ response.epoch = epoch[n]
    /\ SameEpoch
    /\ state[n] = "Opened" /\ s \in PartnerStates
    /\ NoDisputedLock(n)
    /\ queue' = [queue EXCEPT ![Other(n)] = Tail(@)]
    /\ state' = [state EXCEPT ![n] = s]
    /\ responses' = [responses EXCEPT ![n] = @ \cup {response}]
    /\ UNCHANGED <<end, calls, ledgerVars, epoch, pendingDeposit, seen>>

\* What n gets out of the agreement.
Value(call) ==
    IF call.type = "withDraw" THEN call.balance ELSE call.balances[call.who]

\* n has the agreement in both hands and sends it to the contract.
Called(n, response, call) ==
    /\ response \in responses[Other(n)] /\ response.epoch = epoch[n]
    /\ state[n] \in AskedStates
    /\ call \in Agreements /\ call.who = n /\ call.epoch = epoch[n]
    /\ call.counted = end[n][n].contractBalance
    /\ Value(call) = BalanceOf(n, n)
    /\ responses' = [responses EXCEPT ![Other(n)] = @ \ {response}]
    /\ calls' = calls \cup {call}
    /\ UNCHANGED <<end, queue, ledgerVars, state, epoch, pendingDeposit, seen>>

\* n closes the channel.
Closed(n, call) ==
    /\ state[n] \notin {"Closed", "Settled"}
    /\ call \in Closes
    /\ state' = [state EXCEPT ![n] = "Closing"]
    /\ calls' = calls \cup {call}
    /\ UNCHANGED <<end, queue, responses, ledgerVars, epoch, pendingDeposit, seen>>

\* n sends a deposit, or nothing of this happens.
Idle ==
    /\ pendingDeposit' \in [Nodes -> BOOLEAN]
    /\ UNCHANGED <<end, queue, agreeVars, ledgerVars, state, epoch, seen>>

\* SendTransfer signs a balance proof.
LEMMA SendTransferKinds ==
    ASSUME TypeInv, NEW n \in Nodes, SendTransfer(n)
    PROVE  \E msg \in EnvelopMessage : Sent(n, msg)
<1> end[n][n] \in EndState
  BY DEF TypeInv
<1>1. ASSUME NEW msg \in EnvelopMessage, Send(n, msg), UNCHANGED chainVars,
             CanUpdate(n),
             msg.type = "MediatedTransfer" =>
                 msg.bp.transferAmount = end[n][n].bp.transferAmount,
             msg.type \in {"DirectTransfer", "MediatedTransfer"} => state[n] = "Opened"
      PROVE  \E m \in EnvelopMessage : Sent(n, m)
  <2>1. UNCHANGED negVars
    BY DEF SendTransfer
  <2> QED BY <1>1, <2>1 DEF Send, Sent, CanUpdate, chainVars, negVars, agreeVars, ledgerVars
<1>2. CASE CanTransfer(n) /\ \E a \in DirectAmounts : directTransferAsync(n, a)
  <2>1. PICK a \in DirectAmounts : directTransferAsync(n, a)
    BY <1>2
  <2> DEFINE msg == CreateDirectTransfer(end[n][n], a)
  <2>2. msg \in EnvelopMessage /\ msg.type = "DirectTransfer"
    BY CreatedMessages DEF CreateDirectTransfer
  <2>3. Send(n, msg) /\ UNCHANGED chainVars
    BY <2>1 DEF directTransferAsync
  <2> HIDE DEF msg
  <2> QED BY <1>1, <1>2, <2>2, <2>3 DEF CanTransfer, CanUpdate
<1>3. CASE CanTransfer(n) /\ \E l \in Locks : eventSendMediatedTransfer(n, l)
  <2>1. PICK l \in Locks : eventSendMediatedTransfer(n, l)
    BY <1>3
  <2> DEFINE msg == CreateMediatedTransfer(end[n][n], l)
  <2>2. /\ msg \in EnvelopMessage /\ msg.type = "MediatedTransfer"
        /\ msg.bp.transferAmount = end[n][n].bp.transferAmount
    BY CreatedMessages DEF CreateMediatedTransfer, NewBalanceProof
  <2>3. Send(n, msg) /\ UNCHANGED chainVars
    BY <2>1 DEF eventSendMediatedTransfer
  <2> HIDE DEF msg
  <2> QED BY <1>1, <1>3, <2>2, <2>3 DEF CanTransfer, CanUpdate
<1>4. CASE CanUpdate(n) /\ \E l \in Locks : eventSendUnlock(n, l) \/ eventUnlockFailed(n, l)
  <2>1. PICK l \in Locks : eventSendUnlock(n, l) \/ eventUnlockFailed(n, l)
    BY <1>4
  <2>2. CASE eventSendUnlock(n, l)
    <3> DEFINE msg == CreateUnlock(end[n][n], l)
    <3>1. msg \in EnvelopMessage /\ msg.type = "UnLock"
      BY CreatedMessages DEF CreateUnlock
    <3>2. Send(n, msg) /\ UNCHANGED chainVars
      BY <2>2 DEF eventSendUnlock
    <3> HIDE DEF msg
    <3> QED BY <1>1, <1>4, <3>1, <3>2
  <2>3. CASE eventUnlockFailed(n, l)
    <3> DEFINE msg == CreateRemoveExpired(end[n][n], l)
    <3>1. msg \in EnvelopMessage /\ msg.type = "RemoveExpired"
      BY CreatedMessages DEF CreateRemoveExpired
    <3>2. Send(n, msg) /\ UNCHANGED chainVars
      BY <2>3 DEF eventUnlockFailed
    <3> HIDE DEF msg
    <3> QED BY <1>1, <1>4, <3>1, <3>2
  <2> QED BY <2>1, <2>2, <2>3
<1> QED BY <1>2, <1>3, <1>4 DEF SendTransfer

\* ReceiveTransfer registers one.
LEMMA ReceiveTransferKinds ==
    ASSUME TypeInv, NEW n \in Nodes, ReceiveTransfer(n)
    PROVE  \E msg \in EnvelopMessage : Got(n, msg)
<1> DEFINE msg == Head(queue[Other(n)])
<1>1. Other(n) \in Nodes
  BY OtherNode
<1>2. ASSUME NEW type \in {"DirectTransfer", "MediatedTransfer", "UnLock", "RemoveExpired"},
             Receive(n, type),
             state[n] # "Settled",
             type # "RemoveExpired" => state[n] \in QuietStates,
             type = "MediatedTransfer" => state[n] = "Opened"
      PROVE  msg \in EnvelopMessage /\ Got(n, msg)
  <2>1. UNCHANGED negVars /\ SameEpoch
    BY DEF ReceiveTransfer
  <2>2. queue[Other(n)] # <<>> /\ msg.type = type
    BY <1>2 DEF Receive
  <2>3. msg \in EnvelopMessage \cup Requests
    BY <1>1, <2>2 DEF TypeInv
  <2>4. msg \notin Requests
    BY <2>2 DEF Requests
  <2> QED BY <1>2, <2>1, <2>2, <2>3, <2>4
          DEF Receive, CanReceive, Got, chainVars, negVars, agreeVars, ledgerVars
<1>3. \E type \in {"DirectTransfer", "MediatedTransfer", "UnLock", "RemoveExpired"} :
         /\ Receive(n, type)
         /\ state[n] # "Settled"
         /\ type # "RemoveExpired" => state[n] \in QuietStates
         /\ type = "MediatedTransfer" => state[n] = "Opened"
  <2>1. CASE CanTransfer(n) /\ messageDirectTransfer(n)
    BY <2>1 DEF CanTransfer, messageDirectTransfer, QuietStates
  <2>2. CASE CanTransfer(n) /\ messageMediatedTransfer(n)
    BY <2>2 DEF CanTransfer, messageMediatedTransfer, QuietStates
  <2>3. CASE CanDealUnlock(n) /\ messageUnlock(n)
    BY <2>3 DEF CanDealUnlock, messageUnlock, QuietStates, PrepareStates
  <2>4. CASE CanUpdate(n) /\ messageRemoveExpiredHashlockTransfer(n)
    BY <2>4 DEF CanUpdate, messageRemoveExpiredHashlockTransfer
  <2> QED BY <2>1, <2>2, <2>3, <2>4 DEF ReceiveTransfer
<1> HIDE DEF msg
<1> QED BY <1>2, <1>3

\* What the user asks for.
LEMMA AskKinds ==
    ASSUME TypeInv, NEW n \in Nodes, Ask(n)
    PROVE  \/ \E s \in QuietStates : Prepared(n, s)
           \/ \E s \in AskedStates : \E req : Requested(n, req, s)
<1>1. CASE prepareForWithdraw(n)
  <2>1. Prepared(n, "PrepareForWithdraw")
    BY <1>1 DEF prepareForWithdraw, SetState, Prepared, vars, agreeVars, ledgerVars,
                QuietStates, PrepareStates
  <2> QED BY <2>1 DEF QuietStates, PrepareStates
<1>2. CASE prepareCooperativeSettleChannel(n)
  <2>1. Prepared(n, "PrepareForCooperativeSettle")
    BY <1>2 DEF prepareCooperativeSettleChannel, SetState, Prepared, vars, agreeVars,
                ledgerVars, QuietStates, PrepareStates
  <2> QED BY <2>1 DEF QuietStates, PrepareStates
<1>3. CASE cancelPrepareForCooperativeSettleChannelOrWithdraw(n)
  <2>1. Prepared(n, "Opened")
    BY <1>3 DEF cancelPrepareForCooperativeSettleChannelOrWithdraw, SetState, Prepared,
                vars, agreeVars, ledgerVars, QuietStates, PrepareStates
  <2> QED BY <2>1 DEF QuietStates
<1>4. ASSUME NEW a \in WithdrawAmounts, withdraw(n, a)
      PROVE  \E s \in AskedStates : \E req : Requested(n, req, s)
  <2> DEFINE req == [type |-> "WithdrawRequest", balance |-> BalanceOf(n, n), amount |-> a]
  <2>1. a \in Nat
    BY NegotiationAssumption
  <2>2. /\ req.type = "WithdrawRequest" /\ req.balance = BalanceOf(n, n) /\ req.amount \in Nat
        /\ req = [type |-> "WithdrawRequest", balance |-> req.balance, amount |-> req.amount]
    BY <2>1
  <2>3. /\ state[n] # "Settled" /\ SendRequest(n, req) /\ SetState(n, "Withdraw")
    BY <1>4 DEF withdraw
  <2> HIDE DEF req
  <2>4. Requested(n, req, "Withdraw")
    BY <2>2, <2>3 DEF Requested, SendRequest, SetState, chainVars, agreeVars, ledgerVars,
                      AskedStates
  <2> QED BY <2>4 DEF AskedStates
<1>5. CASE cooperativeSettleChannel(n)
  <2> DEFINE req == [type |-> "SettleRequest", balances |-> [m \in Nodes |-> BalanceOf(n, m)]]
  <2>1. /\ state[n] # "Settled" /\ SendRequest(n, req) /\ SetState(n, "CooprativeSettle")
    BY <1>5 DEF cooperativeSettleChannel
  <2>2. req = [type |-> "SettleRequest", balances |-> [m \in Nodes |-> BalanceOf(n, m)]]
    OBVIOUS
  <2> HIDE DEF req
  <2>3. Requested(n, req, "CooprativeSettle")
    BY <2>1, <2>2 DEF Requested, SendRequest, SetState, chainVars, agreeVars, ledgerVars,
                      AskedStates
  <2> QED BY <2>3 DEF AskedStates
<1> QED BY <1>1, <1>2, <1>3, <1>4, <1>5 DEF Ask

\* The partner's requests and responses.
LEMMA AnswerKinds ==
    ASSUME TypeInv, NEW n \in Nodes, Answer(n)
    PROVE  \/ \E req \in Requests, s \in PartnerStates, r \in Responses :
                 Granted(n, req, s, r)
           \/ \E r \in Responses, call \in Agreements : Called(n, r, call)
<1> DEFINE o == Other(n)
           req == Head(queue[o])
<1>1. o \in Nodes /\ epoch[n] \in Nat
  BY OtherNode DEF TypeInv
<1>2. queue[o] # <<>> => req \in EnvelopMessage \cup Requests
  BY <1>1 DEF TypeInv
<1>3. CASE messageWithdrawRequest(n)
  <2> DEFINE r == [type |-> "WithdrawResponse", epoch |-> epoch[n],
                   balance |-> req.balance, amount |-> req.amount]
  <2>1. Accept(n, "WithdrawRequest", "PartnerWithdrawing", r)
    BY <1>3 DEF messageWithdrawRequest
  <2>2. queue[o] # <<>> /\ req.type = "WithdrawRequest"
    BY <2>1 DEF Accept
  <2>3. req \in Requests /\ req.balance \in Nat /\ req.amount \in Nat
    BY <1>2, <2>2 DEF Requests, EnvelopMessage, LockMessages
  <2>4. r \in Responses /\ r.epoch = epoch[n]
    BY <1>1, <2>3 DEF Responses
  <2> HIDE DEF r
  <2>5. Granted(n, req, "PartnerWithdrawing", r)
    BY <2>1, <2>2, <2>3, <2>4 DEF Accept, Granted, chainVars, ledgerVars, PartnerStates
  <2> QED BY <2>3, <2>4, <2>5 DEF PartnerStates
<1>4. CASE messageSettleRequest(n)
  <2> DEFINE r == [type |-> "SettleResponse", epoch |-> epoch[n], balances |-> req.balances]
  <2>1. Accept(n, "SettleRequest", "PartnerCooperativeSettling", r)
    BY <1>4 DEF messageSettleRequest
  <2>2. queue[o] # <<>> /\ req.type = "SettleRequest"
    BY <2>1 DEF Accept
  <2>3. req \in Requests /\ req.balances \in [Nodes -> Nat]
    BY <1>2, <2>2 DEF Requests, EnvelopMessage, LockMessages
  <2>4. r \in Responses /\ r.epoch = epoch[n]
    BY <1>1, <2>3 DEF Responses
  <2> HIDE DEF r
  <2>5. Granted(n, req, "PartnerCooperativeSettling", r)
    BY <2>1, <2>2, <2>3, <2>4 DEF Accept, Granted, chainVars, ledgerVars, PartnerStates
  <2> QED BY <2>3, <2>4, <2>5 DEF PartnerStates
<1> HIDE DEF req
<1>5. ASSUME NEW r \in responses[o], NEW call \in Agreements, Call(n, r, call),
             state[n] \in AskedStates, call.who = n, call.epoch = r.epoch,
             call.counted = end[n][n].contractBalance, Value(call) = BalanceOf(n, n)
      PROVE  r \in Responses /\ Called(n, r, call)
  <2>1. r \in Responses
    BY <1>1 DEF TypeInv
  <2> QED BY <1>5, <2>1 DEF Call, Called, vars, ledgerVars
<1>6. end[n][n].contractBalance \in Nat
  BY DEF TypeInv, EndState
<1>7. CASE messageWithdrawResponse(n)
  <2>1. PICK r \in responses[o] :
           /\ r.type = "WithdrawResponse" /\ state[n] = "Withdraw"
           /\ r.balance = BalanceOf(n, n)
           /\ Call(n, r, [type |-> "withDraw", who |-> n, epoch |-> r.epoch,
                          balance |-> r.balance, amount |-> r.amount,
                          counted |-> end[n][n].contractBalance])
    BY <1>7 DEF messageWithdrawResponse
  <2> DEFINE call == [type |-> "withDraw", who |-> n, epoch |-> r.epoch,
                      balance |-> r.balance, amount |-> r.amount,
                      counted |-> end[n][n].contractBalance]
  <2>2. r \in Responses
    BY <1>1 DEF TypeInv
  <2>3. r.epoch \in Nat /\ r.balance \in Nat /\ r.amount \in Nat
    BY <2>1, <2>2 DEF Responses
  <2>4. /\ call \in Agreements /\ call.who = n /\ call.epoch = r.epoch
        /\ call.counted = end[n][n].contractBalance /\ Value(call) = r.balance
    BY <1>6, <2>3 DEF Agreements, Value
  <2>5. Call(n, r, call) /\ state[n] \in AskedStates
    BY <2>1 DEF AskedStates
  <2> HIDE DEF call
  <2> QED BY <1>5, <2>1, <2>4, <2>5
<1>8. CASE messageSettleResponse(n)
  <2>1. PICK r \in responses[o] :
           /\ r.type = "SettleResponse" /\ state[n] = "CooprativeSettle"
           /\ r.balances[n] = BalanceOf(n, n)
           /\ Call(n, r, [type |-> "cooperativeSettle", who |-> n, epoch |-> r.epoch,
                          balances |-> r.balances,
                          counted |-> end[n][n].contractBalance])
    BY <1>8 DEF messageSettleResponse
  <2> DEFINE call == [type |-> "cooperativeSettle", who |-> n, epoch |-> r.epoch,
                      balances |-> r.balances,
                      counted |-> end[n][n].contractBalance]
  <2>2. r \in Responses
    BY <1>1 DEF TypeInv
  <2>3. r.epoch \in Nat /\ r.balances \in [Nodes -> Nat]
    BY <2>1, <2>2 DEF Responses
  <2>4. /\ call \in Agreements /\ call.who = n /\ call.epoch = r.epoch
        /\ call.counted = end[n][n].contractBalance /\ Value(call) = r.balances[n]
    BY <1>6, <2>3 DEF Agreements, Value
  <2>5. Call(n, r, call) /\ state[n] \in AskedStates
    BY <2>1 DEF AskedStates
  <2> HIDE DEF call
  <2> QED BY <1>5, <2>1, <2>4, <2>5
<1> QED BY <1>3, <1>4, <1>7, <1>8 DEF Answer

\* Every step is one of these.
LEMMA NegStepKinds ==
    ASSUME TypeInv, [NegNext]_allVars
    PROVE  \/ \E n \in Nodes, msg \in EnvelopMessage : Sent(n, msg) \/ Got(n, msg)
           \/ \E n \in Nodes, l \in Locks : Learned(n, l)
           \/ \E n \in Nodes, s \in QuietStates : Prepared(n, s)
           \/ \E n \in Nodes, s \in AskedStates : \E req : Requested(n, req, s)
           \/ \E n \in Nodes, req \in Requests, s \in PartnerStates, r \in Responses :
                 Granted(n, req, s, r)
           \/ \E n \in Nodes, r \in Responses, call \in Agreements : Called(n, r, call)
           \/ \E n \in Nodes, call \in Closes : Closed(n, call)
           \/ \E call \in Agreements : withDraw(call) \/ cooperativeSettle(call)
           \/ \E call \in Closes : prepareSettle(call)
           \/ \E n \in Nodes : depositInternal(n)
           \/ \E n \in Nodes :
                 \/ handleBalanceEvent(n) \/ handleWithdraw(n)
                 \/ handleCooperativeSettled(n) \/ handleClosed(n)
           \/ Idle
<1>1. ASSUME NEW n \in Nodes, NEW l \in Locks, SecretLearned(n, l)
      PROVE  Learned(n, l)
  BY <1>1 DEF SecretLearned, registerSecret, Learned, chainVars, negVars, agreeVars, ledgerVars
<1>2. ASSUME NEW n \in Nodes, Close(n)
      PROVE  \E call \in Closes : Closed(n, call)
  <2> DEFINE call == [type |-> "prepareSettle", who |-> n, epoch |-> epoch[n],
                      signed |-> end[n][Other(n)].bp.nonce > 0]
  <2>1. epoch[n] \in Nat /\ (end[n][Other(n)].bp.nonce > 0) \in BOOLEAN
    BY DEF TypeInv
  <2>2. call \in Closes
    BY <2>1 DEF Closes
  <2> QED BY <1>2, <2>2 DEF Close, Closed, vars, ledgerVars
<1>3. ASSUME NEW n \in Nodes, DepositAsync(n)
      PROVE  Idle
  BY <1>3 DEF DepositAsync, Idle, vars, agreeVars, ledgerVars, TypeInv
<1>4. ASSUME NEW call \in calls, withDraw(call) \/ cooperativeSettle(call)
      PROVE  call \in Agreements
  <2>1. call.type # "prepareSettle"
    BY <1>4 DEF withDraw, cooperativeSettle
  <2> QED BY <2>1 DEF TypeInv, Closes
<1>5. ASSUME NEW call \in calls, prepareSettle(call)
      PROVE  call \in Closes
  <2>1. call.type = "prepareSettle"
    BY <1>5 DEF prepareSettle
  <2> QED BY <2>1 DEF TypeInv, Agreements
<1>6. CASE BlockStateChange
  BY <1>6 DEF BlockStateChange, negVars, Idle, agreeVars, ledgerVars, TypeInv
<1>7. CASE UNCHANGED allVars
  BY <1>7 DEF allVars, vars, negVars, Idle, agreeVars, ledgerVars, TypeInv
<1>8. CASE \E n \in Nodes :
             \/ SendTransfer(n) \/ ReceiveTransfer(n) \/ Ask(n) \/ Answer(n)
             \/ Close(n) \/ DepositAsync(n) \/ Follow(n)
  BY <1>2, <1>3, <1>8, SendTransferKinds, ReceiveTransferKinds, AskKinds, AnswerKinds DEF Follow
<1>9. CASE \E n \in Nodes, l \in Locks : SecretLearned(n, l)
  BY <1>1, <1>9
<1>10. CASE Contract
  BY <1>4, <1>5, <1>10 DEF Contract
<1> QED BY <1>6, <1>7, <1>8, <1>9, <1>10 DEF NegNext

(***************************************************************************)
(* The inductive invariant.                                                *)
(*                                                                         *)
(* The chain.  A node's epoch counts the withdrawals it has seen; within an*)
(* epoch the balances the events announce only grow, so a node never knows *)
(* of more than was deposited.                                             *)
(***************************************************************************)
Withdrawals(q, k) == Cardinality({i \in 1..k : q[i].type = "ChannelWithdraw"})

EpochInv ==
    /\ contract.epoch = Withdrawals(log, Len(log))
    /\ \A n \in Nodes : epoch[n] = Withdrawals(log, seen[n])

\* The event announces a balance of m, and which one.
About(ev, m) ==
    \/ ev.type = "ChannelWithdraw"
    \/ ev.type = "ChannelNewDeposit" /\ ev.participant = m

Told(ev, m) == IF ev.type = "ChannelWithdraw" THEN ev.balance[m] ELSE ev.total

DepositInv ==
    \A m \in Nodes :
        /\ \A i \in 1..Len(log) :
              About(log[i], m) /\ Withdrawals(log, i) = contract.epoch
                  => Told(log[i], m) <= deposit[m]
        /\ \A i, j \in 1..Len(log) :
              (/\ i < j /\ About(log[i], m) /\ About(log[j], m)
               /\ Withdrawals(log, i) = Withdrawals(log, j))
                  => Told(log[i], m) <= Told(log[j], m)
        /\ \A n \in Nodes :
              /\ epoch[n] = contract.epoch => end[n][m].contractBalance <= deposit[m]
              /\ \A j \in 1..Len(log) :
                    j > seen[n] /\ About(log[j], m) /\ Withdrawals(log, j) = epoch[n]
                        => end[n][m].contractBalance <= Told(log[j], m)

(***************************************************************************)
(* The books.  What a node counts as owed is covered by what it counts as  *)
(* deposited, so a request never carries a negative balance.               *)
(***************************************************************************)
FundedHere ==
    \A n, m \in Nodes :
        Owed(end[n][m].bp)
            <= end[n][m].contractBalance + end[n][Other(m)].bp.transferAmount

(***************************************************************************)
(* The states.  A node that has a request under way is late: it registers  *)
(* no transfer until a withdrawal opens the channel anew.                  *)
(***************************************************************************)
Late(n) == state[n] \in AskedStates \cup EndStates

HasRequest(q) == \E i \in 1..Len(q) : q[i] \in Requests

InLate(n) ==
    /\ HasRequest(queue[n]) => Late(n) /\ LocksOf(n, Other(n)) = {}
    /\ state[n] = "Settled" => queue[n] = <<>>
    /\ state[n] \in AskedStates => MayCreateRequest(n)
    /\ state[n] \in PartnerStates => LocksOf(n, Other(n)) = {}

LateInv == \A n \in Nodes : InLate(n)

(***************************************************************************)
(* The agreements: responses on their way and calls.  Both ends have given *)
(* up transfers for the epoch of an agreement, so there is only one.       *)
(***************************************************************************)
AgreedCalls == calls \cap Agreements

Agreed(e) ==
    \A n \in Nodes :
        /\ epoch[n] >= e
        /\ epoch[n] = e => state[n] \notin QuietStates /\ LocksOf(n, Other(n)) = {}

AgreeInv ==
    /\ \A n \in Nodes : \A r \in responses[n] : Agreed(r.epoch)
    /\ \A c \in AgreedCalls : Agreed(c.epoch)
    /\ \A n \in Nodes :
          state[n] \in PartnerStates =>
              /\ epoch[Other(n)] >= epoch[n]
              /\ epoch[Other(n)] = epoch[n] => Late(Other(n))

UniqueInv ==
    /\ \A n, m \in Nodes : \A r \in responses[n], s \in responses[m] :
          r.epoch = s.epoch => n = m /\ r = s
    /\ \A n \in Nodes : \A r \in responses[n] : \A c \in AgreedCalls : r.epoch # c.epoch
    /\ \A c, d \in AgreedCalls : c.epoch = d.epoch => c = d

\* What the agreement gives its requester is what its books say, and no more
\* than the partner's books leave.
CallInv ==
    \A c \in AgreedCalls :
        /\ epoch[c.who] = c.epoch => Value(c) >= c.counted + Net(c.who)
        /\ epoch[Other(c.who)] = c.epoch => Value(c) + Net(Other(c.who)) <= c.counted
        /\ c.epoch = contract.epoch => c.counted <= deposit[c.who]

(***************************************************************************)
(* The queues.  In the epoch of its sender a queue leads, request or not,  *)
(* from the balance proof the receiver holds to the sender's newest one; a *)
(* receiver that is an epoch behind will start from nothing.               *)
(***************************************************************************)
NoProof == [nonce |-> 0, transferAmount |-> 0, locksRoot |-> {}]

Leads(q, theirs, mine, p) ==
    /\ p[0] = theirs /\ p[Len(q)] = mine
    /\ \A i \in 1..Len(q) :
          \/ q[i] \in Requests /\ p[i] = p[i - 1]
          \/ /\ q[i] \in EnvelopMessage /\ p[i] = q[i].bp
             /\ q[i].bp.nonce = p[i - 1].nonce + 1
             /\ Follows(p[i - 1], q[i])
    /\ \A i \in 0..Len(q) : p[i].transferAmount <= mine.transferAmount

Trail(q, theirs, mine) ==
    \E p \in [0..Len(q) -> BalanceProofState] : Leads(q, theirs, mine, p)

Base(s) == IF SameEpoch THEN end[Other(s)][s].bp ELSE NoProof

InTrail(s) ==
    /\ state[s] # "Settled" /\ epoch[s] >= epoch[Other(s)] =>
          Trail(queue[s], Base(s), end[s][s].bp)
    /\ epoch[Other(s)] > epoch[s] => end[Other(s)][s].bp = NoProof
    /\ SameEpoch =>
          end[Other(s)][s].bp.transferAmount <= end[s][s].bp.transferAmount

TrailInv == \A s \in Nodes : InTrail(s)

NegInv ==
    /\ TypeInv /\ BooksMatchProof /\ FundedHere /\ EpochInv /\ DepositInv
    /\ TrailInv /\ LateInv /\ AgreeInv /\ UniqueInv /\ CallInv

(***************************************************************************)
(* What the types say of the parts of the state.                           *)
(***************************************************************************)

\* There are two nodes.
LEMMA TwoNodes ==
    ASSUME NEW n \in Nodes, NEW k \in Nodes
    PROVE  k = n \/ k = Other(n)
BY NodesAssumption DEF Nodes, Other

\* The fields of an EndState.
LEMMA EndFields ==
    ASSUME TypeInv, NEW n \in Nodes, NEW m \in Nodes
    PROVE  /\ end[n][m] \in EndState /\ end[n][m].bp \in BalanceProofState
           /\ end[n][m].contractBalance \in Nat
           /\ end[n][m].bp.transferAmount \in Nat /\ end[n][m].bp.nonce \in Nat
           /\ end[n][m].bp.locksRoot \subseteq Locks /\ end[n][m].tree \subseteq Locks
<1>1. end[n][m] \in EndState
  BY DEF TypeInv
<1>2. end[n][m].bp \in BalanceProofState
  BY <1>1 DEF EndState
<1> QED BY <1>1, <1>2 DEF EndState, BalanceProofState

\* One EndState changes.
LEMMA OneEnd ==
    ASSUME TypeInv, NEW n \in Nodes, NEW m \in Nodes, NEW e,
           end' = [end EXCEPT ![n][m] = e]
    PROVE  /\ end'[n][m] = e
           /\ \A k, j \in Nodes : k # n \/ j # m => end'[k][j] = end[k][j]
           /\ e \in EndState => end' \in [Nodes -> [Nodes -> EndState]]
BY DEF TypeInv

\* A node signs a balance proof.
LEMMA SentFacts ==
    ASSUME TypeInv, NEW n \in Nodes, NEW msg \in EnvelopMessage, Sent(n, msg)
    PROVE  /\ end'[n][n] = RegisterTransfer(end[n][n], msg)
           /\ end'[n][n] \in EndState /\ end'[n][n].bp = msg.bp
           /\ end'[n][n].contractBalance = end[n][n].contractBalance
           /\ \A k, j \in Nodes : k # n \/ j # n => end'[k][j] = end[k][j]
           /\ end' \in [Nodes -> [Nodes -> EndState]]
           /\ queue'[n] = Append(queue[n], msg)
           /\ queue'[Other(n)] = queue[Other(n)]
           /\ queue' \in [Nodes -> Seq(EnvelopMessage \cup Requests)]
<1>1. end[n][n] \in EndState /\ Other(n) \in Nodes /\ Other(n) # n
  BY EndFields, OtherNode
<1>2. end' = [end EXCEPT ![n][n] = RegisterTransfer(end[n][n], msg)]
  BY DEF Sent
<1>3. /\ RegisterTransfer(end[n][n], msg) \in EndState
      /\ RegisterTransfer(end[n][n], msg).bp = msg.bp
      /\ RegisterTransfer(end[n][n], msg).contractBalance = end[n][n].contractBalance
  BY <1>1, RegisterTransferType
<1>4. /\ end'[n][n] = RegisterTransfer(end[n][n], msg)
      /\ \A k, j \in Nodes : k # n \/ j # n => end'[k][j] = end[k][j]
      /\ end' \in [Nodes -> [Nodes -> EndState]]
  BY <1>2, <1>3, OneEnd
<1>5. /\ queue'[n] = Append(queue[n], msg) /\ queue'[Other(n)] = queue[Other(n)]
      /\ queue' \in [Nodes -> Seq(EnvelopMessage \cup Requests)]
  <2>1. queue[n] \in Seq(EnvelopMessage \cup Requests) /\ msg \in EnvelopMessage \cup Requests
    BY DEF TypeInv
  <2>2. Append(queue[n], msg) \in Seq(EnvelopMessage \cup Requests)
    BY <2>1
  <2> QED BY <1>1, <2>2 DEF Sent, TypeInv
<1> QED BY <1>3, <1>4, <1>5

\* A node registers its partner's balance proof.
LEMMA GotFacts ==
    ASSUME TypeInv, NEW n \in Nodes, NEW msg \in EnvelopMessage, Got(n, msg)
    PROVE  LET o == Other(n)
           IN  /\ end'[n][o] = RegisterTransfer(end[n][o], msg)
               /\ end'[n][o] \in EndState /\ end'[n][o].bp = msg.bp
               /\ end'[n][o].contractBalance = end[n][o].contractBalance
               /\ \A k, j \in Nodes : k # n \/ j # o => end'[k][j] = end[k][j]
               /\ end' \in [Nodes -> [Nodes -> EndState]]
               /\ queue[o] # <<>> /\ msg = Head(queue[o])
               /\ queue'[o] = Tail(queue[o])
               /\ queue'[n] = queue[n]
               /\ queue' \in [Nodes -> Seq(EnvelopMessage \cup Requests)]
<1> DEFINE o == Other(n)
<1>1. end[n][o] \in EndState /\ o \in Nodes /\ o # n
  BY EndFields, OtherNode
<1>2. end' = [end EXCEPT ![n][o] = RegisterTransfer(end[n][o], msg)]
  BY DEF Got
<1>3. /\ RegisterTransfer(end[n][o], msg) \in EndState
      /\ RegisterTransfer(end[n][o], msg).bp = msg.bp
      /\ RegisterTransfer(end[n][o], msg).contractBalance = end[n][o].contractBalance
  BY <1>1, RegisterTransferType
<1>4. /\ end'[n][o] = RegisterTransfer(end[n][o], msg)
      /\ \A k, j \in Nodes : k # n \/ j # o => end'[k][j] = end[k][j]
      /\ end' \in [Nodes -> [Nodes -> EndState]]
  BY <1>1, <1>2, <1>3, OneEnd
<1>5. queue[o] # <<>> /\ queue[o] \in Seq(EnvelopMessage \cup Requests)
  BY <1>1 DEF Got, TypeInv
<1>6. Tail(queue[o]) \in Seq(EnvelopMessage \cup Requests)
  BY <1>5
<1>7. /\ msg = Head(queue[o]) /\ queue'[o] = Tail(queue[o]) /\ queue'[n] = queue[n]
      /\ queue' \in [Nodes -> Seq(EnvelopMessage \cup Requests)]
  BY <1>1, <1>6 DEF Got, TypeInv
<1> QED BY <1>3, <1>4, <1>5, <1>7

\* A node learns a secret.
LEMMA LearnedFacts ==
    ASSUME TypeInv, NEW n \in Nodes, NEW l \in Locks, Learned(n, l)
    PROVE  LET s == LockSender[l]
           IN  /\ s \in Nodes /\ l \in end[n][s].pending
               /\ end'[n][s] = RegisterSecret(end[n][s], l)
               /\ end' \in [Nodes -> [Nodes -> EndState]]
               /\ \A k, j \in Nodes :
                     /\ k # n \/ j # s => end'[k][j] = end[k][j]
                     /\ end'[k][j].bp = end[k][j].bp
                     /\ end'[k][j].contractBalance = end[k][j].contractBalance
                     /\ end'[k][j].pending \subseteq end[k][j].pending
                     /\ end'[k][j].pending \cup end'[k][j].unclaimed
                           = end[k][j].pending \cup end[k][j].unclaimed
<1> DEFINE s == LockSender[l]
           e == RegisterSecret(end[n][s], l)
<1>1. s \in Nodes /\ l \in end[n][s].pending
  BY LocksAssumption DEF Learned
<1>2. end[n][s] \in EndState
  BY <1>1, EndFields
<1>3. /\ e \in EndState /\ e.bp = end[n][s].bp /\ e.contractBalance = end[n][s].contractBalance
  BY <1>2, SecretOperators
<1>4. /\ e.pending \subseteq end[n][s].pending
      /\ e.pending \cup e.unclaimed = end[n][s].pending \cup end[n][s].unclaimed
  BY <1>1, <1>2 DEF RegisterSecret, EndState
<1>5. end' = [end EXCEPT ![n][s] = e]
  BY DEF Learned
<1> HIDE DEF e
<1>6. /\ end'[n][s] = e
      /\ \A k, j \in Nodes : k # n \/ j # s => end'[k][j] = end[k][j]
      /\ end' \in [Nodes -> [Nodes -> EndState]]
  BY <1>1, <1>3, <1>5, OneEnd
<1>7. \A k, j \in Nodes :
         /\ end'[k][j].bp = end[k][j].bp
         /\ end'[k][j].contractBalance = end[k][j].contractBalance
         /\ end'[k][j].pending \subseteq end[k][j].pending
         /\ end'[k][j].pending \cup end'[k][j].unclaimed
               = end[k][j].pending \cup end[k][j].unclaimed
  BY <1>3, <1>4, <1>6
<1> QED BY <1>1, <1>6, <1>7 DEF e

\* The event a node handles.
LEMMA EventTypes ==
    ASSUME TypeInv, NEW i \in 1..Len(log)
    PROVE  /\ log[i] \in Events
           /\ log[i].type = "ChannelWithdraw" => log[i].balance \in [Nodes -> Nat]
           /\ log[i].type = "ChannelNewDeposit" =>
                 log[i].participant \in Nodes /\ log[i].total \in Nat
<1>1. log[i] \in Events
  BY DEF TypeInv
<1> QED BY <1>1 DEF Events

\* The event after the ones a node has seen.
LEMMA NextEvent ==
    ASSUME TypeInv, NEW n \in Nodes, NEW type, HandleEvent(n, type)
    PROVE  /\ seen[n] \in Nat /\ seen[n] + 1 \in 1..Len(log)
           /\ log[seen[n] + 1].type = type /\ state[n] # "Settled"
           /\ seen'[n] = seen[n] + 1
           /\ \A k \in Nodes : k # n => seen'[k] = seen[k]
           /\ seen' \in [Nodes -> 0..Len(log)]
           /\ UNCHANGED <<deposit, responses, pendingDeposit, calls, contract, log, paid>>
<1>1. seen \in [Nodes -> 0..Len(log)] /\ Len(log) \in Nat
  BY DEF TypeInv
<1>2. seen[n] \in Nat /\ seen[n] + 1 \in 1..Len(log) /\ seen[n] + 1 \in 0..Len(log)
  BY <1>1 DEF HandleEvent
<1> QED BY <1>1, <1>2 DEF HandleEvent, chainVars

\* handleBalanceEvent.
LEMMA BalanceEventFacts ==
    ASSUME TypeInv, NEW n \in Nodes, handleBalanceEvent(n)
    PROVE  LET ev == log[seen[n] + 1]  m == ev.participant
           IN  /\ m \in Nodes /\ ev.total \in Nat
               /\ end' \in [Nodes -> [Nodes -> EndState]]
               /\ end'[n][m].contractBalance = ev.total
               /\ \A k, j \in Nodes :
                     /\ k # n \/ j # m => end'[k][j] = end[k][j]
                     /\ end'[k][j].bp = end[k][j].bp
                     /\ end'[k][j].tree = end[k][j].tree
                     /\ end'[k][j].pending = end[k][j].pending
                     /\ end'[k][j].unclaimed = end[k][j].unclaimed
                     /\ end'[k][j].onChain = end[k][j].onChain
               /\ UNCHANGED <<queue, state, epoch>>
<1> DEFINE ev == log[seen[n] + 1]
           m == ev.participant
           e == UpdateContractBalance(end[n][m], ev.total)
<1>1. HandleEvent(n, "ChannelNewDeposit")
  BY DEF handleBalanceEvent
<1>2. m \in Nodes /\ ev.total \in Nat
  BY <1>1, NextEvent, EventTypes
<1>3. end[n][m] \in EndState
  BY <1>2, EndFields
<1>4. /\ e \in EndState /\ e.contractBalance = ev.total /\ e.bp = end[n][m].bp
      /\ e.tree = end[n][m].tree /\ e.pending = end[n][m].pending
      /\ e.unclaimed = end[n][m].unclaimed /\ e.onChain = end[n][m].onChain
  BY <1>2, <1>3, BalanceOperator
<1>5. end' = [end EXCEPT ![n][m] = e] /\ UNCHANGED <<queue, state, epoch>>
  BY DEF handleBalanceEvent
<1> HIDE DEF e, m, ev
<1>6. /\ end'[n][m] = e
      /\ \A k, j \in Nodes : k # n \/ j # m => end'[k][j] = end[k][j]
      /\ end' \in [Nodes -> [Nodes -> EndState]]
  BY <1>2, <1>4, <1>5, OneEnd
<1>7. ASSUME NEW k \in Nodes, NEW j \in Nodes PROVE
         /\ end'[k][j].bp = end[k][j].bp
         /\ end'[k][j].tree = end[k][j].tree
         /\ end'[k][j].pending = end[k][j].pending
         /\ end'[k][j].unclaimed = end[k][j].unclaimed
         /\ end'[k][j].onChain = end[k][j].onChain
  <2>1. CASE k = n /\ j = m
    BY <1>4, <1>6, <2>1
  <2>2. CASE k # n \/ j # m
    BY <1>6, <2>2
  <2> QED BY <2>1, <2>2
<1>8. /\ m \in Nodes /\ ev.total \in Nat
      /\ end' \in [Nodes -> [Nodes -> EndState]]
      /\ end'[n][m].contractBalance = ev.total
      /\ UNCHANGED <<queue, state, epoch>>
  BY <1>2, <1>4, <1>5, <1>6
<1> QED BY <1>6, <1>7, <1>8 DEF m, ev

\* handleWithdraw.
LEMMA WithdrawEventFacts ==
    ASSUME TypeInv, NEW n \in Nodes, handleWithdraw(n)
    PROVE  LET ev == log[seen[n] + 1]
           IN  /\ ev.balance \in [Nodes -> Nat]
               /\ end' \in [Nodes -> [Nodes -> EndState]]
               /\ \A j \in Nodes :
                     /\ end'[n][j] = NewChannelEndState(ev.balance[j])
                     /\ end'[n][j].bp = NoProof
                     /\ end'[n][j].contractBalance = ev.balance[j]
                     /\ end'[n][j].pending = {} /\ end'[n][j].unclaimed = {}
               /\ \A k, j \in Nodes : k # n => end'[k][j] = end[k][j]
               /\ epoch'[n] = epoch[n] + 1 /\ epoch' \in [Nodes -> Nat]
               /\ \A k \in Nodes : k # n =>
                     epoch'[k] = epoch[k] /\ state'[k] = state[k] /\ queue'[k] = queue[k]
               /\ state'[n] = "Opened" /\ queue'[n] = <<>>
               /\ state' = [state EXCEPT ![n] = "Opened"]
               /\ queue' = [queue EXCEPT ![n] = <<>>]
<1> DEFINE ev == log[seen[n] + 1]
<1>1. HandleEvent(n, "ChannelWithdraw")
  BY DEF handleWithdraw
<1>2. ev.balance \in [Nodes -> Nat]
  BY <1>1, NextEvent, EventTypes
<1>3. ASSUME NEW x \in Nat
      PROVE  /\ NewChannelEndState(x) \in EndState
             /\ NewChannelEndState(x).bp = NoProof /\ NewChannelEndState(x).contractBalance = x
             /\ NewChannelEndState(x).pending = {} /\ NewChannelEndState(x).unclaimed = {}
  BY DEF NewChannelEndState, NoProof, EndState, BalanceProofState
<1>4. end' = [end EXCEPT ![n] = [m \in Nodes |-> NewChannelEndState(ev.balance[m])]]
  BY DEF handleWithdraw
<1> HIDE DEF ev
<1>5. \A j \in Nodes : NewChannelEndState(ev.balance[j]) \in EndState
  BY <1>2, <1>3
<1>6. /\ end' \in [Nodes -> [Nodes -> EndState]]
      /\ \A j \in Nodes : end'[n][j] = NewChannelEndState(ev.balance[j])
      /\ \A k, j \in Nodes : k # n => end'[k][j] = end[k][j]
  BY <1>4, <1>5 DEF TypeInv
<1>7. \A j \in Nodes :
         /\ end'[n][j].bp = NoProof
         /\ end'[n][j].contractBalance = ev.balance[j]
         /\ end'[n][j].pending = {} /\ end'[n][j].unclaimed = {}
  BY <1>2, <1>3, <1>6
<1>8. /\ epoch' = [epoch EXCEPT ![n] = @ + 1]
      /\ state' = [state EXCEPT ![n] = "Opened"]
      /\ queue' = [queue EXCEPT ![n] = <<>>]
  BY DEF handleWithdraw
<1>9. /\ epoch'[n] = epoch[n] + 1 /\ epoch' \in [Nodes -> Nat]
      /\ state'[n] = "Opened" /\ queue'[n] = <<>>
      /\ \A k \in Nodes : k # n =>
            epoch'[k] = epoch[k] /\ state'[k] = state[k] /\ queue'[k] = queue[k]
  BY <1>8 DEF TypeInv
<1> QED BY <1>2, <1>6, <1>7, <1>8, <1>9 DEF ev

(***************************************************************************)
(* Type correctness.                                                       *)
(***************************************************************************)

\* A balance that is covered is not negative.
LEMMA BalancesAreNumbers ==
    ASSUME TypeInv, FundedHere, NEW n \in Nodes, NEW m \in Nodes
    PROVE  BalanceOf(n, m) \in Nat
<1> DEFINE e == end[n][m]
           f == end[n][Other(m)]
<1>1. Other(m) \in Nodes
  BY OtherNode
<1>2. /\ e.bp \in BalanceProofState /\ e.contractBalance \in Nat
      /\ e.bp.transferAmount \in Nat /\ e.bp.locksRoot \in SUBSET Locks
      /\ f.bp.transferAmount \in Nat
  BY <1>1, EndFields
<1>3. SumOver(LockAmount, e.bp.locksRoot) \in Nat
  BY <1>2, LockSums
<1>4. e.bp.transferAmount + SumOver(LockAmount, e.bp.locksRoot)
         <= e.contractBalance + f.bp.transferAmount
  BY DEF FundedHere, Owed
<1>5. BalanceOf(n, m) = e.contractBalance - e.bp.transferAmount + f.bp.transferAmount
  BY DEF BalanceOf, Balance
<1> HIDE DEF e, f
<1> QED BY <1>2, <1>3, <1>4, <1>5

\* What a mined agreement leaves, and the event it emits.
LEMMA MinedFacts ==
    ASSUME TypeInv, NEW call \in Agreements, withDraw(call) \/ cooperativeSettle(call)
    PROVE  /\ call \in calls /\ calls' = calls \ {call}
           /\ contract.state = "open" /\ call.epoch = contract.epoch
           /\ call.who \in Nodes /\ Value(call) \in Nat /\ Value(call) <= Total
           /\ call.counted \in Nat
           /\ deposit' \in [Nodes -> Nat] /\ paid' \in [Nodes -> Nat]
           /\ UNCHANGED <<end, queue, state, epoch, responses, pendingDeposit, seen>>
           /\ withDraw(call) =>
                 /\ call.amount \in Nat /\ call.amount <= Value(call)
                 /\ deposit'[call.who] = Value(call) - call.amount
                 /\ deposit'[Other(call.who)] = Total - Value(call)
                 /\ paid'[call.who] = paid[call.who] + call.amount
                 /\ paid'[Other(call.who)] = paid[Other(call.who)]
                 /\ contract' = [contract EXCEPT !.epoch = @ + 1]
                 /\ log' = Append(log, [type |-> "ChannelWithdraw", balance |-> deposit'])
           /\ cooperativeSettle(call) =>
                 /\ paid'[call.who] = paid[call.who] + Value(call)
                 /\ paid'[Other(call.who)] = paid[Other(call.who)] + (Total - Value(call))
                 /\ deposit' = deposit
                 /\ contract' = [contract EXCEPT !.state = "gone"]
                 /\ log' = Append(log, [type |-> "ChannelCooperativeSettled"])
<1>1. Mined(call)
  BY DEF withDraw, cooperativeSettle
<1>2. /\ call \in calls /\ calls' = calls \ {call}
      /\ contract.state = "open" /\ call.epoch = contract.epoch
      /\ UNCHANGED <<end, queue, state, epoch, responses, pendingDeposit, seen>>
  BY <1>1 DEF Mined
<1>3. /\ call.who \in Nodes /\ call.counted \in Nat
      /\ A \in Nodes /\ B \in Nodes /\ Other(call.who) \in Nodes /\ Other(call.who) # call.who
  <2>1. call.who \in Nodes /\ call.counted \in Nat
    BY DEF Agreements
  <2> QED BY <2>1, OtherNode DEF Nodes
<1>4. /\ deposit \in [Nodes -> Nat] /\ paid \in [Nodes -> Nat] /\ Total \in Nat
      /\ deposit[A] \in Nat /\ deposit[B] \in Nat
  <2>1. deposit \in [Nodes -> Nat] /\ paid \in [Nodes -> Nat]
    BY DEF TypeInv
  <2>2. deposit[A] \in Nat /\ deposit[B] \in Nat
    BY <1>3, <2>1
  <2> QED BY <2>1, <2>2 DEF Total
<1>5. CASE withDraw(call)
  <2>1. /\ call.type = "withDraw" /\ call.balance \in Nat /\ call.amount \in Nat
        /\ call.amount <= call.balance /\ call.balance <= Total
        /\ Value(call) = call.balance
    BY <1>5 DEF withDraw, Agreements, Value
  <2>2. call.balance - call.amount \in Nat /\ Total - call.balance \in Nat
    BY <1>4, <2>1
  <2>3. /\ deposit' = [m \in Nodes |-> IF m = call.who THEN call.balance - call.amount
                                       ELSE Total - call.balance]
        /\ paid' = [paid EXCEPT ![call.who] = @ + call.amount]
        /\ contract' = [contract EXCEPT !.epoch = @ + 1]
        /\ log' = Append(log, [type |-> "ChannelWithdraw", balance |-> deposit'])
    BY <1>5 DEF withDraw, Emit
  <2>4. deposit' \in [Nodes -> Nat]
    BY <2>2, <2>3
  <2>5. /\ deposit'[call.who] = call.balance - call.amount
        /\ deposit'[Other(call.who)] = Total - call.balance
    BY <1>3, <2>3
  <2>6. paid[call.who] + call.amount \in Nat
    BY <1>3, <1>4, <2>1
  <2>7. /\ paid' \in [Nodes -> Nat] /\ paid'[call.who] = paid[call.who] + call.amount
        /\ paid'[Other(call.who)] = paid[Other(call.who)]
    BY <1>3, <1>4, <2>3, <2>6
  <2>8. ~ cooperativeSettle(call)
    BY <2>1 DEF cooperativeSettle
  <2> QED BY <1>2, <1>3, <2>1, <2>3, <2>4, <2>5, <2>7, <2>8
<1>6. CASE cooperativeSettle(call)
  <2>1. /\ call.type = "cooperativeSettle" /\ call.balances \in [Nodes -> Nat]
        /\ call.balances[A] + call.balances[B] = Total
        /\ Value(call) = call.balances[call.who]
    BY <1>6 DEF cooperativeSettle, Agreements, Value
  <2>2. /\ call.balances[A] \in Nat /\ call.balances[B] \in Nat
        /\ call.who = A \/ call.who = B
    BY <1>3, <2>1 DEF Nodes
  <2>3. /\ call.balances[Other(call.who)] = Total - Value(call)
        /\ Value(call) \in Nat /\ Value(call) <= Total
    <3>1. CASE call.who = A
      BY <1>4, <2>1, <2>2, <3>1 DEF Other
    <3>2. CASE call.who = B
      BY <1>4, <2>1, <2>2, <3>2, NodesAssumption DEF Other
    <3> QED BY <2>2, <3>1, <3>2
  <2>4. /\ paid' = [m \in Nodes |-> paid[m] + call.balances[m]]
        /\ deposit' = deposit
        /\ contract' = [contract EXCEPT !.state = "gone"]
        /\ log' = Append(log, [type |-> "ChannelCooperativeSettled"])
    BY <1>6 DEF cooperativeSettle, Emit
  <2>5. \A m \in Nodes : paid[m] + call.balances[m] \in Nat
    BY <1>4, <2>1
  <2>6. /\ paid' \in [Nodes -> Nat]
        /\ paid'[call.who] = paid[call.who] + Value(call)
        /\ paid'[Other(call.who)] = paid[Other(call.who)] + (Total - Value(call))
    BY <1>3, <2>1, <2>3, <2>4, <2>5
  <2>7. ~ withDraw(call)
    BY <2>1 DEF withDraw
  <2> QED BY <1>2, <1>3, <1>4, <2>3, <2>4, <2>6, <2>7
<1> QED BY <1>5, <1>6

\* An event is added to the log.
LEMMA Logged ==
    ASSUME TypeInv, NEW ev \in Events, log' = Append(log, ev)
    PROVE  /\ log' \in Seq(Events) /\ Len(log) \in Nat /\ Len(log') = Len(log) + 1
           /\ log'[Len(log) + 1] = ev
           /\ \A i \in 1..Len(log) : log'[i] = log[i]
           /\ seen' = seen => seen' \in [Nodes -> 0..Len(log')]
<1>1. log \in Seq(Events)
  BY DEF TypeInv
<1>2. /\ log' \in Seq(Events) /\ Len(log) \in Nat /\ Len(log') = Len(log) + 1
      /\ log'[Len(log) + 1] = ev /\ \A i \in 1..Len(log) : log'[i] = log[i]
  BY <1>1
<1>3. seen' = seen => seen' \in [Nodes -> 0..Len(log')]
  <2>1. 0..Len(log) \subseteq 0..Len(log')
    BY <1>2
  <2> QED BY <2>1 DEF TypeInv
<1> QED BY <1>2, <1>3

\* The events the contract emits.
LEMMA EmittedEvents ==
    /\ [type |-> "ChannelCooperativeSettled"] \in Events
    /\ [type |-> "ChannelClosed"] \in Events
    /\ \A d \in [Nodes -> Nat] : [type |-> "ChannelWithdraw", balance |-> d] \in Events
    /\ \A n \in Nodes, t \in Nat :
          [type |-> "ChannelNewDeposit", participant |-> n, total |-> t] \in Events
BY DEF Events

\* depositInternal.
LEMMA DepositFacts ==
    ASSUME TypeInv, NEW n \in Nodes, depositInternal(n)
    PROVE  /\ contract.state = "open" /\ deposit' \in [Nodes -> Nat]
           /\ deposit'[n] = deposit[n] + 1
           /\ \A m \in Nodes : m # n => deposit'[m] = deposit[m]
           /\ pendingDeposit' \in [Nodes -> BOOLEAN]
           /\ log' = Append(log, [type |-> "ChannelNewDeposit", participant |-> n,
                                  total |-> deposit[n] + 1])
           /\ UNCHANGED <<end, queue, state, epoch, agreeVars, contract, seen, paid>>
BY DEF depositInternal, Emit, TypeInv, agreeVars

\* Every step keeps the types.
LEMMA NegTypeStep ==
    ASSUME TypeInv, FundedHere, [NegNext]_allVars
    PROVE  TypeInv'
<1>1. ASSUME NEW n \in Nodes, NEW msg \in EnvelopMessage, Sent(n, msg)
      PROVE  TypeInv'
  BY <1>1, SentFacts DEF TypeInv, Sent, agreeVars, ledgerVars
<1>2. ASSUME NEW n \in Nodes, NEW msg \in EnvelopMessage, Got(n, msg)
      PROVE  TypeInv'
  BY <1>2, GotFacts DEF TypeInv, Got, agreeVars, ledgerVars
<1>3. ASSUME NEW n \in Nodes, NEW l \in Locks, Learned(n, l)
      PROVE  TypeInv'
  BY <1>3, LearnedFacts DEF TypeInv, Learned, agreeVars, ledgerVars
<1>4. ASSUME NEW n \in Nodes, NEW s \in QuietStates, Prepared(n, s)
      PROVE  TypeInv'
  BY <1>4 DEF TypeInv, Prepared, agreeVars, ledgerVars
<1>5. ASSUME NEW n \in Nodes, NEW s \in AskedStates, NEW req, Requested(n, req, s)
      PROVE  TypeInv'
  <2>1. \A m \in Nodes : BalanceOf(n, m) \in Nat
    BY BalancesAreNumbers
  <2>2. req \in Requests
    <3>1. [m \in Nodes |-> BalanceOf(n, m)] \in [Nodes -> Nat]
      BY <2>1
    <3>2. CASE /\ req.balance = BalanceOf(n, n) /\ req.amount \in Nat
               /\ req = [type |-> "WithdrawRequest", balance |-> req.balance,
                         amount |-> req.amount]
      <4>1. req.balance \in Nat
        BY <2>1, <3>2
      <4> QED BY <3>2, <4>1 DEF Requests
    <3>3. CASE req = [type |-> "SettleRequest", balances |-> [m \in Nodes |-> BalanceOf(n, m)]]
      BY <3>1, <3>3 DEF Requests
    <3> QED BY <1>5, <3>2, <3>3 DEF Requested
  <2>3. Append(queue[n], req) \in Seq(EnvelopMessage \cup Requests)
    <3>1. queue[n] \in Seq(EnvelopMessage \cup Requests) /\ req \in EnvelopMessage \cup Requests
      BY <2>2 DEF TypeInv
    <3> QED BY <3>1
  <2>4. queue' \in [Nodes -> Seq(EnvelopMessage \cup Requests)]
    BY <1>5, <2>3 DEF Requested, TypeInv
  <2> QED BY <1>5, <2>4 DEF TypeInv, Requested, agreeVars, ledgerVars
<1>6. ASSUME NEW n \in Nodes, NEW req \in Requests, NEW s \in PartnerStates,
             NEW r \in Responses, Granted(n, req, s, r)
      PROVE  TypeInv'
  <2>1. Other(n) \in Nodes
    BY OtherNode
  <2>2. queue[Other(n)] # <<>> /\ queue[Other(n)] \in Seq(EnvelopMessage \cup Requests)
    BY <1>6, <2>1 DEF Granted, TypeInv
  <2>3. Tail(queue[Other(n)]) \in Seq(EnvelopMessage \cup Requests)
    BY <2>2
  <2>4. queue' \in [Nodes -> Seq(EnvelopMessage \cup Requests)]
    BY <1>6, <2>1, <2>3 DEF Granted, TypeInv
  <2>5. responses' \in [Nodes -> SUBSET Responses]
    BY <1>6 DEF Granted, TypeInv
  <2> QED BY <1>6, <2>4, <2>5 DEF TypeInv, Granted, ledgerVars
<1>7. ASSUME NEW n \in Nodes, NEW r \in Responses, NEW call \in Agreements, Called(n, r, call)
      PROVE  TypeInv'
  <2>1. responses' \in [Nodes -> SUBSET Responses]
    BY <1>7, OtherNode DEF Called, TypeInv
  <2> QED BY <1>7, <2>1 DEF TypeInv, Called, ledgerVars
<1>8. ASSUME NEW n \in Nodes, NEW call \in Closes, Closed(n, call)
      PROVE  TypeInv'
  BY <1>8 DEF TypeInv, Closed, ledgerVars, EndStates
<1>9. ASSUME NEW call \in Agreements, withDraw(call) \/ cooperativeSettle(call)
      PROVE  TypeInv'
  <2>1. /\ deposit' \in [Nodes -> Nat] /\ paid' \in [Nodes -> Nat]
        /\ calls' \subseteq calls
        /\ UNCHANGED <<end, queue, state, epoch, responses, pendingDeposit, seen>>
        /\ \/ /\ contract' = [contract EXCEPT !.epoch = @ + 1]
              /\ log' = Append(log, [type |-> "ChannelWithdraw", balance |-> deposit'])
           \/ /\ contract' = [contract EXCEPT !.state = "gone"]
              /\ log' = Append(log, [type |-> "ChannelCooperativeSettled"])
    BY <1>9, MinedFacts
  <2>2. contract' \in [state : {"open", "closed", "gone"}, epoch : Nat]
    <3>1. contract \in [state : {"open", "closed", "gone"}, epoch : Nat]
      BY DEF TypeInv
    <3>2. contract.epoch + 1 \in Nat
      BY <3>1
    <3> QED BY <2>1, <3>1, <3>2
  <2>3. \E ev \in Events : log' = Append(log, ev)
    BY <2>1, EmittedEvents
  <2>4. log' \in Seq(Events) /\ seen' \in [Nodes -> 0..Len(log')]
    BY <2>1, <2>3, Logged
  <2> QED BY <2>1, <2>2, <2>4 DEF TypeInv
<1>10. ASSUME NEW call \in Closes, prepareSettle(call)
      PROVE  TypeInv'
  <2>1. \E ev \in Events : log' = Append(log, ev)
    BY <1>10, EmittedEvents DEF prepareSettle, Emit
  <2>2. log' \in Seq(Events) /\ seen' \in [Nodes -> 0..Len(log')]
    BY <1>10, <2>1, Logged DEF prepareSettle
  <2> QED BY <1>10, <2>2 DEF TypeInv, prepareSettle, vars
<1>11. ASSUME NEW n \in Nodes, depositInternal(n)
      PROVE  TypeInv'
  <2>1. deposit[n] + 1 \in Nat
    BY DEF TypeInv
  <2>2. \E ev \in Events : log' = Append(log, ev)
    BY <1>11, <2>1, DepositFacts, EmittedEvents
  <2>3. log' \in Seq(Events) /\ seen' \in [Nodes -> 0..Len(log')]
    BY <1>11, <2>2, Logged, DepositFacts
  <2> QED BY <1>11, <2>3, DepositFacts DEF TypeInv, agreeVars
<1>12. ASSUME NEW n \in Nodes, handleBalanceEvent(n)
      PROVE  TypeInv'
  <2>1. end' \in [Nodes -> [Nodes -> EndState]] /\ UNCHANGED <<queue, state, epoch>>
    BY <1>12, BalanceEventFacts
  <2>2. HandleEvent(n, "ChannelNewDeposit")
    BY <1>12 DEF handleBalanceEvent
  <2> QED BY <2>1, <2>2, NextEvent DEF TypeInv
<1>13. ASSUME NEW n \in Nodes, handleWithdraw(n)
      PROVE  TypeInv'
  <2>1. HandleEvent(n, "ChannelWithdraw")
    BY <1>13 DEF handleWithdraw
  <2>2. <<>> \in Seq(EnvelopMessage \cup Requests)
    OBVIOUS
  <2>3. /\ queue' \in [Nodes -> Seq(EnvelopMessage \cup Requests)]
        /\ end' \in [Nodes -> [Nodes -> EndState]] /\ epoch' \in [Nodes -> Nat]
        /\ state' = [state EXCEPT ![n] = "Opened"]
    <3>1. /\ queue' = [queue EXCEPT ![n] = <<>>]
          /\ end' \in [Nodes -> [Nodes -> EndState]] /\ epoch' \in [Nodes -> Nat]
          /\ state' = [state EXCEPT ![n] = "Opened"]
      BY <1>13, WithdrawEventFacts
    <3> QED BY <2>2, <3>1 DEF TypeInv
  <2> QED BY <2>1, <2>3, NextEvent DEF TypeInv, QuietStates
<1>14. ASSUME NEW n \in Nodes, handleCooperativeSettled(n) \/ handleClosed(n)
      PROVE  TypeInv'
  <2>1. <<>> \in Seq(EnvelopMessage \cup Requests)
    OBVIOUS
  <2>2. queue' \in [Nodes -> Seq(EnvelopMessage \cup Requests)]
    BY <1>14, <2>1 DEF TypeInv, handleCooperativeSettled, handleClosed
  <2> QED BY <1>14, <2>2, NextEvent
          DEF TypeInv, handleCooperativeSettled, handleClosed, EndStates
<1>15. CASE Idle
  BY <1>15 DEF TypeInv, Idle, agreeVars, ledgerVars
<1> QED BY <1>1, <1>2, <1>3, <1>4, <1>5, <1>6, <1>7, <1>8, <1>9, <1>10, <1>11, <1>12,
           <1>13, <1>14, <1>15, NegStepKinds

(***************************************************************************)
(* The epochs.                                                             *)
(***************************************************************************)

\* Counting the withdrawals in a log.
LEMMA WithdrawalCount ==
    ASSUME NEW q, NEW k \in Nat
    PROVE  /\ Withdrawals(q, k) \in Nat
           /\ q[k + 1].type = "ChannelWithdraw" =>
                 Withdrawals(q, k + 1) = Withdrawals(q, k) + 1
           /\ q[k + 1].type # "ChannelWithdraw" =>
                 Withdrawals(q, k + 1) = Withdrawals(q, k)
<1> DEFINE S == {i \in 1..k : q[i].type = "ChannelWithdraw"}
           T == {i \in 1..(k + 1) : q[i].type = "ChannelWithdraw"}
<1>1. IsFiniteSet(S) /\ Cardinality(S) \in Nat
  <2>1. IsFiniteSet(1..k)
    BY FS_Interval
  <2>2. S \subseteq 1..k
    OBVIOUS
  <2> QED BY <2>1, <2>2, FS_Subset, FS_CardinalityType
<1>2. \A i : i \in 1..(k + 1) <=> i \in 1..k \/ i = k + 1
  OBVIOUS
<1>3. k + 1 \notin S
  OBVIOUS
<1>4. ASSUME q[k + 1].type = "ChannelWithdraw" PROVE T = S \cup {k + 1}
  BY <1>2, <1>4
<1>5. ASSUME q[k + 1].type # "ChannelWithdraw" PROVE T = S
  BY <1>2, <1>5
<1>6. Withdrawals(q, k) = Cardinality(S) /\ Withdrawals(q, k + 1) = Cardinality(T)
  BY DEF Withdrawals
<1> HIDE DEF S, T
<1>7. Cardinality(S \cup {k + 1}) = Cardinality(S) + 1
  BY <1>1, <1>3, FS_AddElement
<1> QED BY <1>1, <1>4, <1>5, <1>6, <1>7

\* The count grows along the log.
LEMMA WithdrawalsGrow ==
    ASSUME NEW q, NEW i \in Nat, NEW j \in Nat, i <= j
    PROVE  Withdrawals(q, i) <= Withdrawals(q, j)
<1> DEFINE S == {k \in 1..i : q[k].type = "ChannelWithdraw"}
           T == {k \in 1..j : q[k].type = "ChannelWithdraw"}
<1>1. IsFiniteSet(T)
  <2>1. IsFiniteSet(1..j) /\ T \subseteq 1..j
    BY FS_Interval
  <2> QED BY <2>1, FS_Subset
<1>2. S \subseteq T
  OBVIOUS
<1>3. Withdrawals(q, i) = Cardinality(S) /\ Withdrawals(q, j) = Cardinality(T)
  BY DEF Withdrawals
<1> HIDE DEF S, T
<1> QED BY <1>1, <1>2, <1>3, FS_Subset

\* The count of what was there is the same when the log grows.
LEMMA WithdrawalsKept ==
    ASSUME TypeInv, NEW ev \in Events, log' = Append(log, ev), NEW k \in 0..Len(log)
    PROVE  Withdrawals(log', k) = Withdrawals(log, k)
<1>1. \A i \in 1..Len(log) : log'[i] = log[i]
  BY Logged
<1>2. Len(log) \in Nat
  BY DEF TypeInv
<1>3. \A i \in 1..k : i \in 1..Len(log)
  BY <1>2
<1>4. {i \in 1..k : log'[i].type = "ChannelWithdraw"}
         = {i \in 1..k : log[i].type = "ChannelWithdraw"}
  BY <1>1, <1>3
<1> QED BY <1>4 DEF Withdrawals

\* The counts the invariant speaks of.
LEMMA EpochFacts ==
    ASSUME TypeInv, EpochInv, NEW n \in Nodes
    PROVE  /\ Len(log) \in Nat /\ seen[n] \in Nat /\ seen[n] <= Len(log)
           /\ contract.epoch \in Nat /\ epoch[n] \in Nat
           /\ epoch[n] <= contract.epoch
           /\ \A i \in 1..Len(log) :
                 Withdrawals(log, i) \in Nat /\ Withdrawals(log, i) <= contract.epoch
<1>1. Len(log) \in Nat /\ seen[n] \in 0..Len(log)
  BY DEF TypeInv
<1>2. seen[n] \in Nat /\ seen[n] <= Len(log)
  BY <1>1
<1>3. contract.epoch \in Nat /\ epoch[n] \in Nat
  BY DEF TypeInv
<1>4. epoch[n] <= contract.epoch
  BY <1>1, <1>2, WithdrawalsGrow DEF EpochInv
<1>5. ASSUME NEW i \in 1..Len(log)
      PROVE  Withdrawals(log, i) \in Nat /\ Withdrawals(log, i) <= contract.epoch
  <2>1. i \in Nat /\ i <= Len(log)
    BY <1>1
  <2> QED BY <1>1, <2>1, WithdrawalCount, WithdrawalsGrow DEF EpochInv
<1> QED BY <1>1, <1>2, <1>3, <1>4, <1>5

\* Most steps leave the log and what a node has seen of it alone.
LEMMA ChainSteps ==
    ASSUME TypeInv, [NegNext]_allVars
    PROVE  \/ \E call \in Agreements : withDraw(call) \/ cooperativeSettle(call)
           \/ \E call \in Closes : prepareSettle(call)
           \/ \E n \in Nodes : depositInternal(n)
           \/ \E n \in Nodes :
                 \/ handleBalanceEvent(n) \/ handleWithdraw(n)
                 \/ handleCooperativeSettled(n) \/ handleClosed(n)
           \/ /\ UNCHANGED <<deposit, contract, log, paid, epoch, seen>>
              /\ \A n, m \in Nodes : end'[n][m].contractBalance = end[n][m].contractBalance
<1> DEFINE Kept ==
        /\ UNCHANGED <<deposit, contract, log, paid, epoch, seen>>
        /\ \A n, m \in Nodes : end'[n][m].contractBalance = end[n][m].contractBalance
<1>1. ASSUME NEW n \in Nodes, NEW msg \in EnvelopMessage, Sent(n, msg)
      PROVE  Kept
  <2>1. /\ end'[n][n].contractBalance = end[n][n].contractBalance
        /\ \A k, m \in Nodes : k # n \/ m # n => end'[k][m] = end[k][m]
    BY <1>1, SentFacts
  <2>2. \A k, m \in Nodes : end'[k][m].contractBalance = end[k][m].contractBalance
    BY <2>1
  <2> QED BY <1>1, <2>2 DEF Sent, ledgerVars
<1>2. ASSUME NEW n \in Nodes, NEW msg \in EnvelopMessage, Got(n, msg)
      PROVE  Kept
  <2> DEFINE o == Other(n)
  <2>1. /\ end'[n][o].contractBalance = end[n][o].contractBalance
        /\ \A k, m \in Nodes : k # n \/ m # o => end'[k][m] = end[k][m]
    BY <1>2, GotFacts
  <2> HIDE DEF o
  <2>2. \A k, m \in Nodes : end'[k][m].contractBalance = end[k][m].contractBalance
    BY <2>1
  <2> QED BY <1>2, <2>2 DEF Got, ledgerVars
<1>3. ASSUME NEW n \in Nodes, NEW l \in Locks, Learned(n, l)
      PROVE  Kept
  <2>1. \A k, m \in Nodes : end'[k][m].contractBalance = end[k][m].contractBalance
    BY <1>3, LearnedFacts
  <2> QED BY <1>3, <2>1 DEF Learned, ledgerVars
<1>4. ASSUME UNCHANGED <<end, epoch, seen, ledgerVars>>
      PROVE  Kept
  BY <1>4 DEF ledgerVars
<1> HIDE DEF Kept
<1>5. \/ Kept
      \/ \E call \in Agreements : withDraw(call) \/ cooperativeSettle(call)
      \/ \E call \in Closes : prepareSettle(call)
      \/ \E n \in Nodes : depositInternal(n)
      \/ \E n \in Nodes :
            \/ handleBalanceEvent(n) \/ handleWithdraw(n)
            \/ handleCooperativeSettled(n) \/ handleClosed(n)
  BY <1>1, <1>2, <1>3, <1>4, NegStepKinds
     DEF Prepared, Requested, Granted, Called, Closed, Idle
<1> QED BY <1>5 DEF Kept

\* A step of the contract adds an event to the log and is seen by nobody.
LEMMA ContractLogs ==
    ASSUME TypeInv,
           \/ \E call \in Agreements : withDraw(call) \/ cooperativeSettle(call)
           \/ \E call \in Closes : prepareSettle(call)
           \/ \E n \in Nodes : depositInternal(n)
    PROVE  \E ev \in Events :
               /\ log' = Append(log, ev)
               /\ UNCHANGED <<end, epoch, seen>>
               /\ IF ev.type = "ChannelWithdraw"
                  THEN contract'.epoch = contract.epoch + 1 /\ deposit' = ev.balance
                  ELSE /\ contract'.epoch = contract.epoch
                       /\ \A m \in Nodes : deposit'[m] >= deposit[m]
                       /\ \A m \in Nodes : About(ev, m) => ev.total = deposit'[m]
<1>1. contract \in [state : {"open", "closed", "gone"}, epoch : Nat]
      /\ deposit \in [Nodes -> Nat]
  BY DEF TypeInv
<1>2. ASSUME NEW call \in Agreements, withDraw(call) \/ cooperativeSettle(call)
      PROVE  \/ /\ contract' = [contract EXCEPT !.epoch = @ + 1]
                /\ log' = Append(log, [type |-> "ChannelWithdraw", balance |-> deposit'])
                /\ deposit' \in [Nodes -> Nat]
                /\ UNCHANGED <<end, epoch, seen>>
             \/ /\ contract' = [contract EXCEPT !.state = "gone"]
                /\ log' = Append(log, [type |-> "ChannelCooperativeSettled"])
                /\ UNCHANGED <<end, epoch, seen, deposit>>
  BY <1>2, MinedFacts
<1>3. ASSUME NEW d \in [Nodes -> Nat], contract' = [contract EXCEPT !.epoch = @ + 1],
             log' = Append(log, [type |-> "ChannelWithdraw", balance |-> d]),
             deposit' = d, UNCHANGED <<end, epoch, seen>>
      PROVE  \E ev \in Events :
               /\ log' = Append(log, ev)
               /\ UNCHANGED <<end, epoch, seen>>
               /\ ev.type = "ChannelWithdraw"
               /\ contract'.epoch = contract.epoch + 1 /\ deposit' = ev.balance
  <2> DEFINE ev == [type |-> "ChannelWithdraw", balance |-> d]
  <2>1. ev \in Events /\ ev.type = "ChannelWithdraw" /\ ev.balance = d
    BY EmittedEvents
  <2>2. contract'.epoch = contract.epoch + 1
    BY <1>1, <1>3
  <2>3. log' = Append(log, ev)
    BY <1>3
  <2> HIDE DEF ev
  <2> QED BY <1>3, <2>1, <2>2, <2>3
<1>4. ASSUME NEW t \in {"ChannelCooperativeSettled", "ChannelClosed"},
             \E s : contract' = [contract EXCEPT !.state = s],
             log' = Append(log, [type |-> t]), UNCHANGED <<end, epoch, seen, deposit>>
      PROVE  \E ev \in Events :
               /\ log' = Append(log, ev)
               /\ UNCHANGED <<end, epoch, seen>>
               /\ ev.type # "ChannelWithdraw" /\ contract'.epoch = contract.epoch
               /\ \A m \in Nodes : deposit'[m] >= deposit[m] /\ ~ About(ev, m)
  <2> DEFINE ev == [type |-> t]
  <2>1. ev \in Events /\ ev.type = t
    BY EmittedEvents
  <2>2. contract'.epoch = contract.epoch
    BY <1>1, <1>4
  <2>3. \A m \in Nodes : deposit'[m] >= deposit[m]
    BY <1>1, <1>4
  <2>4. log' = Append(log, ev)
    BY <1>4
  <2> HIDE DEF ev
  <2>5. ev.type # "ChannelWithdraw" /\ \A m \in Nodes : ~ About(ev, m)
    BY <2>1 DEF About
  <2> QED BY <1>4, <2>1, <2>2, <2>3, <2>4, <2>5
<1>5. ASSUME NEW n \in Nodes, depositInternal(n)
      PROVE  \E ev \in Events :
               /\ log' = Append(log, ev)
               /\ UNCHANGED <<end, epoch, seen>>
               /\ ev.type # "ChannelWithdraw" /\ contract'.epoch = contract.epoch
               /\ \A m \in Nodes : deposit'[m] >= deposit[m]
               /\ \A m \in Nodes : About(ev, m) => ev.total = deposit'[m]
  <2> DEFINE ev == [type |-> "ChannelNewDeposit", participant |-> n, total |-> deposit[n] + 1]
  <2>1. deposit[n] \in Nat /\ deposit[n] + 1 \in Nat
    BY <1>1
  <2>2. ev \in Events /\ ev.type = "ChannelNewDeposit" /\ ev.participant = n
        /\ ev.total = deposit[n] + 1
    BY <2>1, EmittedEvents
  <2>3. /\ deposit'[n] = deposit[n] + 1 /\ \A m \in Nodes : m # n => deposit'[m] = deposit[m]
        /\ log' = Append(log, ev) /\ UNCHANGED <<end, epoch, seen, contract>>
    BY <1>5, DepositFacts
  <2> HIDE DEF ev
  <2>4. \A m \in Nodes : deposit'[m] >= deposit[m]
    BY <1>1, <2>1, <2>3
  <2>5. \A m \in Nodes : About(ev, m) => ev.total = deposit'[m]
    BY <2>2, <2>3 DEF About
  <2> QED BY <2>2, <2>3, <2>4, <2>5
<1>6. ASSUME NEW call \in Closes, prepareSettle(call)
      PROVE  \E ev \in Events :
               /\ log' = Append(log, ev)
               /\ UNCHANGED <<end, epoch, seen>>
               /\ ev.type # "ChannelWithdraw" /\ contract'.epoch = contract.epoch
               /\ \A m \in Nodes : deposit'[m] >= deposit[m] /\ ~ About(ev, m)
  BY <1>4, <1>6 DEF prepareSettle, Emit, vars
<1>7. ASSUME NEW call \in Agreements, withDraw(call) \/ cooperativeSettle(call)
      PROVE  \E ev \in Events :
               /\ log' = Append(log, ev)
               /\ UNCHANGED <<end, epoch, seen>>
               /\ \/ /\ ev.type = "ChannelWithdraw"
                     /\ contract'.epoch = contract.epoch + 1 /\ deposit' = ev.balance
                  \/ /\ ev.type # "ChannelWithdraw" /\ contract'.epoch = contract.epoch
                     /\ \A m \in Nodes : deposit'[m] >= deposit[m] /\ ~ About(ev, m)
  <2>1. CASE /\ contract' = [contract EXCEPT !.epoch = @ + 1]
             /\ log' = Append(log, [type |-> "ChannelWithdraw", balance |-> deposit'])
             /\ deposit' \in [Nodes -> Nat]
             /\ UNCHANGED <<end, epoch, seen>>
    BY <1>3, <2>1
  <2>2. CASE /\ contract' = [contract EXCEPT !.state = "gone"]
             /\ log' = Append(log, [type |-> "ChannelCooperativeSettled"])
             /\ UNCHANGED <<end, epoch, seen, deposit>>
    BY <1>4, <2>2
  <2> QED BY <1>2, <1>7, <2>1, <2>2
<1> QED BY <1>5, <1>6, <1>7

\* A node that handles an event knows one more of them.
LEMMA HandledEpoch ==
    ASSUME TypeInv, EpochInv, NEW n \in Nodes, NEW type, HandleEvent(n, type)
    PROVE  /\ type = "ChannelWithdraw" => Withdrawals(log, seen[n] + 1) = epoch[n] + 1
           /\ type # "ChannelWithdraw" => Withdrawals(log, seen[n] + 1) = epoch[n]
BY NextEvent, WithdrawalCount DEF EpochInv

\* Every step keeps the count of the epochs.
LEMMA EpochStep ==
    ASSUME TypeInv, EpochInv, [NegNext]_allVars
    PROVE  EpochInv'
<1>1. ASSUME \/ \E call \in Agreements : withDraw(call) \/ cooperativeSettle(call)
             \/ \E call \in Closes : prepareSettle(call)
             \/ \E n \in Nodes : depositInternal(n)
      PROVE  EpochInv'
  <2>1. PICK ev \in Events :
               /\ log' = Append(log, ev)
               /\ UNCHANGED <<end, epoch, seen>>
               /\ IF ev.type = "ChannelWithdraw"
                  THEN contract'.epoch = contract.epoch + 1 /\ deposit' = ev.balance
                  ELSE /\ contract'.epoch = contract.epoch
                       /\ \A m \in Nodes : deposit'[m] >= deposit[m]
                       /\ \A m \in Nodes : About(ev, m) => ev.total = deposit'[m]
    BY <1>1, ContractLogs
  <2>2. /\ Len(log) \in Nat /\ Len(log') = Len(log) + 1 /\ log'[Len(log) + 1] = ev
        /\ \A k \in 0..Len(log) : Withdrawals(log', k) = Withdrawals(log, k)
    BY <2>1, Logged, WithdrawalsKept
  <2>3. Withdrawals(log', Len(log)) = contract.epoch
    BY <2>2 DEF EpochInv
  <2>4. Withdrawals(log', Len(log) + 1) =
           IF ev.type = "ChannelWithdraw" THEN contract.epoch + 1 ELSE contract.epoch
    BY <2>2, <2>3, WithdrawalCount
  <2>5. contract'.epoch = Withdrawals(log', Len(log'))
    BY <2>1, <2>2, <2>4
  <2>6. \A n \in Nodes : epoch'[n] = Withdrawals(log', seen'[n])
    BY <2>1, <2>2 DEF EpochInv, TypeInv
  <2> QED BY <2>5, <2>6 DEF EpochInv
<1>2. ASSUME NEW n \in Nodes, handleWithdraw(n)
      PROVE  EpochInv'
  <2>1. HandleEvent(n, "ChannelWithdraw")
    BY <1>2 DEF handleWithdraw
  <2>2. /\ epoch'[n] = epoch[n] + 1 /\ \A k \in Nodes : k # n => epoch'[k] = epoch[k]
    BY <1>2, WithdrawEventFacts
  <2>3. /\ seen'[n] = seen[n] + 1 /\ \A k \in Nodes : k # n => seen'[k] = seen[k]
        /\ UNCHANGED <<contract, log>>
    BY <2>1, NextEvent
  <2>4. Withdrawals(log, seen[n] + 1) = epoch[n] + 1
    BY <2>1, HandledEpoch
  <2>5. \A k \in Nodes : epoch'[k] = Withdrawals(log', seen'[k])
    BY <2>2, <2>3, <2>4 DEF EpochInv
  <2> QED BY <2>3, <2>5 DEF EpochInv
<1>3. ASSUME NEW n \in Nodes, NEW type, type # "ChannelWithdraw", HandleEvent(n, type),
             UNCHANGED epoch
      PROVE  EpochInv'
  <2>1. /\ seen'[n] = seen[n] + 1 /\ \A k \in Nodes : k # n => seen'[k] = seen[k]
        /\ UNCHANGED <<contract, log>>
    BY <1>3, NextEvent
  <2>2. Withdrawals(log, seen[n] + 1) = epoch[n]
    BY <1>3, HandledEpoch
  <2>3. \A k \in Nodes : epoch'[k] = Withdrawals(log', seen'[k])
    BY <1>3, <2>1, <2>2 DEF EpochInv
  <2> QED BY <2>1, <2>3 DEF EpochInv
<1>4. ASSUME UNCHANGED <<contract, log, epoch, seen>>
      PROVE  EpochInv'
  BY <1>4 DEF EpochInv
<1> QED BY <1>1, <1>2, <1>3, <1>4, ChainSteps
        DEF handleBalanceEvent, handleCooperativeSettled, handleClosed

\* The value an event announces is a number.
LEMMA ToldIsNumber ==
    ASSUME TypeInv, NEW i \in 1..Len(log), NEW m \in Nodes, About(log[i], m)
    PROVE  Told(log[i], m) \in Nat
BY EventTypes DEF About, Told

\* The contract keeps what is known of the deposits.
LEMMA ContractKeepsDeposits ==
    ASSUME TypeInv, TypeInv', EpochInv, DepositInv,
           \/ \E call \in Agreements : withDraw(call) \/ cooperativeSettle(call)
           \/ \E call \in Closes : prepareSettle(call)
           \/ \E n \in Nodes : depositInternal(n)
    PROVE  DepositInv'
<1>1. PICK ev \in Events :
             /\ log' = Append(log, ev)
             /\ UNCHANGED <<end, epoch, seen>>
             /\ IF ev.type = "ChannelWithdraw"
                THEN contract'.epoch = contract.epoch + 1 /\ deposit' = ev.balance
                ELSE /\ contract'.epoch = contract.epoch
                     /\ \A m \in Nodes : deposit'[m] >= deposit[m]
                     /\ \A m \in Nodes : About(ev, m) => ev.total = deposit'[m]
  BY ContractLogs
<1> DEFINE len == Len(log)
           W(k) == Withdrawals(log', k)
<1>2. /\ len \in Nat /\ Len(log') = len + 1 /\ log'[len + 1] = ev
      /\ \A i \in 1..len : log'[i] = log[i]
      /\ \A k \in 0..len : W(k) = Withdrawals(log, k)
  BY <1>1, Logged, WithdrawalsKept
<1>3. W(len + 1) = contract'.epoch
  <2>1. Withdrawals(log', Len(log)) = contract.epoch
    BY <1>2 DEF EpochInv
  <2>2. Withdrawals(log', Len(log) + 1) =
           IF ev.type = "ChannelWithdraw" THEN contract.epoch + 1 ELSE contract.epoch
    BY <1>2, <2>1, WithdrawalCount
  <2> QED BY <1>1, <2>2
<1>4. /\ contract.epoch \in Nat /\ contract'.epoch \in Nat
      /\ contract'.epoch = contract.epoch + 1 \/ contract'.epoch = contract.epoch
      /\ \A i \in 1..len : W(i) \in Nat /\ W(i) <= contract.epoch
      /\ \A n \in Nodes : epoch[n] \in Nat /\ epoch[n] <= contract.epoch
  <2>1. A \in Nodes
    BY DEF Nodes
  <2>2. \A i \in 1..len : i \in 0..len
    BY <1>2
  <2>3. contract.epoch \in Nat /\ contract'.epoch \in Nat
    BY DEF TypeInv
  <2>4. contract'.epoch = contract.epoch + 1 \/ contract'.epoch = contract.epoch
    BY <1>1
  <2>5. \A i \in 1..len : Withdrawals(log, i) \in Nat /\ Withdrawals(log, i) <= contract.epoch
    BY <2>1, EpochFacts
  <2>6. \A i \in 1..len : W(i) \in Nat /\ W(i) <= contract.epoch
    BY <1>2, <2>2, <2>5
  <2>7. \A n \in Nodes : epoch[n] \in Nat /\ epoch[n] <= contract.epoch
    BY EpochFacts
  <2> QED BY <2>3, <2>4, <2>6, <2>7
<1>5. \A i \in 1..Len(log') : i \in 1..len \/ i = len + 1
  BY <1>2
<1> HIDE DEF W, len
<1>6. ASSUME NEW m \in Nodes, About(ev, m) PROVE Told(ev, m) = deposit'[m]
  BY <1>1, <1>6 DEF Told
<1>7. \A m \in Nodes : deposit[m] \in Nat /\ deposit'[m] \in Nat
  BY DEF TypeInv
<1>8. ASSUME NEW m \in Nodes, contract'.epoch = contract.epoch
      PROVE  deposit'[m] >= deposit[m]
  <2>1. ev.type # "ChannelWithdraw"
    BY <1>1, <1>4, <1>8
  <2> QED BY <1>1, <2>1
<1>9. ASSUME NEW m \in Nodes, NEW i \in 1..len, About(log[i], m)
      PROVE  /\ Told(log[i], m) \in Nat
             /\ Withdrawals(log, i) = W(i)
             /\ Withdrawals(log, i) = contract.epoch => Told(log[i], m) <= deposit[m]
  <2>1. i \in 1..Len(log) /\ i \in 0..len
    BY <1>2 DEF len
  <2> QED BY <1>2, <1>9, <2>1, ToldIsNumber DEF DepositInv
<1>10. ASSUME NEW m \in Nodes, NEW i \in 1..Len(log'), About(log'[i], m),
              W(i) = contract'.epoch
       PROVE  Told(log'[i], m) <= deposit'[m]
  <2>1. CASE i = len + 1
    BY <1>2, <1>6, <1>7, <1>10, <2>1
  <2>2. CASE i \in 1..len
    <3>1. contract'.epoch = contract.epoch /\ log'[i] = log[i]
      BY <1>2, <1>4, <1>10, <2>2
    <3>2. Told(log[i], m) \in Nat /\ Told(log[i], m) <= deposit[m]
      BY <1>9, <1>10, <2>2, <3>1
    <3> QED BY <1>7, <1>8, <3>1, <3>2
  <2> QED BY <1>5, <2>1, <2>2
<1>11. ASSUME NEW m \in Nodes, NEW i \in 1..Len(log'), NEW j \in 1..Len(log'), i < j,
              About(log'[i], m), About(log'[j], m), W(i) = W(j)
       PROVE  Told(log'[i], m) <= Told(log'[j], m)
  <2>1. i \in 1..len
    BY <1>2, <1>11
  <2>2. CASE j \in 1..len
    <3>1. /\ log'[i] = log[i] /\ log'[j] = log[j] /\ i \in 1..Len(log) /\ j \in 1..Len(log)
      BY <1>2, <2>1, <2>2 DEF len
    <3>2. Withdrawals(log, i) = Withdrawals(log, j)
      BY <1>9, <1>11, <2>1, <2>2, <3>1
    <3> QED BY <1>11, <3>1, <3>2 DEF DepositInv
  <2>3. CASE j = len + 1
    <3>1. Told(log'[j], m) = deposit'[m]
      BY <1>2, <1>6, <1>11, <2>3
    <3>2. W(i) = contract'.epoch
      BY <1>3, <1>11, <2>3
    <3> QED BY <1>10, <1>11, <3>1, <3>2
  <2> QED BY <1>5, <2>2, <2>3
<1>12. ASSUME NEW m \in Nodes, NEW n \in Nodes, epoch'[n] = contract'.epoch
       PROVE  end'[n][m].contractBalance <= deposit'[m]
  <2>1. epoch[n] = contract.epoch /\ contract'.epoch = contract.epoch
    BY <1>1, <1>4, <1>12
  <2>2. end[n][m].contractBalance <= deposit[m] /\ end[n][m].contractBalance \in Nat
    BY <2>1, EndFields DEF DepositInv
  <2> QED BY <1>1, <1>7, <1>8, <2>1, <2>2
<1>13. ASSUME NEW m \in Nodes, NEW n \in Nodes, NEW j \in 1..Len(log'), j > seen'[n],
              About(log'[j], m), W(j) = epoch'[n]
       PROVE  end'[n][m].contractBalance <= Told(log'[j], m)
  <2>1. CASE j \in 1..len
    <3>1. log'[j] = log[j] /\ j \in 1..Len(log) /\ j > seen[n]
      BY <1>1, <1>2, <1>13, <2>1 DEF len
    <3>2. Withdrawals(log, j) = epoch[n]
      BY <1>1, <1>9, <1>13, <2>1, <3>1
    <3>3. end[n][m].contractBalance <= Told(log[j], m)
      BY <1>13, <3>1, <3>2 DEF DepositInv
    <3> QED BY <1>1, <3>1, <3>3
  <2>2. CASE j = len + 1
    <3>1. Told(log'[j], m) = deposit'[m]
      BY <1>2, <1>6, <1>13, <2>2
    <3>2. epoch'[n] = contract'.epoch
      BY <1>3, <1>13, <2>2
    <3> QED BY <1>12, <3>1, <3>2
  <2> QED BY <1>5, <2>1, <2>2
<1> QED BY <1>10, <1>11, <1>12, <1>13 DEF DepositInv, W

\* A node that follows the chain keeps what is known of the deposits.
LEMMA FollowKeepsDeposits ==
    ASSUME TypeInv, EpochInv, DepositInv, NEW n \in Nodes,
           \/ handleBalanceEvent(n) \/ handleWithdraw(n)
           \/ handleCooperativeSettled(n) \/ handleClosed(n)
    PROVE  DepositInv'
<1> DEFINE k == seen[n] + 1
           ev == log[k]
<1>1. PICK type \in {"ChannelNewDeposit", "ChannelWithdraw", "ChannelCooperativeSettled",
                     "ChannelClosed"} : HandleEvent(n, type)
  BY DEF handleBalanceEvent, handleWithdraw, handleCooperativeSettled, handleClosed
<1>2. /\ seen[n] \in Nat /\ k \in 1..Len(log) /\ ev.type = type
      /\ seen'[n] = k /\ \A j \in Nodes : j # n => seen'[j] = seen[j]
      /\ UNCHANGED <<deposit, contract, log>>
  BY <1>1, NextEvent
<1>3. /\ \A j, m \in Nodes : j # n => end'[j][m] = end[j][m]
      /\ \A j \in Nodes : j # n => epoch'[j] = epoch[j]
  BY BalanceEventFacts, WithdrawEventFacts
     DEF handleCooperativeSettled, handleClosed
<1>4. Withdrawals(log, k) = epoch'[n]
  <2>1. CASE handleWithdraw(n)
    <3>1. HandleEvent(n, "ChannelWithdraw") /\ epoch'[n] = epoch[n] + 1
      BY <2>1, WithdrawEventFacts DEF handleWithdraw
    <3> QED BY <3>1, HandledEpoch
  <2>2. CASE handleBalanceEvent(n) \/ handleCooperativeSettled(n) \/ handleClosed(n)
    <3>1. epoch' = epoch
      BY <2>2 DEF handleBalanceEvent, handleCooperativeSettled, handleClosed
    <3>2. \E t : t # "ChannelWithdraw" /\ HandleEvent(n, t)
      <4>1. CASE handleBalanceEvent(n)
        BY <4>1 DEF handleBalanceEvent
      <4>2. CASE handleCooperativeSettled(n)
        BY <4>2 DEF handleCooperativeSettled
      <4>3. CASE handleClosed(n)
        BY <4>3 DEF handleClosed
      <4> QED BY <2>2, <4>1, <4>2, <4>3
    <3> QED BY <3>1, <3>2, HandledEpoch
  <2> QED BY <2>1, <2>2
<1>5. ASSUME NEW m \in Nodes
      PROVE  \/ /\ About(ev, m) /\ end'[n][m].contractBalance = Told(ev, m)
             \/ /\ end'[n][m].contractBalance = end[n][m].contractBalance
                /\ epoch'[n] = epoch[n]
  <2>1. CASE handleWithdraw(n)
    <3>1. HandleEvent(n, "ChannelWithdraw")
      BY <2>1 DEF handleWithdraw
    <3>2. ev.type = "ChannelWithdraw"
      BY <3>1, NextEvent
    <3>3. end'[n][m].contractBalance = ev.balance[m]
      BY <2>1, WithdrawEventFacts
    <3> QED BY <3>2, <3>3 DEF About, Told
  <2>2. CASE handleBalanceEvent(n)
    <3>1. HandleEvent(n, "ChannelNewDeposit") /\ epoch' = epoch
      BY <2>2 DEF handleBalanceEvent
    <3>2. ev.type = "ChannelNewDeposit"
      BY <3>1, NextEvent
    <3>3. /\ end'[n][ev.participant].contractBalance = ev.total
          /\ m # ev.participant => end'[n][m] = end[n][m]
      BY <2>2, BalanceEventFacts
    <3> QED BY <3>1, <3>2, <3>3 DEF About, Told
  <2>3. CASE handleCooperativeSettled(n) \/ handleClosed(n)
    BY <2>3 DEF handleCooperativeSettled, handleClosed
  <2> QED BY <2>1, <2>2, <2>3
<1> HIDE DEF ev, k
<1>6. ASSUME NEW m \in Nodes, NEW j \in Nodes, epoch'[j] = contract'.epoch
      PROVE  end'[j][m].contractBalance <= deposit'[m]
  <2>1. CASE j # n
    BY <1>2, <1>3, <1>6, <2>1 DEF DepositInv
  <2>2. CASE j = n
    <3>1. CASE About(ev, m) /\ end'[n][m].contractBalance = Told(ev, m)
      BY <1>2, <1>4, <1>6, <2>2, <3>1 DEF DepositInv, ev
    <3>2. CASE /\ end'[n][m].contractBalance = end[n][m].contractBalance
               /\ epoch'[n] = epoch[n]
      BY <1>2, <1>6, <2>2, <3>2 DEF DepositInv
    <3> QED BY <1>5, <3>1, <3>2
  <2> QED BY <2>1, <2>2
<1>7. ASSUME NEW m \in Nodes, NEW j \in Nodes, NEW i \in 1..Len(log), i > seen'[j],
             About(log[i], m), Withdrawals(log, i) = epoch'[j]
      PROVE  end'[j][m].contractBalance <= Told(log[i], m)
  <2>1. CASE j # n
    BY <1>2, <1>3, <1>7, <2>1 DEF DepositInv
  <2>2. CASE j = n
    <3>1. k < i /\ seen[n] < i
      BY <1>2, <1>7, <2>2 DEF k
    <3>2. CASE About(ev, m) /\ end'[n][m].contractBalance = Told(ev, m)
      BY <1>2, <1>4, <1>7, <2>2, <3>1, <3>2 DEF DepositInv, ev
    <3>3. CASE /\ end'[n][m].contractBalance = end[n][m].contractBalance
               /\ epoch'[n] = epoch[n]
      <4>1. i > seen[n]
        BY <1>2, <3>1
      <4> QED BY <1>7, <2>2, <3>3, <4>1 DEF DepositInv
    <3> QED BY <1>5, <3>2, <3>3
  <2> QED BY <2>1, <2>2
<1> QED BY <1>2, <1>6, <1>7 DEF DepositInv

\* Every step keeps what is known of the deposits.
LEMMA DepositStep ==
    ASSUME TypeInv, TypeInv', EpochInv, DepositInv, [NegNext]_allVars
    PROVE  DepositInv'
<1>1. ASSUME UNCHANGED <<deposit, contract, log, paid, epoch, seen>>,
             \A n, m \in Nodes : end'[n][m].contractBalance = end[n][m].contractBalance
      PROVE  DepositInv'
  BY <1>1 DEF DepositInv
<1> QED BY <1>1, ContractKeepsDeposits, FollowKeepsDeposits, ChainSteps

(***************************************************************************)
(* The books.                                                              *)
(***************************************************************************)

\* Most steps leave the EndStates alone.
LEMMA BookSteps ==
    ASSUME TypeInv, [NegNext]_allVars
    PROVE  \/ \E n \in Nodes, msg \in EnvelopMessage : Sent(n, msg) \/ Got(n, msg)
           \/ \E n \in Nodes, l \in Locks : Learned(n, l)
           \/ \E n \in Nodes : handleBalanceEvent(n) \/ handleWithdraw(n)
           \/ UNCHANGED end
<1>1. ASSUME NEW call \in Agreements, withDraw(call) \/ cooperativeSettle(call)
      PROVE  UNCHANGED end
  BY <1>1, MinedFacts
<1> QED BY <1>1, NegStepKinds
        DEF Prepared, Requested, Granted, Called, Closed, Idle, prepareSettle, vars,
            depositInternal, handleCooperativeSettled, handleClosed

\* Every step keeps the books of every EndState.
LEMMA NegBooksStep ==
    ASSUME TypeInv, BooksMatchProof, [NegNext]_allVars
    PROVE  BooksMatchProof'
<1>1. ASSUME NEW n \in Nodes, NEW msg \in EnvelopMessage, Sent(n, msg)
      PROVE  BooksMatchProof'
  <2>1. end[n][n] \in EndState /\ Books(end[n][n])
        /\ RegisterTransferOK(end[n][n], end[n][Other(n)], msg, blk[n])
    BY <1>1, EndFields DEF BooksMatchProof, Sent
  <2>2. Books(RegisterTransfer(end[n][n], msg))
    BY <2>1, RegisterTransferBooks
  <2>3. /\ end'[n][n] = RegisterTransfer(end[n][n], msg)
        /\ \A k, j \in Nodes : k # n \/ j # n => end'[k][j] = end[k][j]
    BY <1>1, SentFacts
  <2> QED BY <2>2, <2>3 DEF BooksMatchProof
<1>2. ASSUME NEW n \in Nodes, NEW msg \in EnvelopMessage, Got(n, msg)
      PROVE  BooksMatchProof'
  <2> DEFINE o == Other(n)
  <2>1. o \in Nodes
    BY OtherNode
  <2>2. end[n][o] \in EndState /\ Books(end[n][o])
        /\ RegisterTransferOK(end[n][o], end[n][n], msg, blk[n])
    BY <1>2, <2>1, EndFields DEF BooksMatchProof, Got
  <2>3. Books(RegisterTransfer(end[n][o], msg))
    BY <2>2, RegisterTransferBooks
  <2>4. /\ end'[n][o] = RegisterTransfer(end[n][o], msg)
        /\ \A k, j \in Nodes : k # n \/ j # o => end'[k][j] = end[k][j]
    BY <1>2, GotFacts
  <2> HIDE DEF o
  <2> QED BY <2>1, <2>3, <2>4 DEF BooksMatchProof
<1>3. ASSUME NEW n \in Nodes, NEW l \in Locks, Learned(n, l)
      PROVE  BooksMatchProof'
  <2> DEFINE s == LockSender[l]
  <2>1. /\ s \in Nodes /\ end'[n][s] = RegisterSecret(end[n][s], l)
        /\ \A k, j \in Nodes : k # n \/ j # s => end'[k][j] = end[k][j]
    BY <1>3, LearnedFacts
  <2>2. end[n][s] \in EndState /\ Books(end[n][s])
    BY <2>1, EndFields DEF BooksMatchProof
  <2>3. Books(RegisterSecret(end[n][s], l))
    BY <2>2, SecretBooks
  <2> HIDE DEF s
  <2> QED BY <2>1, <2>3 DEF BooksMatchProof
<1>4. ASSUME NEW n \in Nodes, handleBalanceEvent(n)
      PROVE  BooksMatchProof'
  <2>1. \A k, j \in Nodes :
           /\ end'[k][j].bp = end[k][j].bp /\ end'[k][j].tree = end[k][j].tree
           /\ end'[k][j].pending = end[k][j].pending
           /\ end'[k][j].unclaimed = end[k][j].unclaimed
           /\ end'[k][j].onChain = end[k][j].onChain
    BY <1>4, BalanceEventFacts
  <2> QED BY <2>1 DEF BooksMatchProof, Books
<1>5. ASSUME NEW n \in Nodes, handleWithdraw(n)
      PROVE  BooksMatchProof'
  <2>1. /\ \A j \in Nodes : \E x : end'[n][j] = NewChannelEndState(x)
        /\ \A k, j \in Nodes : k # n => end'[k][j] = end[k][j]
    BY <1>5, WithdrawEventFacts
  <2>2. \A x : Books(NewChannelEndState(x))
    BY DEF Books, NewChannelEndState
  <2>3. \A k, j \in Nodes : Books(end'[k][j])
    BY <2>1, <2>2 DEF BooksMatchProof
  <2> QED BY <2>3 DEF BooksMatchProof
<1>6. ASSUME UNCHANGED end
      PROVE  BooksMatchProof'
  BY <1>6 DEF BooksMatchProof
<1> QED BY <1>1, <1>2, <1>3, <1>4, <1>5, <1>6, BookSteps

(***************************************************************************)
(* The queues.                                                             *)
(***************************************************************************)
Messages == EnvelopMessage \cup Requests

\* A request is not a balance proof.
LEMMA RequestsApart ==
    ASSUME NEW msg
    PROVE  ~ (msg \in EnvelopMessage /\ msg \in Requests)
BY DEF EnvelopMessage, Requests, LockMessages

\* The places of a queue that grows.
LEMMA Appended ==
    ASSUME NEW q \in Seq(Messages), NEW msg \in Messages
    PROVE  LET r == Append(q, msg)
           IN  /\ Len(q) \in Nat /\ Len(r) = Len(q) + 1 /\ r[Len(q) + 1] = msg
               /\ \A i \in 1..Len(q) : r[i] = q[i]
OBVIOUS

\* The places of a queue that loses its head.
LEMMA Shortened ==
    ASSUME NEW q \in Seq(Messages), q # <<>>
    PROVE  LET r == Tail(q)
           IN  /\ Len(q) \in Nat \ {0} /\ Len(r) = Len(q) - 1 /\ Head(q) = q[1]
               /\ q[1] \in Messages /\ r \in Seq(Messages)
               /\ \A i \in 1..Len(r) : r[i] = q[i + 1]
<1>1. Len(q) \in Nat \ {0} /\ Head(q) = q[1] /\ q[1] \in Messages
  OBVIOUS
<1>2. Len(Tail(q)) = Len(q) - 1 /\ Tail(q) \in Seq(Messages)
  OBVIOUS
<1>3. \A i \in 1..Len(Tail(q)) : Tail(q)[i] = q[i + 1]
  OBVIOUS
<1> QED BY <1>1, <1>2, <1>3

\* An empty queue leads from a balance proof to itself.
LEMMA TrailEmpty ==
    ASSUME NEW bp \in BalanceProofState
    PROVE  Trail(<<>>, bp, bp)
<1> DEFINE p == [i \in 0..0 |-> bp]
<1>1. Len(<<>>) = 0 /\ p \in [0..0 -> BalanceProofState] /\ p[0] = bp
  OBVIOUS
<1>2. bp.transferAmount \in Nat
  BY DEF BalanceProofState
<1>3. \A i \in 0..0 : p[i] = bp
  OBVIOUS
<1> HIDE DEF p
<1>4. Leads(<<>>, bp, bp, p)
  BY <1>1, <1>2, <1>3 DEF Leads
<1> QED BY <1>1, <1>4 DEF Trail

\* A message, one or the other, at the end of a queue: what it takes to extend
\* the trail to the balance proof new.
LEMMA TrailAppend ==
    ASSUME NEW q \in Seq(Messages), NEW msg \in Messages,
           NEW theirs, NEW mine \in BalanceProofState, NEW new \in BalanceProofState,
           Trail(q, theirs, mine),
           mine.transferAmount <= new.transferAmount,
           \/ msg \in Requests /\ new = mine
           \/ /\ msg \in EnvelopMessage /\ new = msg.bp
              /\ msg.bp.nonce = mine.nonce + 1 /\ Follows(mine, msg)
    PROVE  Trail(Append(q, msg), theirs, new)
<1> DEFINE r == Append(q, msg)
           n == Len(q)
<1>1. PICK p \in [0..n -> BalanceProofState] : Leads(q, theirs, mine, p)
  BY DEF Trail
<1> DEFINE s == [i \in 0..(n + 1) |-> IF i \in 0..n THEN p[i] ELSE new]
<1>2. /\ n \in Nat /\ Len(r) = n + 1 /\ r[n + 1] = msg /\ \A i \in 1..n : r[i] = q[i]
  BY Appended
<1>3. /\ s \in [0..(n + 1) -> BalanceProofState] /\ s[n + 1] = new
      /\ \A i \in 0..n : s[i] = p[i]
  <2>1. \A i \in 0..n : i \in 0..(n + 1) /\ p[i] \in BalanceProofState
    BY <1>2
  <2>2. n + 1 \in 0..(n + 1) /\ n + 1 \notin 0..n
    BY <1>2
  <2> QED BY <2>1, <2>2
<1> HIDE DEF s, r, n
<1>4. s[0] = theirs
  <2>1. 0 \in 0..n
    BY <1>2
  <2> QED BY <1>1, <1>3, <2>1 DEF Leads
<1>5. s[n] = mine /\ (n + 1) - 1 = n
  <2>1. n \in 0..n
    BY <1>2
  <2> QED BY <1>1, <1>2, <1>3, <2>1 DEF Leads, n
<1>6. ASSUME NEW i \in 1..(n + 1)
      PROVE  \/ r[i] \in Requests /\ s[i] = s[i - 1]
             \/ /\ r[i] \in EnvelopMessage /\ s[i] = r[i].bp
                /\ r[i].bp.nonce = s[i - 1].nonce + 1
                /\ Follows(s[i - 1], r[i])
  <2>1. CASE i \in 1..n
    <3>1. i \in 0..n /\ i - 1 \in 0..n
      BY <1>2, <2>1
    <3>2. r[i] = q[i] /\ s[i] = p[i] /\ s[i - 1] = p[i - 1]
      BY <1>2, <1>3, <2>1, <3>1
    <3> QED BY <1>1, <2>1, <3>2 DEF Leads, n
  <2>2. CASE i = n + 1
    BY <1>2, <1>3, <1>5, <2>2
  <2> QED BY <1>2, <2>1, <2>2
<1>7. ASSUME NEW i \in 0..(n + 1) PROVE s[i].transferAmount <= new.transferAmount
  <2>1. new.transferAmount \in Nat /\ mine.transferAmount \in Nat
    BY DEF BalanceProofState
  <2>2. CASE i \in 0..n
    <3>1. s[i] = p[i] /\ p[i].transferAmount \in Nat
          /\ p[i].transferAmount <= mine.transferAmount
      BY <1>1, <1>3, <2>2 DEF Leads, BalanceProofState, n
    <3> QED BY <2>1, <3>1
  <2>3. CASE i = n + 1
    BY <1>3, <2>1, <2>3
  <2> QED BY <1>2, <2>2, <2>3
<1>8. Leads(r, theirs, new, s) /\ s \in [0..Len(r) -> BalanceProofState]
  BY <1>2, <1>3, <1>4, <1>6, <1>7 DEF Leads
<1>9. Trail(r, theirs, new)
  BY <1>8 DEF Trail
<1> QED BY <1>9 DEF r

\* The head of a queue follows from where the trail begins, and the rest of the
\* queue leads on from it.
LEMMA TrailTail ==
    ASSUME NEW q \in Seq(Messages), q # <<>>, NEW theirs, NEW mine, Trail(q, theirs, mine)
    PROVE  /\ Head(q) \in Requests => Trail(Tail(q), theirs, mine)
           /\ Head(q) \in EnvelopMessage =>
                 /\ Trail(Tail(q), Head(q).bp, mine)
                 /\ Head(q).bp.nonce = theirs.nonce + 1
                 /\ Follows(theirs, Head(q))
                 /\ Head(q).bp.transferAmount <= mine.transferAmount
<1> DEFINE r == Tail(q)
           n == Len(q)
<1>1. PICK p \in [0..n -> BalanceProofState] : Leads(q, theirs, mine, p)
  BY DEF Trail
<1> DEFINE s == [i \in 0..(n - 1) |-> p[i + 1]]
<1>2. /\ n \in Nat \ {0} /\ Len(r) = n - 1 /\ Head(q) = q[1]
      /\ \A i \in 1..(n - 1) : r[i] = q[i + 1]
  BY Shortened
<1>3. /\ \A i \in 0..(n - 1) : s[i] = p[i + 1] /\ i + 1 \in 0..n
      /\ s \in [0..(n - 1) -> BalanceProofState]
  <2>1. \A i \in 0..(n - 1) : i + 1 \in 0..n
    BY <1>2
  <2> QED BY <2>1
<1> HIDE DEF s, r, n
<1>4. /\ 1 \in 1..n /\ 1 \in 0..n /\ 0 \in 0..(n - 1) /\ 0 + 1 = 1 /\ 1 - 1 = 0
      /\ n - 1 \in 0..(n - 1) /\ (n - 1) + 1 = n
  BY <1>2
<1>5. s[0] = p[1] /\ s[n - 1] = mine
  BY <1>1, <1>3, <1>4 DEF Leads, n
<1>6. ASSUME NEW i \in 1..(n - 1)
      PROVE  \/ r[i] \in Requests /\ s[i] = s[i - 1]
             \/ /\ r[i] \in EnvelopMessage /\ s[i] = r[i].bp
                /\ r[i].bp.nonce = s[i - 1].nonce + 1
                /\ Follows(s[i - 1], r[i])
  <2>1. i \in 0..(n - 1) /\ i - 1 \in 0..(n - 1) /\ i + 1 \in 1..n
        /\ (i - 1) + 1 = i /\ (i + 1) - 1 = i
    BY <1>2
  <2>2. r[i] = q[i + 1] /\ s[i] = p[i + 1] /\ s[i - 1] = p[(i + 1) - 1]
    BY <1>2, <1>3, <2>1
  <2> QED BY <1>1, <2>1, <2>2 DEF Leads, n
<1>7. \A i \in 0..(n - 1) : s[i].transferAmount <= mine.transferAmount
  BY <1>1, <1>3 DEF Leads, n
<1>8. ASSUME NEW bp, s[0] = bp PROVE Trail(r, bp, mine)
  <2>1. Leads(r, bp, mine, s) /\ s \in [0..Len(r) -> BalanceProofState]
    BY <1>2, <1>3, <1>5, <1>6, <1>7, <1>8 DEF Leads
  <2> QED BY <2>1 DEF Trail
<1>9. /\ p[0] = theirs /\ p[1].transferAmount <= mine.transferAmount
      /\ \/ q[1] \in Requests /\ p[1] = p[0]
         \/ /\ q[1] \in EnvelopMessage /\ p[1] = q[1].bp
            /\ q[1].bp.nonce = p[0].nonce + 1 /\ Follows(p[0], q[1])
  <2>1. /\ p[0] = theirs /\ p[1].transferAmount <= mine.transferAmount
        /\ \/ q[1] \in Requests /\ p[1] = p[1 - 1]
           \/ /\ q[1] \in EnvelopMessage /\ p[1] = q[1].bp
              /\ q[1].bp.nonce = p[1 - 1].nonce + 1 /\ Follows(p[1 - 1], q[1])
    BY <1>1, <1>4 DEF Leads, n
  <2> QED BY <1>4, <2>1
<1>10. ASSUME q[1] \in Requests PROVE Trail(r, theirs, mine)
  BY <1>5, <1>8, <1>9, <1>10, RequestsApart
<1>11. ASSUME q[1] \in EnvelopMessage
       PROVE  /\ Trail(r, q[1].bp, mine) /\ q[1].bp.nonce = theirs.nonce + 1
              /\ Follows(theirs, q[1]) /\ q[1].bp.transferAmount <= mine.transferAmount
  BY <1>5, <1>8, <1>9, <1>11, RequestsApart
<1> QED BY <1>2, <1>10, <1>11 DEF r

\* Where a trail begins is not ahead of where it ends.
LEMMA TrailBegins ==
    ASSUME NEW q \in Seq(Messages), NEW theirs, NEW mine, Trail(q, theirs, mine)
    PROVE  theirs.transferAmount <= mine.transferAmount
<1>1. PICK p \in [0..Len(q) -> BalanceProofState] : Leads(q, theirs, mine, p)
  BY DEF Trail
<1>2. 0 \in 0..Len(q)
  OBVIOUS
<1> QED BY <1>1, <1>2 DEF Leads

\* A queue of balance proofs alone is as long as the nonces are apart.
LEMMA TrailCount ==
    ASSUME NEW q \in Seq(Messages), NEW theirs \in BalanceProofState,
           NEW mine \in BalanceProofState, Trail(q, theirs, mine),
           \A i \in 1..Len(q) : q[i] \notin Requests
    PROVE  Len(q) = mine.nonce - theirs.nonce
<1>1. PICK p \in [0..Len(q) -> BalanceProofState] : Leads(q, theirs, mine, p)
  BY DEF Trail
<1> DEFINE n == Len(q)
           Z == {i \in Nat : i <= n => p[i].nonce = theirs.nonce + i}
<1>2. n \in Nat /\ theirs.nonce \in Nat /\ mine.nonce \in Nat
  BY DEF BalanceProofState
<1>3. 0 \in Z
  BY <1>1, <1>2 DEF Leads
<1>4. ASSUME NEW i \in Z PROVE i + 1 \in Z
  <2>1. i \in Nat /\ i + 1 \in Nat
    OBVIOUS
  <2>2. ASSUME i + 1 <= n PROVE p[i + 1].nonce = theirs.nonce + (i + 1)
    <3>1. i + 1 \in 1..n /\ i <= n /\ (i + 1) - 1 = i
      BY <1>2, <2>1, <2>2
    <3>2. p[i].nonce = theirs.nonce + i
      BY <1>4, <3>1
    <3>3. \/ q[i + 1] \in Requests
          \/ p[i + 1] = q[i + 1].bp /\ q[i + 1].bp.nonce = p[(i + 1) - 1].nonce + 1
      BY <1>1, <3>1 DEF Leads
    <3>4. p[i + 1].nonce = p[i].nonce + 1
      BY <3>1, <3>3
    <3>5. (theirs.nonce + i) + 1 = theirs.nonce + (i + 1)
      BY <1>2, <2>1
    <3> HIDE DEF n, Z
    <3> QED BY <3>2, <3>4, <3>5
  <2> QED BY <2>1, <2>2
<1>5. Z = Nat
  <2>1. Z \in SUBSET Nat
    OBVIOUS
  <2> HIDE DEF Z
  <2> QED BY <1>3, <1>4, <2>1, NumberInduction
<1>6. p[n].nonce = theirs.nonce + n /\ p[n] = mine
  BY <1>1, <1>2, <1>5 DEF Leads
<1> QED BY <1>2, <1>6

\* The two epochs, seen from either node.
LEMMA EpochsOf ==
    ASSUME NEW n \in Nodes
    PROVE  /\ Other(n) \in Nodes /\ Other(n) # n /\ Other(Other(n)) = n
           /\ SameEpoch <=> epoch[n] = epoch[Other(n)]
           /\ SameEpoch' <=> epoch'[n] = epoch'[Other(n)]
<1>1. Other(n) \in Nodes /\ Other(n) # n /\ Other(Other(n)) = n
  BY OtherNode
<1>2. n = A \/ n = B
  BY DEF Nodes
<1> QED BY <1>1, <1>2, NodesAssumption DEF SameEpoch, Other

\* What a trail does not depend on.
LEMMA TrailSame ==
    ASSUME NEW s \in Nodes, InTrail(s),
           end'[Other(s)][s].bp = end[Other(s)][s].bp, end'[s][s].bp = end[s][s].bp,
           queue'[s] = queue[s], epoch' = epoch,
           state[s] = "Settled" => state'[s] = "Settled"
    PROVE  InTrail(s)'
BY DEF InTrail, Base, SameEpoch

\* n signs a balance proof.
LEMMA SentTrail ==
    ASSUME TypeInv, BooksMatchProof, TrailInv,
           NEW n \in Nodes, NEW msg \in EnvelopMessage, Sent(n, msg)
    PROVE  TrailInv'
<1> DEFINE o == Other(n)
           mine == end[n][n].bp
<1>1. o \in Nodes /\ o # n /\ Other(o) = n
  BY EpochsOf
<1>2. /\ end'[n][n].bp = msg.bp /\ queue'[n] = Append(queue[n], msg)
      /\ \A k, j \in Nodes : k # n \/ j # n => end'[k][j] = end[k][j]
      /\ queue'[o] = queue[o]
  BY <1>1, SentFacts
<1>3. UNCHANGED <<epoch, state>>
  BY DEF Sent
<1>4. /\ Follows(mine, msg) /\ mine.transferAmount <= msg.bp.transferAmount
      /\ msg.bp.nonce = mine.nonce + 1
  <2>1. /\ end[n][n] \in EndState /\ Books(end[n][n])
        /\ RegisterTransferOK(end[n][n], end[n][o], msg, blk[n])
        /\ msg.type = "MediatedTransfer" => msg.bp.transferAmount = mine.transferAmount
    BY EndFields DEF BooksMatchProof, Sent
  <2>2. Follows(mine, msg) /\ mine.transferAmount <= msg.bp.transferAmount
    BY <2>1, AcceptedFollows
  <2>3. msg.bp.nonce = mine.nonce + 1
    BY <2>1 DEF RegisterTransferOK, PreCheckReceivedTransfer
  <2> QED BY <2>2, <2>3
<1>5. /\ mine \in BalanceProofState /\ msg.bp \in BalanceProofState
      /\ mine.transferAmount \in Nat /\ msg.bp.transferAmount \in Nat
      /\ end[o][n].bp.transferAmount \in Nat
      /\ queue[n] \in Seq(Messages) /\ msg \in Messages
  BY <1>1, EndFields DEF EnvelopMessage, BalanceProofState, TypeInv, Messages
<1>6. InTrail(n) /\ InTrail(o)
  BY <1>1 DEF TrailInv
<1>7. Base(n)' = Base(n) /\ SameEpoch' = SameEpoch /\ end'[o][n] = end[o][n]
  BY <1>1, <1>2, <1>3 DEF Base, SameEpoch
<1>8. state'[n] # "Settled" /\ epoch'[n] >= epoch'[o] => Trail(queue'[n], Base(n)', end'[n][n].bp)
  <2>1. ASSUME Trail(queue[n], Base(n), mine)
        PROVE  Trail(Append(queue[n], msg), Base(n), msg.bp)
    <3> HIDE DEF mine
    <3> QED BY <1>4, <1>5, <2>1, TrailAppend
  <2> QED BY <1>2, <1>3, <1>6, <1>7, <2>1 DEF InTrail
<1>9. SameEpoch' => end'[o][n].bp.transferAmount <= end'[n][n].bp.transferAmount
  BY <1>2, <1>4, <1>5, <1>6, <1>7 DEF InTrail
<1>10. InTrail(n)'
  BY <1>3, <1>6, <1>7, <1>8, <1>9 DEF InTrail
<1>11. InTrail(o)'
  BY <1>1, <1>2, <1>3, <1>6, TrailSame
<1> HIDE DEF o
<1>12. \A k \in Nodes : k = n \/ k = o
  BY TwoNodes DEF o
<1> QED BY <1>10, <1>11, <1>12 DEF TrailInv

\* n registers the balance proof at the head of its partner's queue.
LEMMA GotTrail ==
    ASSUME TypeInv, TrailInv, LateInv,
           NEW n \in Nodes, NEW msg \in EnvelopMessage, Got(n, msg)
    PROVE  /\ TrailInv'
           /\ Follows(end[n][Other(n)].bp, msg)
           /\ end[n][Other(n)].bp.transferAmount <= end[Other(n)][Other(n)].bp.transferAmount
           /\ msg.bp.transferAmount <= end[Other(n)][Other(n)].bp.transferAmount
<1> DEFINE o == Other(n)
<1>1. o \in Nodes /\ o # n /\ Other(o) = n
  BY EpochsOf
<1>2. /\ end'[n][o].bp = msg.bp /\ queue[o] # <<>> /\ msg = Head(queue[o])
      /\ queue'[o] = Tail(queue[o]) /\ queue'[n] = queue[n]
      /\ \A k, j \in Nodes : k # n \/ j # o => end'[k][j] = end[k][j]
  BY GotFacts
<1>3. UNCHANGED <<epoch, state>> /\ SameEpoch
  BY DEF Got
<1>4. epoch[o] = epoch[n] /\ epoch[n] \in Nat
  BY <1>1, <1>3, EpochsOf DEF TypeInv
<1>5. InTrail(n) /\ InTrail(o)
  BY <1>1 DEF TrailInv
<1>6. state[o] # "Settled"
  BY <1>1, <1>2 DEF LateInv, InLate
<1>7. Trail(queue[o], end[n][o].bp, end[o][o].bp)
  BY <1>1, <1>3, <1>4, <1>5, <1>6 DEF InTrail, Base
<1>8. queue[o] \in Seq(Messages)
  BY <1>1 DEF TypeInv, Messages
<1>9. /\ Trail(Tail(queue[o]), msg.bp, end[o][o].bp)
      /\ Follows(end[n][o].bp, msg)
      /\ msg.bp.transferAmount <= end[o][o].bp.transferAmount
      /\ end[n][o].bp.transferAmount <= end[o][o].bp.transferAmount
  BY <1>2, <1>7, <1>8, TrailTail, TrailBegins
<1>10. SameEpoch' /\ Base(o)' = msg.bp /\ end'[o][o] = end[o][o]
  BY <1>1, <1>2, <1>3 DEF Base, SameEpoch
<1>11. InTrail(o)'
  BY <1>1, <1>2, <1>3, <1>4, <1>9, <1>10 DEF InTrail
<1>12. InTrail(n)'
  BY <1>1, <1>2, <1>3, <1>5, TrailSame
<1> HIDE DEF o
<1>13. \A k \in Nodes : k = n \/ k = o
  BY TwoNodes DEF o
<1>14. TrailInv'
  BY <1>11, <1>12, <1>13 DEF TrailInv
<1> QED BY <1>9, <1>14 DEF o

\* What n has sent is a request.
LEMMA RequestedType ==
    ASSUME TypeInv, FundedHere, NEW n \in Nodes, NEW req, NEW s, Requested(n, req, s)
    PROVE  /\ req \in Requests /\ MayCreateRequest(n) /\ s \in AskedStates
           /\ queue'[n] = Append(queue[n], req) /\ state'[n] = s
           /\ \A k \in Nodes : k # n => queue'[k] = queue[k] /\ state'[k] = state[k]
           /\ state[n] # "Settled"
           /\ UNCHANGED <<end, agreeVars, ledgerVars, epoch, pendingDeposit, seen>>
<1>1. \A m \in Nodes : BalanceOf(n, m) \in Nat
  BY BalancesAreNumbers
<1>2. req \in Requests
  <2>1. CASE /\ req.type = "WithdrawRequest" /\ req.balance = BalanceOf(n, n)
             /\ req.amount \in Nat
             /\ req = [type |-> "WithdrawRequest", balance |-> req.balance,
                       amount |-> req.amount]
    BY <1>1, <2>1 DEF Requests
  <2>2. CASE req = [type |-> "SettleRequest", balances |-> [m \in Nodes |-> BalanceOf(n, m)]]
    BY <1>1, <2>2 DEF Requests
  <2> QED BY <2>1, <2>2 DEF Requested
<1> QED BY <1>2 DEF Requested, TypeInv

\* What n has granted was a request.
LEMMA GrantedFacts ==
    ASSUME TypeInv, NEW n \in Nodes, NEW req, NEW s, NEW r, Granted(n, req, s, r)
    PROVE  LET o == Other(n)
           IN  /\ queue[o] # <<>> /\ Head(queue[o]) \in Requests
               /\ queue'[o] = Tail(queue[o]) /\ queue'[n] = queue[n]
               /\ state[n] = "Opened" /\ state'[n] = s /\ s \in PartnerStates
               /\ state'[o] = state[o]
               /\ responses'[n] = responses[n] \cup {r} /\ responses'[o] = responses[o]
               /\ r.epoch = epoch[n] /\ SameEpoch
               /\ LocksOf(n, o) = {} /\ end[n][n].unclaimed = {}
               /\ UNCHANGED <<end, calls, ledgerVars, epoch, pendingDeposit, seen>>
<1>1. Other(n) \in Nodes /\ Other(n) # n
  BY OtherNode
<1> QED BY <1>1 DEF Granted, TypeInv, NoDisputedLock

\* n asks for an agreement.
LEMMA RequestedTrail ==
    ASSUME TypeInv, FundedHere, TrailInv, NEW n \in Nodes, NEW req, NEW s,
           Requested(n, req, s)
    PROVE  TrailInv'
<1> DEFINE o == Other(n)
<1>1. o \in Nodes /\ o # n /\ Other(o) = n
  BY EpochsOf
<1>2. /\ req \in Requests /\ queue'[n] = Append(queue[n], req)
      /\ queue'[o] = queue[o] /\ state'[o] = state[o] /\ state[n] # "Settled"
      /\ UNCHANGED <<end, epoch>>
  BY <1>1, RequestedType
<1>3. InTrail(n) /\ InTrail(o)
  BY <1>1 DEF TrailInv
<1>4. Base(n)' = Base(n) /\ SameEpoch' = SameEpoch
  BY <1>2 DEF Base, SameEpoch
<1>5. ASSUME Trail(queue[n], Base(n), end[n][n].bp)
      PROVE  Trail(Append(queue[n], req), Base(n), end[n][n].bp)
  <2>1. /\ queue[n] \in Seq(Messages) /\ req \in Messages
        /\ end[n][n].bp \in BalanceProofState
        /\ end[n][n].bp.transferAmount <= end[n][n].bp.transferAmount
    BY <1>2, EndFields DEF TypeInv, Messages
  <2> QED BY <1>2, <1>5, <2>1, TrailAppend
<1>6. InTrail(n)'
  BY <1>2, <1>3, <1>4, <1>5 DEF InTrail
<1>7. InTrail(o)'
  BY <1>1, <1>2, <1>3, TrailSame
<1> HIDE DEF o
<1>8. \A k \in Nodes : k = n \/ k = o
  BY TwoNodes DEF o
<1> QED BY <1>6, <1>7, <1>8 DEF TrailInv

\* n agrees.
LEMMA GrantedTrail ==
    ASSUME TypeInv, TrailInv, NEW n \in Nodes, NEW req, NEW s, NEW r,
           Granted(n, req, s, r)
    PROVE  TrailInv'
<1> DEFINE o == Other(n)
<1>1. o \in Nodes /\ o # n /\ Other(o) = n
  BY EpochsOf
<1>2. /\ queue[o] # <<>> /\ Head(queue[o]) \in Requests
      /\ queue'[o] = Tail(queue[o]) /\ queue'[n] = queue[n]
      /\ state[n] # "Settled" /\ state'[o] = state[o]
      /\ UNCHANGED <<end, epoch>>
  BY <1>1, GrantedFacts
<1>3. InTrail(n) /\ InTrail(o)
  BY <1>1 DEF TrailInv
<1>4. Base(o)' = Base(o) /\ SameEpoch' = SameEpoch
  BY <1>2 DEF Base, SameEpoch
<1>5. ASSUME Trail(queue[o], Base(o), end[o][o].bp)
      PROVE  Trail(Tail(queue[o]), Base(o), end[o][o].bp)
  <2>1. queue[o] \in Seq(Messages)
    BY <1>1 DEF TypeInv, Messages
  <2> QED BY <1>2, <1>5, <2>1, TrailTail
<1>6. InTrail(o)'
  BY <1>2, <1>3, <1>4, <1>5 DEF InTrail
<1>7. InTrail(n)'
  BY <1>1, <1>2, <1>3, TrailSame
<1> HIDE DEF o
<1>8. \A k \in Nodes : k = n \/ k = o
  BY TwoNodes DEF o
<1> QED BY <1>6, <1>7, <1>8 DEF TrailInv

\* n begins a new epoch.
LEMMA WithdrawTrail ==
    ASSUME TypeInv, TrailInv, NEW n \in Nodes, handleWithdraw(n)
    PROVE  TrailInv'
<1> DEFINE o == Other(n)
<1>1. o \in Nodes /\ o # n /\ Other(o) = n
  BY EpochsOf
<1>2. /\ end'[n][n].bp = NoProof /\ end'[n][o].bp = NoProof
      /\ end'[o][n] = end[o][n] /\ end'[o][o] = end[o][o]
      /\ epoch'[n] = epoch[n] + 1 /\ epoch'[o] = epoch[o]
      /\ queue'[n] = <<>> /\ queue'[o] = queue[o] /\ state'[o] = state[o]
  BY <1>1, WithdrawEventFacts
<1>3. epoch[n] \in Nat /\ epoch[o] \in Nat
  BY <1>1 DEF TypeInv
<1>4. NoProof \in BalanceProofState /\ NoProof.transferAmount = 0
  BY DEF NoProof, BalanceProofState
<1>5. end[o][o].bp.transferAmount \in Nat
  BY <1>1, EndFields
<1>6. InTrail(n) /\ InTrail(o)
  BY <1>1 DEF TrailInv
<1>7. SameEpoch' <=> epoch[o] = epoch[n] + 1
  BY <1>1, <1>2, EpochsOf
<1>8. SameEpoch <=> epoch[o] = epoch[n]
  BY <1>1, EpochsOf
<1>9. InTrail(n)'
  <2>1. ASSUME epoch[o] > epoch[n] PROVE end[o][n].bp = NoProof
    BY <1>6, <2>1 DEF InTrail
  <2>2. SameEpoch' => end[o][n].bp = NoProof
    BY <1>3, <1>7, <2>1
  <2>3. Base(n)' = NoProof
    BY <1>2, <2>2 DEF Base
  <2>4. Trail(queue'[n], Base(n)', end'[n][n].bp)
    BY <1>2, <1>4, <2>3, TrailEmpty
  <2>5. epoch'[o] > epoch'[n] => end'[o][n].bp = NoProof
    BY <1>2, <1>3, <2>1
  <2>6. SameEpoch' => end'[o][n].bp.transferAmount <= end'[n][n].bp.transferAmount
    BY <1>2, <1>4, <2>2
  <2> QED BY <2>4, <2>5, <2>6 DEF InTrail
<1>10. InTrail(o)'
  <2>1. ASSUME state'[o] # "Settled", epoch'[o] >= epoch'[n]
        PROVE  Trail(queue'[o], Base(o)', end'[o][o].bp)
    <3>1. epoch[o] > epoch[n] /\ epoch[o] >= epoch[n] /\ ~ SameEpoch
      BY <1>2, <1>3, <1>8, <2>1
    <3>2. Base(o) = NoProof /\ Base(o)' = NoProof
      BY <1>1, <1>2, <3>1 DEF Base
    <3>3. Trail(queue[o], NoProof, end[o][o].bp)
      BY <1>1, <1>2, <1>6, <2>1, <3>1, <3>2 DEF InTrail
    <3> QED BY <1>2, <3>2, <3>3
  <2>2. end'[n][o].bp.transferAmount <= end'[o][o].bp.transferAmount
    BY <1>2, <1>4, <1>5
  <2> QED BY <1>1, <1>2, <2>1, <2>2 DEF InTrail
<1> HIDE DEF o
<1>11. \A k \in Nodes : k = n \/ k = o
  BY TwoNodes DEF o
<1> QED BY <1>9, <1>10, <1>11 DEF TrailInv

\* Every step keeps the trails.
LEMMA TrailStep ==
    ASSUME TypeInv, BooksMatchProof, FundedHere, TrailInv, LateInv, [NegNext]_allVars
    PROVE  TrailInv'
<1>1. ASSUME \A n, m \in Nodes : end'[n][m].bp = end[n][m].bp,
             UNCHANGED <<queue, epoch>>,
             \A n \in Nodes : state[n] = "Settled" => state'[n] = "Settled"
      PROVE  TrailInv'
  BY <1>1, OtherNode, TrailSame DEF TrailInv
<1>2. ASSUME NEW n \in Nodes, NEW l \in Locks, Learned(n, l)
      PROVE  TrailInv'
  <2>1. \A k, m \in Nodes : end'[k][m].bp = end[k][m].bp
    BY <1>2, LearnedFacts
  <2>2. UNCHANGED <<queue, epoch, state>>
    BY <1>2 DEF Learned
  <2> QED BY <1>1, <2>1, <2>2
<1>3. ASSUME NEW n \in Nodes, NEW s \in QuietStates, Prepared(n, s)
      PROVE  TrailInv'
  <2>1. \A k \in Nodes : state[k] = "Settled" => state'[k] = "Settled"
    BY <1>3 DEF Prepared, QuietStates, PrepareStates, TypeInv
  <2> QED BY <1>1, <1>3, <2>1 DEF Prepared
<1>4. ASSUME NEW n \in Nodes, NEW call, Closed(n, call)
      PROVE  TrailInv'
  <2>1. \A k \in Nodes : state[k] = "Settled" => state'[k] = "Settled"
    BY <1>4 DEF Closed, TypeInv
  <2> QED BY <1>1, <1>4, <2>1 DEF Closed
<1>5. ASSUME UNCHANGED <<end, queue, epoch, state>>
      PROVE  TrailInv'
  BY <1>1, <1>5
<1>6. ASSUME NEW call \in Agreements, withDraw(call) \/ cooperativeSettle(call)
      PROVE  TrailInv'
  BY <1>5, <1>6, MinedFacts
<1>7. ASSUME NEW n \in Nodes, handleBalanceEvent(n)
      PROVE  TrailInv'
  <2>1. UNCHANGED <<queue, epoch, state>> /\ \A k, m \in Nodes : end'[k][m].bp = end[k][m].bp
    BY <1>7, BalanceEventFacts
  <2> QED BY <1>1, <2>1
<1>8. ASSUME NEW n \in Nodes, handleClosed(n)
      PROVE  TrailInv'
  <2>1. state[n] # "Settled" /\ state' = [state EXCEPT ![n] = "Closed"]
        /\ UNCHANGED <<end, queue, epoch>>
    BY <1>8 DEF handleClosed, HandleEvent
  <2>2. \A k \in Nodes : state[k] = "Settled" => state'[k] = "Settled"
    BY <2>1 DEF TypeInv
  <2> QED BY <1>1, <2>1, <2>2
<1>9. ASSUME NEW n \in Nodes, handleCooperativeSettled(n)
      PROVE  TrailInv'
  <2> DEFINE o == Other(n)
  <2>1. o \in Nodes /\ o # n /\ InTrail(n) /\ InTrail(o)
    BY OtherNode DEF TrailInv
  <2>2. /\ state'[n] = "Settled" /\ state'[o] = state[o] /\ queue'[o] = queue[o]
        /\ UNCHANGED <<end, epoch>>
    BY <1>9, <2>1 DEF handleCooperativeSettled, TypeInv
  <2>3. InTrail(n)'
    BY <2>1, <2>2 DEF InTrail, SameEpoch
  <2>4. InTrail(o)'
    BY <2>1, <2>2, TrailSame
  <2> HIDE DEF o
  <2>5. \A k \in Nodes : k = n \/ k = o
    BY TwoNodes DEF o
  <2> QED BY <2>3, <2>4, <2>5 DEF TrailInv
<1>10. ASSUME NEW call \in Closes, prepareSettle(call) PROVE TrailInv'
  BY <1>5, <1>10 DEF prepareSettle, vars
<1>11. ASSUME NEW n \in Nodes, depositInternal(n) PROVE TrailInv'
  BY <1>5, <1>11 DEF depositInternal
<1>12. ASSUME NEW n \in Nodes, NEW r, NEW call, Called(n, r, call) PROVE TrailInv'
  BY <1>5, <1>12 DEF Called
<1>13. ASSUME Idle PROVE TrailInv'
  BY <1>5, <1>13 DEF Idle
<1> QED BY <1>2, <1>3, <1>4, <1>6, <1>7, <1>8, <1>9, <1>10, <1>11, <1>12, <1>13,
           SentTrail, GotTrail, RequestedTrail, GrantedTrail, WithdrawTrail, NegStepKinds

(***************************************************************************)
(* What is owed.                                                           *)
(***************************************************************************)

\* A balance proof that is registered is covered.
LEMMA RegisterKeepsCover ==
    ASSUME TypeInv, BooksMatchProof, FundedHere, NEW n \in Nodes, NEW m \in Nodes,
           NEW msg \in EnvelopMessage, NEW b,
           RegisterTransferOK(end[n][m], end[n][Other(m)], msg, b),
           msg.type = "MediatedTransfer" =>
               msg.bp.transferAmount = end[n][m].bp.transferAmount,
           end'[n][m].bp = msg.bp,
           end'[n][m].contractBalance = end[n][m].contractBalance,
           \A k, j \in Nodes : k # n \/ j # m => end'[k][j] = end[k][j]
    PROVE  FundedHere'
<1> DEFINE o == Other(m)
           limit == end[n][m].contractBalance + end[n][o].bp.transferAmount
<1>1. o \in Nodes /\ o # m /\ Other(o) = m
  BY OtherNode
<1>2. /\ end[n][m] \in EndState /\ end[n][o] \in EndState
      /\ end[n][m].contractBalance \in Nat /\ end[n][o].bp.transferAmount \in Nat
      /\ end[n][o].contractBalance \in Nat /\ end[n][m].bp.transferAmount \in Nat
      /\ end[n][o].bp \in BalanceProofState
      /\ msg.bp.transferAmount \in Nat
  BY <1>1, EndFields DEF EnvelopMessage, BalanceProofState
<1>3. limit \in Nat /\ Owed(end[n][m].bp) <= limit
  BY <1>2 DEF FundedHere
<1>4. Books(end[n][m])
  BY DEF BooksMatchProof
<1>5. limit = end[n][m].contractBalance + end[n][o].bp.transferAmount
  OBVIOUS
<1>6. Owed(msg.bp) <= limit
  <2>1. end[n][m].contractBalance + end[n][o].bp.transferAmount <= limit
    BY <1>3, <1>5
  <2> HIDE DEF limit
  <2> QED BY <1>2, <1>3, <1>4, <2>1, AcceptedIsFunded
<1>7. end[n][m].bp.transferAmount <= msg.bp.transferAmount
  BY <1>2, <1>4, AcceptedFollows
<1>8. ASSUME NEW k \in Nodes, NEW j \in Nodes
      PROVE  Owed(end'[k][j].bp)
                <= end'[k][j].contractBalance + end'[k][Other(j)].bp.transferAmount
  <2>1. CASE k = n /\ j = m
    BY <1>1, <1>5, <1>6, <2>1
  <2>2. CASE k = n /\ j # m
    <3>1. j = o
      BY <2>2, TwoNodes
    <3>2. Owed(end[n][o].bp) <= end[n][o].contractBalance + end[n][m].bp.transferAmount
      BY <1>1 DEF FundedHere
    <3>3. Owed(end[n][o].bp) \in Nat
      BY <1>2, OwedType
    <3>4. Owed(end[n][o].bp) <= end[n][o].contractBalance + msg.bp.transferAmount
      BY <1>2, <1>7, <3>2, <3>3
    <3>5. end'[n][o] = end[n][o] /\ end'[n][m].bp = msg.bp
      BY <1>1
    <3> QED BY <1>1, <2>2, <3>1, <3>4, <3>5
  <2>3. CASE k # n
    <3>1. end'[k][j] = end[k][j] /\ end'[k][Other(j)] = end[k][Other(j)]
      BY <2>3, OtherNode
    <3> QED BY <3>1 DEF FundedHere
  <2> QED BY <2>1, <2>2, <2>3
<1> QED BY <1>8 DEF FundedHere

\* Every step keeps what is owed covered.
LEMMA FundedHereStep ==
    ASSUME TypeInv, TypeInv', BooksMatchProof, FundedHere, EpochInv, DepositInv,
           TrailInv, LateInv, [NegNext]_allVars
    PROVE  FundedHere'
<1>1. ASSUME NEW n \in Nodes, NEW msg \in EnvelopMessage, Sent(n, msg)
      PROVE  FundedHere'
  <2>1. /\ end'[n][n].bp = msg.bp
        /\ end'[n][n].contractBalance = end[n][n].contractBalance
        /\ \A k, j \in Nodes : k # n \/ j # n => end'[k][j] = end[k][j]
    BY <1>1, SentFacts
  <2>2. /\ RegisterTransferOK(end[n][n], end[n][Other(n)], msg, blk[n])
        /\ msg.type = "MediatedTransfer" =>
              msg.bp.transferAmount = end[n][n].bp.transferAmount
    BY <1>1 DEF Sent
  <2> QED BY <2>1, <2>2, RegisterKeepsCover
<1>2. ASSUME NEW n \in Nodes, NEW msg \in EnvelopMessage, Got(n, msg)
      PROVE  FundedHere'
  <2> DEFINE o == Other(n)
  <2>1. o \in Nodes /\ Other(o) = n
    BY OtherNode
  <2>2. /\ end'[n][o].bp = msg.bp
        /\ end'[n][o].contractBalance = end[n][o].contractBalance
        /\ \A k, j \in Nodes : k # n \/ j # o => end'[k][j] = end[k][j]
    BY <1>2, GotFacts
  <2>3. RegisterTransferOK(end[n][o], end[n][n], msg, blk[n])
    BY <1>2 DEF Got
  <2>4. Follows(end[n][o].bp, msg)
    BY <1>2, GotTrail
  <2>5. msg.type = "MediatedTransfer" =>
           msg.bp.transferAmount = end[n][o].bp.transferAmount
    BY <2>4 DEF Follows
  <2> HIDE DEF o
  <2> QED BY <2>1, <2>2, <2>3, <2>5, RegisterKeepsCover
<1>3. ASSUME \A k, j \in Nodes :
                /\ end'[k][j].bp = end[k][j].bp
                /\ end[k][j].contractBalance <= end'[k][j].contractBalance
      PROVE  FundedHere'
  <2>1. ASSUME NEW k \in Nodes, NEW j \in Nodes
        PROVE  Owed(end'[k][j].bp)
                  <= end'[k][j].contractBalance + end'[k][Other(j)].bp.transferAmount
    <3>1. Other(j) \in Nodes
      BY OtherNode
    <3>2. /\ end[k][j].bp \in BalanceProofState /\ end[k][j].contractBalance \in Nat
          /\ end[k][Other(j)].bp.transferAmount \in Nat
      BY <3>1, EndFields
    <3>3. end'[k][j].contractBalance \in Nat
      BY EndFields DEF TypeInv, EndState
    <3>4. Owed(end[k][j].bp) \in Nat
      BY <3>2, OwedType
    <3>5. Owed(end[k][j].bp)
             <= end[k][j].contractBalance + end[k][Other(j)].bp.transferAmount
      BY DEF FundedHere
    <3>6. /\ end'[k][j].bp = end[k][j].bp /\ end'[k][Other(j)].bp = end[k][Other(j)].bp
          /\ end[k][j].contractBalance <= end'[k][j].contractBalance
      BY <1>3, <3>1
    <3> QED BY <3>2, <3>3, <3>4, <3>5, <3>6
  <2> QED BY <2>1 DEF FundedHere
<1>4. ASSUME NEW n \in Nodes, NEW l \in Locks, Learned(n, l)
      PROVE  FundedHere'
  <2>1. \A k, j \in Nodes :
           /\ end'[k][j].bp = end[k][j].bp
           /\ end'[k][j].contractBalance = end[k][j].contractBalance
    BY <1>4, LearnedFacts
  <2>2. \A k, j \in Nodes : end[k][j].contractBalance \in Nat
    BY EndFields
  <2> QED BY <1>3, <2>1, <2>2
<1>5. ASSUME NEW n \in Nodes, handleBalanceEvent(n)
      PROVE  FundedHere'
  <2> DEFINE i == seen[n] + 1
             ev == log[i]
             m == ev.participant
  <2>1. /\ m \in Nodes /\ end'[n][m].contractBalance = ev.total
        /\ \A k, j \in Nodes :
              /\ k # n \/ j # m => end'[k][j] = end[k][j]
              /\ end'[k][j].bp = end[k][j].bp
    BY <1>5, BalanceEventFacts
  <2>2. HandleEvent(n, "ChannelNewDeposit")
    BY <1>5 DEF handleBalanceEvent
  <2>3. /\ seen[n] \in Nat /\ i \in 1..Len(log) /\ ev.type = "ChannelNewDeposit"
        /\ Withdrawals(log, i) = epoch[n]
    BY <2>2, NextEvent, HandledEpoch
  <2>4. i > seen[n]
    BY <2>3
  <2>5. About(ev, m) /\ Told(ev, m) = ev.total
    BY <2>3 DEF About, Told
  <2> HIDE DEF i, m
  <2>6. end[n][m].contractBalance <= ev.total
    BY <2>1, <2>3, <2>4, <2>5 DEF DepositInv
  <2>7. \A k, j \in Nodes : end[k][j].contractBalance \in Nat
    BY EndFields
  <2>8. ASSUME NEW k \in Nodes, NEW j \in Nodes
        PROVE  end[k][j].contractBalance <= end'[k][j].contractBalance
    <3>1. CASE k = n /\ j = m
      BY <2>1, <2>6, <3>1
    <3>2. CASE k # n \/ j # m
      BY <2>1, <2>7, <3>2
    <3> QED BY <3>1, <3>2
  <2> QED BY <1>3, <2>1, <2>8
<1>6. ASSUME NEW n \in Nodes, handleWithdraw(n)
      PROVE  FundedHere'
  <2>1. /\ \A j \in Nodes : end'[n][j].bp = NoProof
        /\ \A k, j \in Nodes : k # n => end'[k][j] = end[k][j]
    BY <1>6, WithdrawEventFacts
  <2>4. \A j \in Nodes : end'[n][j].contractBalance \in Nat
    BY DEF TypeInv, EndState
  <2>2. Owed(NoProof) = 0 /\ NoProof.transferAmount = 0
    BY LockSums DEF Owed, NoProof
  <2>3. ASSUME NEW k \in Nodes, NEW j \in Nodes
        PROVE  Owed(end'[k][j].bp)
                  <= end'[k][j].contractBalance + end'[k][Other(j)].bp.transferAmount
    <3>1. Other(j) \in Nodes
      BY OtherNode
    <3>2. CASE k = n
      <4>1. /\ end'[k][j].bp = NoProof /\ end'[k][Other(j)].bp = NoProof
            /\ end'[k][j].contractBalance \in Nat
        BY <2>1, <2>4, <3>1, <3>2
      <4> QED BY <2>2, <4>1
    <3>3. CASE k # n
      <4>1. end'[k][j] = end[k][j] /\ end'[k][Other(j)] = end[k][Other(j)]
        BY <2>1, <3>1, <3>3
      <4> QED BY <4>1 DEF FundedHere
    <3> QED BY <3>2, <3>3
  <2> QED BY <2>3 DEF FundedHere
<1>7. ASSUME UNCHANGED end
      PROVE  FundedHere'
  BY <1>7 DEF FundedHere
<1> QED BY <1>1, <1>2, <1>4, <1>5, <1>6, <1>7, BookSteps

(***************************************************************************)
(* The states of the channel.                                              *)
(***************************************************************************)

\* The states exclude each other.
LEMMA StatesApart ==
    ASSUME NEW n \in Nodes
    PROVE  /\ Late(n) => state[n] \notin QuietStates \cup PartnerStates
           /\ state[n] \in QuietStates => state[n] \notin PartnerStates \cup AskedStates \cup EndStates
           /\ state[n] \in PartnerStates => state[n] \notin AskedStates \cup EndStates
           /\ state[n] = "Opened" => state[n] \in QuietStates
           /\ state[n] = "Settled" => state[n] \in EndStates
           /\ state'[n] \in QuietStates => state'[n] \notin PartnerStates \cup AskedStates \cup EndStates
           /\ state'[n] \in PartnerStates => state'[n] \notin AskedStates \cup EndStates
           /\ state'[n] \in AskedStates => state'[n] # "Settled"
BY DEF Late, QuietStates, PrepareStates, PartnerStates, AskedStates, EndStates

\* Which queues hold a request.
LEMMA RequestPlaces ==
    /\ ~ HasRequest(<<>>)
    /\ \A q \in Seq(Messages) : \A msg \in EnvelopMessage :
          HasRequest(Append(q, msg)) => HasRequest(q)
    /\ \A q \in Seq(Messages) :
          q # <<>> => /\ HasRequest(Tail(q)) => HasRequest(q)
                      /\ Head(q) \in Requests => HasRequest(q)
<1>1. ~ HasRequest(<<>>)
  BY DEF HasRequest
<1>2. ASSUME NEW q \in Seq(Messages), NEW msg \in EnvelopMessage, HasRequest(Append(q, msg))
      PROVE  HasRequest(q)
  <2> DEFINE r == Append(q, msg)
  <2>1. msg \in Messages
    BY DEF Messages
  <2>2. /\ Len(q) \in Nat /\ Len(r) = Len(q) + 1 /\ r[Len(q) + 1] = msg
        /\ \A i \in 1..Len(q) : r[i] = q[i]
    BY <2>1, Appended
  <2>3. PICK i \in 1..Len(r) : r[i] \in Requests
    BY <1>2 DEF HasRequest
  <2> HIDE DEF r
  <2>4. i # Len(q) + 1
    BY <2>2, <2>3, RequestsApart
  <2>5. i \in 1..Len(q)
    BY <2>2, <2>3, <2>4
  <2> QED BY <2>2, <2>3, <2>5 DEF HasRequest
<1>3. ASSUME NEW q \in Seq(Messages), q # <<>>
      PROVE  /\ HasRequest(Tail(q)) => HasRequest(q)
             /\ Head(q) \in Requests => HasRequest(q)
  <2> DEFINE r == Tail(q)
  <2>1. /\ Len(q) \in Nat \ {0} /\ Len(r) = Len(q) - 1 /\ Head(q) = q[1]
        /\ \A i \in 1..Len(r) : r[i] = q[i + 1]
    BY <1>3, Shortened
  <2>2. 1 \in 1..Len(q)
    BY <2>1
  <2>3. ASSUME NEW i \in 1..Len(r), r[i] \in Requests PROVE HasRequest(q)
    <3>1. i + 1 \in 1..Len(q) /\ q[i + 1] \in Requests
      BY <2>1, <2>3
    <3> QED BY <3>1 DEF HasRequest
  <2> HIDE DEF r
  <2>4. HasRequest(r) => HasRequest(q)
    BY <2>3 DEF HasRequest
  <2>5. Head(q) \in Requests => HasRequest(q)
    BY <2>1, <2>2 DEF HasRequest
  <2> QED BY <2>4, <2>5 DEF r
<1> QED BY <1>1, <1>2, <1>3

\* Only a mediated transfer adds a lock.
LEMMA OnlyTransfersLock ==
    ASSUME NEW e \in EndState, NEW msg \in EnvelopMessage, msg.type # "MediatedTransfer"
    PROVE  /\ RegisterTransfer(e, msg).pending \subseteq e.pending
           /\ RegisterTransfer(e, msg).unclaimed \subseteq e.unclaimed
BY DEF RegisterTransfer, AddedLocks, EndState

\* What keeps a node's part of LateInv when its state stays.
LEMMA LateKept ==
    ASSUME NEW n \in Nodes, InLate(n), state'[n] = state[n],
           HasRequest(queue'[n]) => HasRequest(queue[n]),
           state[n] = "Settled" => queue'[n] = queue[n],
           state[n] # "Opened" => end'[n][n].pending \subseteq end[n][n].pending,
           state[n] # "Opened" => LocksOf(n, Other(n))' \subseteq LocksOf(n, Other(n))
    PROVE  InLate(n)'
<1>1. state[n] = "Opened" => ~ Late(n) /\ state[n] \notin AskedStates \cup PartnerStates
  BY StatesApart
<1> QED BY <1>1 DEF InLate, Late, MayCreateRequest

\* Every step keeps them.
LEMMA LateStep ==
    ASSUME TypeInv, FundedHere, LateInv, [NegNext]_allVars
    PROVE  LateInv'
<1> DEFINE L(n) == LocksOf(n, Other(n))
<1>0. /\ \A n \in Nodes : queue[n] \in Seq(Messages) /\ InLate(n)
      /\ \A n \in Nodes : Other(n) \in Nodes /\ Other(n) # n /\ Other(Other(n)) = n
      /\ \A n, k \in Nodes : k = n \/ k = Other(n)
  BY TwoNodes, OtherNode DEF TypeInv, Messages, LateInv
<1>1. ASSUME NEW n \in Nodes, NEW msg \in EnvelopMessage, Sent(n, msg)
      PROVE  LateInv'
  <2> DEFINE o == Other(n)
  <2>1. /\ end'[n][n] = RegisterTransfer(end[n][n], msg)
        /\ \A k, j \in Nodes : k # n \/ j # n => end'[k][j] = end[k][j]
        /\ queue'[n] = Append(queue[n], msg) /\ queue'[o] = queue[o]
    BY <1>1, SentFacts
  <2>2. /\ UNCHANGED state /\ state[n] # "Settled"
        /\ msg.type = "MediatedTransfer" => state[n] = "Opened"
    BY <1>1 DEF Sent
  <2>3. state[n] # "Opened" => end'[n][n].pending \subseteq end[n][n].pending
    BY <2>1, <2>2, EndFields, OnlyTransfersLock
  <2>4. L(n)' = L(n) /\ L(o)' = L(o) /\ end'[o][o] = end[o][o]
    BY <1>0, <2>1 DEF LocksOf
  <2>5. HasRequest(queue'[n]) => HasRequest(queue[n])
    BY <1>0, <2>1, RequestPlaces
  <2>6. InLate(n)'
    BY <1>0, <2>2, <2>3, <2>4, <2>5, LateKept
  <2>7. InLate(o)'
    BY <1>0, <2>1, <2>2, <2>4, LateKept
  <2> QED BY <1>0, <2>6, <2>7 DEF LateInv
<1>2. ASSUME NEW n \in Nodes, NEW msg \in EnvelopMessage, Got(n, msg)
      PROVE  LateInv'
  <2> DEFINE o == Other(n)
  <2>1. /\ end'[n][o] = RegisterTransfer(end[n][o], msg)
        /\ \A k, j \in Nodes : k # n \/ j # o => end'[k][j] = end[k][j]
        /\ queue[o] # <<>> /\ queue'[o] = Tail(queue[o]) /\ queue'[n] = queue[n]
    BY <1>2, GotFacts
  <2>2. /\ UNCHANGED state
        /\ msg.type = "MediatedTransfer" => state[n] = "Opened"
    BY <1>2 DEF Got
  <2>3. state[n] # "Opened" => L(n)' \subseteq L(n)
    BY <1>0, <2>1, <2>2, EndFields, OnlyTransfersLock DEF LocksOf
  <2>4. L(o)' = L(o) /\ end'[o][o] = end[o][o] /\ end'[n][n] = end[n][n]
    BY <1>0, <2>1 DEF LocksOf
  <2>5. HasRequest(queue'[o]) => HasRequest(queue[o])
    BY <1>0, <2>1, RequestPlaces
  <2>6. state[o] # "Settled"
    BY <1>0, <2>1 DEF InLate
  <2>7. InLate(n)'
    BY <1>0, <2>1, <2>2, <2>3, <2>4, LateKept
  <2>8. InLate(o)'
    BY <1>0, <2>2, <2>4, <2>5, <2>6, LateKept
  <2> QED BY <1>0, <2>7, <2>8 DEF LateInv
<1>3. ASSUME UNCHANGED <<queue, state>>,
             \A k, j \in Nodes :
                /\ end'[k][j].pending \subseteq end[k][j].pending
                /\ end'[k][j].pending \cup end'[k][j].unclaimed
                      = end[k][j].pending \cup end[k][j].unclaimed
      PROVE  LateInv'
  <2>1. ASSUME NEW n \in Nodes PROVE InLate(n)'
    <3>1. L(n)' = L(n) /\ end'[n][n].pending \subseteq end[n][n].pending
      BY <1>0, <1>3 DEF LocksOf
    <3> QED BY <1>0, <1>3, <3>1, LateKept
  <2> QED BY <2>1 DEF LateInv
<1>4. ASSUME UNCHANGED <<end, queue, state>> PROVE LateInv'
  BY <1>3, <1>4
<1>5. ASSUME NEW n \in Nodes, UNCHANGED end, queue'[Other(n)] = queue[Other(n)],
             state'[Other(n)] = state[Other(n)], InLate(n)'
      PROVE  LateInv'
  <2>1. InLate(Other(n))'
    BY <1>0, <1>5 DEF InLate, Late, MayCreateRequest, LocksOf
  <2> QED BY <1>0, <1>5, <2>1 DEF LateInv
<1>6. ASSUME NEW n \in Nodes, NEW s \in QuietStates, Prepared(n, s) PROVE LateInv'
  <2>1. /\ state[n] \in QuietStates /\ state'[n] = s /\ state'[Other(n)] = state[Other(n)]
        /\ UNCHANGED <<end, queue>>
    BY <1>0, <1>6 DEF Prepared, TypeInv
  <2>2. ~ HasRequest(queue[n])
    BY <1>0, <2>1, StatesApart DEF InLate
  <2>3. state'[n] \notin PartnerStates \cup AskedStates \cup EndStates /\ state'[n] # "Settled"
    BY <2>1, StatesApart DEF EndStates
  <2>4. InLate(n)'
    BY <2>1, <2>2, <2>3 DEF InLate
  <2> QED BY <1>5, <2>1, <2>4
<1>7. ASSUME NEW n \in Nodes, NEW s \in AskedStates, NEW req, Requested(n, req, s)
      PROVE  LateInv'
  <2>1. /\ MayCreateRequest(n) /\ state'[n] \in AskedStates
        /\ queue'[Other(n)] = queue[Other(n)] /\ state'[Other(n)] = state[Other(n)]
        /\ UNCHANGED end
    BY <1>0, <1>7, RequestedType
  <2>2. /\ state'[n] # "Settled" /\ Late(n)' /\ MayCreateRequest(n)'
        /\ L(n)' = {}
    BY <2>1, StatesApart DEF Late, MayCreateRequest, LocksOf
  <2>3. InLate(n)'
    BY <2>2 DEF InLate
  <2> QED BY <1>5, <2>1, <2>3
<1>8. ASSUME NEW n \in Nodes, NEW req, NEW s, NEW r, Granted(n, req, s, r)
      PROVE  LateInv'
  <2> DEFINE o == Other(n)
  <2>1. /\ state[n] = "Opened" /\ state'[n] \in PartnerStates /\ L(n) = {}
        /\ queue'[n] = queue[n] /\ state'[o] = state[o] /\ UNCHANGED end
        /\ queue[o] # <<>> /\ queue'[o] = Tail(queue[o])
    BY <1>8, GrantedFacts
  <2>2. ~ HasRequest(queue[n])
    BY <1>0, <2>1, StatesApart DEF InLate
  <2>3. L(n)' = {} /\ state'[n] \notin AskedStates /\ state'[n] # "Settled"
    BY <2>1, StatesApart DEF LocksOf, EndStates
  <2>4. InLate(n)'
    BY <2>1, <2>2, <2>3 DEF InLate
  <2>5. HasRequest(queue'[o]) => HasRequest(queue[o])
    BY <1>0, <2>1, RequestPlaces
  <2>6. state[o] # "Settled"
    BY <1>0, <2>1 DEF InLate
  <2>7. L(o)' = L(o) /\ end'[o][o] = end[o][o]
    BY <2>1 DEF LocksOf
  <2>8. InLate(o)'
    BY <1>0, <2>1, <2>5, <2>6, <2>7, LateKept
  <2> QED BY <1>0, <2>4, <2>8 DEF LateInv
<1>9. ASSUME NEW n \in Nodes, state' = [state EXCEPT ![n] = "Closing"]
                              \/ state' = [state EXCEPT ![n] = "Closed"],
             UNCHANGED <<end, queue>>
      PROVE  LateInv'
  <2>1. state'[n] \in {"Closing", "Closed"} /\ state'[Other(n)] = state[Other(n)]
    BY <1>0, <1>9 DEF TypeInv
  <2>2. /\ Late(n)' /\ state'[n] \notin AskedStates \cup PartnerStates
        /\ state'[n] # "Settled"
    BY <2>1 DEF Late, EndStates, AskedStates, PartnerStates
  <2>3. InLate(n)'
    BY <1>0, <1>9, <2>2 DEF InLate, LocksOf
  <2> QED BY <1>5, <1>9, <2>1, <2>3
<1>10. ASSUME NEW n \in Nodes, handleWithdraw(n) PROVE LateInv'
  <2> DEFINE o == Other(n)
  <2>1. /\ state'[n] = "Opened" /\ queue'[n] = <<>>
        /\ state'[o] = state[o] /\ queue'[o] = queue[o]
        /\ end'[o][o] = end[o][o] /\ end'[o][n] = end[o][n]
    <3>1. /\ state'[n] = "Opened" /\ queue'[n] = <<>>
          /\ \A k, j \in Nodes : k # n => end'[k][j] = end[k][j]
          /\ \A k \in Nodes : k # n => state'[k] = state[k] /\ queue'[k] = queue[k]
      BY <1>10, WithdrawEventFacts
    <3> QED BY <1>0, <3>1
  <2>2. InLate(n)'
    BY <2>1, RequestPlaces DEF InLate, AskedStates, PartnerStates
  <2>3. L(o)' = L(o)
    BY <1>0, <2>1 DEF LocksOf
  <2>4. InLate(o)'
    BY <1>0, <2>1, <2>3, LateKept
  <2> QED BY <1>0, <2>2, <2>4 DEF LateInv
<1>11. ASSUME NEW n \in Nodes, handleCooperativeSettled(n) PROVE LateInv'
  <2>1. /\ state'[n] = "Settled" /\ queue'[n] = <<>>
        /\ state'[Other(n)] = state[Other(n)] /\ queue'[Other(n)] = queue[Other(n)]
        /\ UNCHANGED end
    BY <1>0, <1>11 DEF handleCooperativeSettled, TypeInv
  <2>2. InLate(n)'
    BY <2>1, RequestPlaces, StatesApart DEF InLate, AskedStates, PartnerStates
  <2> QED BY <1>5, <2>1, <2>2
<1>12. ASSUME NEW n \in Nodes, NEW l \in Locks, Learned(n, l) PROVE LateInv'
  <2>1. \A k, j \in Nodes :
           /\ end'[k][j].pending \subseteq end[k][j].pending
           /\ end'[k][j].pending \cup end'[k][j].unclaimed
                 = end[k][j].pending \cup end[k][j].unclaimed
    BY <1>12, LearnedFacts
  <2>2. UNCHANGED <<queue, state>>
    BY <1>12 DEF Learned
  <2> QED BY <1>3, <2>1, <2>2
<1>13. ASSUME NEW n \in Nodes, handleBalanceEvent(n) PROVE LateInv'
  <2>1. /\ \A k, j \in Nodes : /\ end'[k][j].pending = end[k][j].pending
                               /\ end'[k][j].unclaimed = end[k][j].unclaimed
        /\ UNCHANGED <<queue, state>>
    BY <1>13, BalanceEventFacts
  <2> QED BY <1>3, <2>1
<1>14. ASSUME NEW call \in Agreements, withDraw(call) \/ cooperativeSettle(call)
       PROVE  LateInv'
  BY <1>4, <1>14, MinedFacts
<1>15. ASSUME NEW call \in Closes, prepareSettle(call) PROVE LateInv'
  BY <1>4, <1>15 DEF prepareSettle, vars
<1>16. ASSUME NEW n \in Nodes, depositInternal(n) PROVE LateInv'
  BY <1>4, <1>16 DEF depositInternal
<1>17. ASSUME NEW n \in Nodes, NEW r, NEW call, Called(n, r, call) PROVE LateInv'
  BY <1>4, <1>17 DEF Called
<1>18. ASSUME Idle PROVE LateInv'
  BY <1>4, <1>18 DEF Idle
<1>19. ASSUME NEW n \in Nodes, NEW call, Closed(n, call) PROVE LateInv'
  BY <1>9, <1>19 DEF Closed
<1>20. ASSUME NEW n \in Nodes, handleClosed(n) PROVE LateInv'
  BY <1>9, <1>20 DEF handleClosed
<1> QED BY <1>1, <1>2, <1>6, <1>7, <1>8, <1>10, <1>11, <1>12, <1>13, <1>14, <1>15, <1>16,
           <1>17, <1>18, <1>19, <1>20, NegStepKinds

(***************************************************************************)
(* The agreements.                                                         *)
(***************************************************************************)

\* What a step does to one node, within its epoch.
Steady(n) ==
    /\ epoch'[n] = epoch[n]
    /\ Late(n) => Late(n)'
    /\ state'[n] \in QuietStates => state[n] \in QuietStates
    /\ state[n] \notin QuietStates => LocksOf(n, Other(n))' \subseteq LocksOf(n, Other(n))

\* A step begins a new epoch at a node or leaves it steady.
LEMMA NodeSteps ==
    ASSUME TypeInv, FundedHere, [NegNext]_allVars, NEW m \in Nodes
    PROVE  handleWithdraw(m) \/ Steady(m)
<1> DEFINE L(k) == LocksOf(k, Other(k))
<1>0. /\ \A n \in Nodes : Other(n) \in Nodes /\ Other(n) # n /\ Other(Other(n)) = n
      /\ \A n, k \in Nodes : k = n \/ k = Other(n)
  BY TwoNodes, OtherNode
<1>1. ASSUME UNCHANGED <<epoch, state>>,
             state[m] \notin QuietStates => L(m)' \subseteq L(m)
      PROVE  Steady(m)
  BY <1>1 DEF Steady, Late
<1>2. ASSUME NEW n \in Nodes, NEW msg \in EnvelopMessage, Sent(n, msg)
      PROVE  Steady(m)
  <2>1. \A k, j \in Nodes : k # n \/ j # n => end'[k][j] = end[k][j]
    BY <1>2, SentFacts
  <2>2. L(m)' = L(m)
    BY <1>0, <2>1 DEF LocksOf
  <2> QED BY <1>1, <1>2, <2>2 DEF Sent
<1>3. ASSUME NEW n \in Nodes, NEW msg \in EnvelopMessage, Got(n, msg)
      PROVE  Steady(m)
  <2> DEFINE o == Other(n)
  <2>1. /\ end'[n][o] = RegisterTransfer(end[n][o], msg)
        /\ \A k, j \in Nodes : k # n \/ j # o => end'[k][j] = end[k][j]
    BY <1>3, GotFacts
  <2>2. /\ UNCHANGED <<epoch, state>>
        /\ msg.type = "MediatedTransfer" => state[n] \in QuietStates
    BY <1>3 DEF Got, QuietStates
  <2>3. state[n] \notin QuietStates => L(n)' \subseteq L(n)
    BY <1>0, <2>1, <2>2, EndFields, OnlyTransfersLock DEF LocksOf
  <2>4. L(o)' = L(o)
    BY <1>0, <2>1 DEF LocksOf
  <2> QED BY <1>0, <1>1, <2>2, <2>3, <2>4
<1>4. ASSUME NEW n \in Nodes, UNCHANGED <<end, epoch>>,
             \E s : /\ state' = [state EXCEPT ![n] = s]
                    /\ \/ state[n] \in QuietStates /\ s \in QuietStates
                       \/ state[n] \in QuietStates /\ s \in PartnerStates
                       \/ s \in AskedStates \cup EndStates
      PROVE  Steady(m)
  <2>1. L(m)' = L(m)
    BY <1>4 DEF LocksOf
  <2>2. CASE m # n
    <3>1. state'[m] = state[m]
      BY <1>4, <2>2 DEF TypeInv
    <3> QED BY <1>4, <2>1, <3>1 DEF Steady, Late
  <2>3. CASE m = n
    <3>1. \/ state[n] \in QuietStates /\ state'[n] \in QuietStates
          \/ state[n] \in QuietStates /\ state'[n] \in PartnerStates
          \/ state'[n] \in AskedStates \cup EndStates
      BY <1>4 DEF TypeInv
    <3>2. /\ Late(n) => Late(n)'
          /\ state'[n] \in QuietStates => state[n] \in QuietStates
      BY <3>1, StatesApart DEF Late
    <3> QED BY <1>4, <2>1, <2>3, <3>2 DEF Steady
  <2> QED BY <2>2, <2>3
<1>5. ASSUME NEW n \in Nodes, NEW s \in QuietStates, Prepared(n, s) PROVE Steady(m)
  BY <1>4, <1>5 DEF Prepared
<1>6. ASSUME NEW n \in Nodes, NEW s \in AskedStates, NEW req, Requested(n, req, s)
      PROVE  Steady(m)
  BY <1>4, <1>6 DEF Requested
<1>7. ASSUME NEW n \in Nodes, NEW req, NEW s, NEW r, Granted(n, req, s, r)
      PROVE  Steady(m)
  BY <1>4, <1>7 DEF Granted, QuietStates
<1>8. ASSUME NEW n \in Nodes, NEW call, Closed(n, call) PROVE Steady(m)
  BY <1>4, <1>8 DEF Closed, EndStates
<1>9. ASSUME NEW n \in Nodes, handleCooperativeSettled(n) \/ handleClosed(n) PROVE Steady(m)
  BY <1>4, <1>9 DEF handleCooperativeSettled, handleClosed, EndStates
<1>10. ASSUME NEW n \in Nodes, NEW l \in Locks, Learned(n, l) PROVE Steady(m)
  <2>1. \A k, j \in Nodes : end'[k][j].pending \cup end'[k][j].unclaimed
                               = end[k][j].pending \cup end[k][j].unclaimed
    BY <1>10, LearnedFacts
  <2>2. L(m)' = L(m)
    BY <1>0, <2>1 DEF LocksOf
  <2> QED BY <1>1, <1>10, <2>2 DEF Learned
<1>11. ASSUME NEW n \in Nodes, handleBalanceEvent(n) PROVE Steady(m)
  <2>1. /\ \A k, j \in Nodes : /\ end'[k][j].pending = end[k][j].pending
                               /\ end'[k][j].unclaimed = end[k][j].unclaimed
        /\ UNCHANGED <<epoch, state>>
    BY <1>11, BalanceEventFacts
  <2>2. L(m)' = L(m)
    BY <1>0, <2>1 DEF LocksOf
  <2> QED BY <1>1, <2>1, <2>2
<1>12. ASSUME UNCHANGED <<end, epoch, state>> PROVE Steady(m)
  BY <1>1, <1>12 DEF LocksOf
<1>13. ASSUME NEW call \in Agreements, withDraw(call) \/ cooperativeSettle(call)
       PROVE  Steady(m)
  BY <1>12, <1>13, MinedFacts
<1>14. ASSUME NEW n \in Nodes, handleWithdraw(n) PROVE handleWithdraw(m) \/ Steady(m)
  <2>1. CASE m = n
    BY <1>14, <2>1
  <2>2. CASE m # n
    <3>1. /\ epoch'[m] = epoch[m] /\ state'[m] = state[m]
          /\ \A j \in Nodes : end'[m][j] = end[m][j]
      BY <1>14, <2>2, WithdrawEventFacts
    <3>2. L(m)' = L(m)
      BY <1>0, <3>1 DEF LocksOf
    <3> QED BY <3>1, <3>2 DEF Steady, Late
  <2> QED BY <2>1, <2>2
<1>15. ASSUME NEW call \in Closes, prepareSettle(call) PROVE Steady(m)
  BY <1>12, <1>15 DEF prepareSettle, vars
<1>16. ASSUME NEW n \in Nodes, depositInternal(n) PROVE Steady(m)
  BY <1>12, <1>16 DEF depositInternal
<1>17. ASSUME NEW n \in Nodes, NEW r, NEW call, Called(n, r, call) PROVE Steady(m)
  BY <1>12, <1>17 DEF Called
<1>18. ASSUME Idle PROVE Steady(m)
  BY <1>12, <1>18 DEF Idle
<1> HIDE DEF L
<1> QED BY <1>2, <1>3, <1>5, <1>6, <1>7, <1>8, <1>9, <1>10, <1>11, <1>13, <1>14, <1>15,
           <1>16, <1>17, <1>18, NegStepKinds

\* What was agreed on stays agreed on.
LEMMA AgreedStays ==
    ASSUME TypeInv, FundedHere, [NegNext]_allVars, NEW e \in Nat, Agreed(e)
    PROVE  Agreed(e)'
<1>1. ASSUME NEW n \in Nodes
      PROVE  /\ epoch'[n] >= e
             /\ epoch'[n] = e => state'[n] \notin QuietStates /\ LocksOf(n, Other(n))' = {}
  <2>1. epoch[n] \in Nat /\ epoch[n] >= e
    BY DEF TypeInv, Agreed
  <2>2. CASE handleWithdraw(n)
    <3>1. epoch'[n] = epoch[n] + 1
      BY <2>2, WithdrawEventFacts
    <3> QED BY <2>1, <3>1
  <2>3. CASE Steady(n)
    BY <2>1, <2>3 DEF Steady, Agreed
  <2> QED BY <2>2, <2>3, NodeSteps
<1> QED BY <1>1 DEF Agreed

\* Where responses and calls come from.
LEMMA AgreementSteps ==
    ASSUME TypeInv, [NegNext]_allVars
    PROVE  \/ \E n \in Nodes, req \in Requests, s \in PartnerStates, r \in Responses :
                 Granted(n, req, s, r)
           \/ \E n \in Nodes, r \in Responses, call \in Agreements : Called(n, r, call)
           \/ responses' = responses /\ AgreedCalls' \subseteq AgreedCalls
<1>1. ASSUME NEW n \in Nodes, NEW call \in Closes, Closed(n, call)
      PROVE  responses' = responses /\ AgreedCalls' \subseteq AgreedCalls
  <2>1. call \notin Agreements
    BY DEF Closes, Agreements
  <2> QED BY <1>1, <2>1 DEF Closed, AgreedCalls
<1>2. ASSUME NEW call \in Agreements, withDraw(call) \/ cooperativeSettle(call)
      PROVE  responses' = responses /\ AgreedCalls' \subseteq AgreedCalls
  BY <1>2, MinedFacts DEF AgreedCalls
<1>3. ASSUME NEW call \in Closes, prepareSettle(call)
      PROVE  responses' = responses /\ AgreedCalls' \subseteq AgreedCalls
  BY <1>3 DEF prepareSettle, AgreedCalls
<1>4. ASSUME UNCHANGED <<responses, calls>>
      PROVE  responses' = responses /\ AgreedCalls' \subseteq AgreedCalls
  BY <1>4 DEF AgreedCalls
<1> QED BY <1>1, <1>2, <1>3, <1>4, NegStepKinds
        DEF Sent, Got, Learned, Prepared, Requested, Idle, agreeVars, depositInternal,
            handleBalanceEvent, handleWithdraw, handleCooperativeSettled, handleClosed,
            HandleEvent

\* A call that is sent has been agreed to.
LEMMA CalledFacts ==
    ASSUME TypeInv, NEW n \in Nodes, NEW r, NEW call \in Agreements, Called(n, r, call)
    PROVE  /\ r \in responses[Other(n)] /\ r.epoch = epoch[n] /\ call.epoch = epoch[n]
           /\ responses'[Other(n)] = responses[Other(n)] \ {r}
           /\ responses'[n] = responses[n]
           /\ AgreedCalls' = AgreedCalls \cup {call}
           /\ call.who = n /\ call.counted = end[n][n].contractBalance
           /\ Value(call) = BalanceOf(n, n)
           /\ UNCHANGED <<end, queue, ledgerVars, state, epoch, pendingDeposit, seen>>
<1>1. Other(n) \in Nodes /\ Other(n) # n
  BY OtherNode
<1> QED BY <1>1 DEF Called, AgreedCalls, TypeInv

\* What n grants both ends have agreed to.
LEMMA GrantIsAgreed ==
    ASSUME TypeInv, LateInv, NEW n \in Nodes, NEW req, NEW s, NEW r,
           Granted(n, req, s, r)
    PROVE  /\ Agreed(epoch[n])' /\ epoch'[Other(n)] = epoch'[n] /\ Late(Other(n))'
           /\ epoch[n] \in Nat
<1> DEFINE o == Other(n)
<1>1. o \in Nodes /\ o # n /\ Other(o) = n
  BY OtherNode
<1>2. /\ queue[o] # <<>> /\ Head(queue[o]) \in Requests
      /\ state'[n] = s /\ s \in PartnerStates /\ state'[o] = state[o]
      /\ SameEpoch /\ LocksOf(n, o) = {} /\ UNCHANGED <<end, epoch>>
  BY GrantedFacts
<1>3. queue[o] \in Seq(Messages) /\ epoch[n] \in Nat
  BY <1>1 DEF TypeInv, Messages
<1>4. HasRequest(queue[o])
  BY <1>2, <1>3, RequestPlaces
<1>5. Late(o) /\ LocksOf(o, n) = {}
  BY <1>1, <1>4 DEF LateInv, InLate
<1>6. epoch[o] = epoch[n]
  BY <1>2, EpochsOf
<1>7. state'[n] \notin QuietStates /\ state'[o] \notin QuietStates /\ Late(o)'
  BY <1>1, <1>2, <1>5, StatesApart DEF Late
<1>8. LocksOf(n, o)' = {} /\ LocksOf(o, n)' = {}
  BY <1>2, <1>5 DEF LocksOf
<1>9. \A k \in Nodes : k = n \/ k = o
  BY TwoNodes
<1>10. \A k \in Nodes :
          /\ epoch'[k] >= epoch'[n]
          /\ epoch'[k] = epoch'[n] =>
                state'[k] \notin QuietStates /\ LocksOf(k, Other(k))' = {}
  <2>1. epoch'[n] >= epoch'[n] /\ epoch'[o] >= epoch'[n]
    BY <1>2, <1>3, <1>6
  <2> QED BY <1>1, <1>7, <1>8, <1>9, <2>1
<1>11. Agreed(epoch[n])'
  BY <1>10 DEF Agreed
<1> QED BY <1>2, <1>3, <1>6, <1>7, <1>11

\* Every step keeps what an agreement says of both ends.
LEMMA AgreeStep ==
    ASSUME TypeInv, FundedHere, LateInv, AgreeInv, [NegNext]_allVars
    PROVE  AgreeInv'
<1>0. /\ \A n \in Nodes : \A r \in responses[n] : r.epoch \in Nat
      /\ \A c \in AgreedCalls : c.epoch \in Nat
  <2>1. \A n \in Nodes : \A r \in responses[n] : r \in Responses
    BY DEF TypeInv
  <2>2. \A r \in Responses : r.epoch \in Nat
    BY DEF Responses
  <2>3. \A c \in Agreements : c.epoch \in Nat
    BY DEF Agreements
  <2> QED BY <2>1, <2>2, <2>3 DEF AgreedCalls
<1>1. /\ \A n \in Nodes : \A r \in responses[n] : Agreed(r.epoch)'
      /\ \A c \in AgreedCalls : Agreed(c.epoch)'
  <2>1. ASSUME NEW n \in Nodes, NEW r \in responses[n] PROVE Agreed(r.epoch)'
    <3>1. r.epoch \in Nat /\ Agreed(r.epoch)
      BY <1>0 DEF AgreeInv
    <3> QED BY <3>1, AgreedStays
  <2>2. ASSUME NEW c \in AgreedCalls PROVE Agreed(c.epoch)'
    <3>1. c.epoch \in Nat /\ Agreed(c.epoch)
      BY <1>0 DEF AgreeInv
    <3> QED BY <3>1, AgreedStays
  <2> QED BY <2>1, <2>2
<1>2. /\ \A n \in Nodes : \A r \in responses'[n] : Agreed(r.epoch)'
      /\ \A c \in AgreedCalls' : Agreed(c.epoch)'
  <2>1. CASE \E n \in Nodes, req \in Requests, s \in PartnerStates, r \in Responses :
                Granted(n, req, s, r)
    <3>1. PICK n \in Nodes, req \in Requests, s \in PartnerStates, r \in Responses :
                Granted(n, req, s, r)
      BY <2>1
    <3>2. /\ responses'[n] = responses[n] \cup {r} /\ r.epoch = epoch[n]
          /\ responses'[Other(n)] = responses[Other(n)] /\ UNCHANGED <<calls, epoch>>
      BY <3>1, GrantedFacts
    <3>3. Agreed(r.epoch)'
      <4>1. Agreed(epoch[n])'
        BY <3>1, GrantIsAgreed
      <4> QED BY <3>2, <4>1 DEF Agreed
    <3>4. \A k \in Nodes : k = n \/ k = Other(n)
      BY TwoNodes
    <3>5. AgreedCalls' = AgreedCalls
      BY <3>2 DEF AgreedCalls
    <3> QED BY <1>1, <3>2, <3>3, <3>4, <3>5
  <2>2. CASE \E n \in Nodes, r \in Responses, call \in Agreements : Called(n, r, call)
    <3>1. PICK n \in Nodes, r \in Responses, call \in Agreements : Called(n, r, call)
      BY <2>2
    <3>2. /\ r \in responses[Other(n)] /\ r.epoch = call.epoch
          /\ responses'[Other(n)] = responses[Other(n)] \ {r}
          /\ responses'[n] = responses[n]
          /\ AgreedCalls' = AgreedCalls \cup {call}
      BY <3>1, CalledFacts
    <3>3. Other(n) \in Nodes /\ \A k \in Nodes : k = n \/ k = Other(n)
      BY TwoNodes, OtherNode
    <3>4. Agreed(call.epoch)'
      <4>1. Agreed(r.epoch)'
        BY <1>1, <3>2, <3>3
      <4> QED BY <3>2, <4>1
    <3> QED BY <1>1, <3>2, <3>3, <3>4
  <2>3. CASE responses' = responses /\ AgreedCalls' \subseteq AgreedCalls
    BY <1>1, <2>3
  <2> QED BY <2>1, <2>2, <2>3, AgreementSteps
<1>3. ASSUME NEW n \in Nodes, state'[n] \in PartnerStates
      PROVE  /\ epoch'[Other(n)] >= epoch'[n]
             /\ epoch'[Other(n)] = epoch'[n] => Late(Other(n))'
  <2> DEFINE o == Other(n)
  <2>1. o \in Nodes /\ epoch[n] \in Nat /\ epoch[o] \in Nat
    BY OtherNode DEF TypeInv
  <2>2. CASE state[n] \in PartnerStates
    <3>1. ~ handleWithdraw(n)
      <4>1. handleWithdraw(n) => state'[n] = "Opened"
        BY WithdrawEventFacts
      <4> QED BY <1>3, <4>1 DEF PartnerStates
    <3>2. epoch'[n] = epoch[n]
      BY <3>1, NodeSteps DEF Steady
    <3>3. epoch[o] >= epoch[n] /\ (epoch[o] = epoch[n] => Late(o))
      BY <2>2 DEF AgreeInv
    <3>4. CASE handleWithdraw(o)
      <4>1. epoch'[o] = epoch[o] + 1
        BY <2>1, <3>4, WithdrawEventFacts
      <4> QED BY <2>1, <3>2, <3>3, <4>1
    <3>5. CASE Steady(o)
      BY <3>2, <3>3, <3>5 DEF Steady
    <3> QED BY <2>1, <3>4, <3>5, NodeSteps
  <2>3. CASE state[n] \notin PartnerStates
    <3>1. \E req, s, r : Granted(n, req, s, r)
      <4>1. ASSUME state'[n] = state[n] PROVE FALSE
        BY <1>3, <2>3, <4>1
      <4>2. ASSUME NEW k \in Nodes, NEW s, s \notin PartnerStates,
                   state' = [state EXCEPT ![k] = s]
            PROVE  FALSE
        <5>1. CASE k = n
          BY <1>3, <4>2, <5>1 DEF TypeInv
        <5>2. CASE k # n
          BY <4>1, <4>2, <5>2 DEF TypeInv
        <5> QED BY <5>1, <5>2
      <4>3. ASSUME NEW k \in Nodes, NEW s \in QuietStates, Prepared(k, s) PROVE FALSE
        BY <4>2, <4>3 DEF Prepared, QuietStates, PrepareStates, PartnerStates
      <4>4. ASSUME NEW k \in Nodes, NEW s \in AskedStates, NEW req, Requested(k, req, s)
            PROVE  FALSE
        BY <4>2, <4>4 DEF Requested, AskedStates, PartnerStates
      <4>5. ASSUME NEW k \in Nodes, NEW call, Closed(k, call) PROVE FALSE
        BY <4>2, <4>5 DEF Closed, PartnerStates
      <4>6. ASSUME NEW k \in Nodes,
                   \/ handleWithdraw(k) \/ handleClosed(k) \/ handleCooperativeSettled(k)
            PROVE  FALSE
        BY <4>2, <4>6 DEF handleWithdraw, handleClosed, handleCooperativeSettled, PartnerStates
      <4>7. ASSUME UNCHANGED state PROVE FALSE
        BY <4>1, <4>7
      <4>8. ASSUME NEW call \in Agreements, withDraw(call) \/ cooperativeSettle(call)
            PROVE  FALSE
        BY <4>7, <4>8, MinedFacts
      <4>9. ASSUME NEW k \in Nodes, k # n, NEW req, NEW s, NEW r, Granted(k, req, s, r)
            PROVE  FALSE
        BY <4>1, <4>9 DEF Granted, TypeInv
      <4> QED BY <4>3, <4>4, <4>5, <4>6, <4>7, <4>8, <4>9, NegStepKinds
              DEF Sent, Got, Learned, Called, Idle, prepareSettle, depositInternal,
                  handleBalanceEvent
    <3>2. epoch'[o] = epoch'[n] /\ Late(o)' /\ UNCHANGED epoch
      BY <3>1, GrantIsAgreed, GrantedFacts
    <3> QED BY <2>1, <3>2
  <2> QED BY <2>2, <2>3
<1> QED BY <1>2, <1>3 DEF AgreeInv

\* Every step keeps the agreement of an epoch unique.
LEMMA UniqueStep ==
    ASSUME TypeInv, LateInv, AgreeInv, UniqueInv, [NegNext]_allVars
    PROVE  UniqueInv'
<1>1. CASE responses' = responses /\ AgreedCalls' \subseteq AgreedCalls
  BY <1>1 DEF UniqueInv
<1>2. ASSUME NEW n \in Nodes, NEW req, NEW s, NEW r, Granted(n, req, s, r)
      PROVE  UniqueInv'
  <2>1. /\ responses'[n] = responses[n] \cup {r} /\ r.epoch = epoch[n]
        /\ responses'[Other(n)] = responses[Other(n)] /\ UNCHANGED calls
        /\ state[n] = "Opened"
    BY <1>2, GrantedFacts
  <2>2. ~ Agreed(epoch[n])
    BY <2>1 DEF Agreed, QuietStates
  <2>3. /\ \A k \in Nodes : \A q \in responses[k] : q.epoch # r.epoch
        /\ \A c \in AgreedCalls : c.epoch # r.epoch
    BY <2>1, <2>2 DEF AgreeInv
  <2>4. \A k \in Nodes : k = n \/ k = Other(n)
    BY TwoNodes
  <2>5. AgreedCalls' = AgreedCalls
    BY <2>1 DEF AgreedCalls
  <2>6. \A k \in Nodes : \A q \in responses'[k] : q \in responses[k] \/ (k = n /\ q = r)
    BY <2>1, <2>4
  <2>7. ASSUME NEW k \in Nodes, NEW j \in Nodes, NEW p \in responses'[k],
               NEW q \in responses'[j], p.epoch = q.epoch
        PROVE  k = j /\ p = q
    <3>1. CASE p \in responses[k] /\ q \in responses[j]
      BY <2>7, <3>1 DEF UniqueInv
    <3>2. CASE k = n /\ p = r /\ q \in responses[j]
      BY <2>3, <2>7, <3>2
    <3>3. CASE j = n /\ q = r /\ p \in responses[k]
      BY <2>3, <2>7, <3>3
    <3>4. CASE k = n /\ p = r /\ j = n /\ q = r
      BY <3>4
    <3> QED BY <2>6, <3>1, <3>2, <3>3, <3>4
  <2>8. ASSUME NEW k \in Nodes, NEW q \in responses'[k], NEW c \in AgreedCalls
        PROVE  q.epoch # c.epoch
    BY <2>3, <2>6 DEF UniqueInv
  <2> QED BY <2>5, <2>7, <2>8 DEF UniqueInv
<1>3. ASSUME NEW n \in Nodes, NEW r, NEW call \in Agreements, Called(n, r, call)
      PROVE  UniqueInv'
  <2> DEFINE o == Other(n)
  <2>1. /\ r \in responses[o] /\ r.epoch = call.epoch
        /\ responses'[o] = responses[o] \ {r} /\ responses'[n] = responses[n]
        /\ AgreedCalls' = AgreedCalls \cup {call}
    BY <1>3, CalledFacts
  <2>2. o \in Nodes /\ o # n /\ \A k \in Nodes : k = n \/ k = o
    BY TwoNodes, OtherNode
  <2> HIDE DEF o
  <2>3. \A k \in Nodes : \A q \in responses'[k] : q \in responses[k] /\ (k # o \/ q # r)
    BY <2>1, <2>2
  <2>4. \A k, j \in Nodes : \A p \in responses'[k], q \in responses'[j] :
           p.epoch = q.epoch => k = j /\ p = q
    BY <2>3 DEF UniqueInv
  <2>5. ASSUME NEW k \in Nodes, NEW q \in responses'[k], NEW c \in AgreedCalls'
        PROVE  q.epoch # c.epoch
    <3>1. CASE c \in AgreedCalls
      BY <2>3, <3>1 DEF UniqueInv
    <3>2. CASE c = call
      <4>1. q.epoch = r.epoch => k = o /\ q = r
        BY <2>1, <2>2, <2>3 DEF UniqueInv
      <4> QED BY <2>1, <2>3, <3>2, <4>1
    <3> QED BY <2>1, <3>1, <3>2
  <2>6. ASSUME NEW c \in AgreedCalls', NEW d \in AgreedCalls', c.epoch = d.epoch
        PROVE  c = d
    <3>1. \A x \in AgreedCalls : x.epoch # call.epoch
      BY <2>1, <2>2 DEF UniqueInv
    <3>2. CASE c \in AgreedCalls /\ d \in AgreedCalls
      BY <2>6, <3>2 DEF UniqueInv
    <3> QED BY <2>1, <2>6, <3>1, <3>2
  <2> QED BY <2>4, <2>5, <2>6 DEF UniqueInv
<1> QED BY <1>1, <1>2, <1>3, AgreementSteps

\* A node that has agreed takes no payment any more: what it counts can only
\* fall, by a lock of its own that it unlocks.
LEMMA NetFalls ==
    ASSUME TypeInv, BooksMatchProof, FundedHere, TrailInv, LateInv, [NegNext]_allVars,
           NEW m \in Nodes, state[m] \notin QuietStates, epoch'[m] = epoch[m]
    PROVE  Net(m) \in Int /\ Net(m)' \in Int /\ Net(m)' <= Net(m)
<1> DEFINE o == Other(m)
<1>0. o \in Nodes /\ o # m /\ \A n, k \in Nodes : k = n \/ k = Other(n)
  BY TwoNodes, OtherNode
<1>1. end[m][m].bp.transferAmount \in Nat /\ end[m][o].bp.transferAmount \in Nat
  BY <1>0, EndFields
<1>2. /\ Net(m) = end[m][o].bp.transferAmount - end[m][m].bp.transferAmount
      /\ Net(m)' = end'[m][o].bp.transferAmount - end'[m][m].bp.transferAmount
  BY DEF Net
<1>3. SUFFICES /\ end'[m][o].bp.transferAmount = end[m][o].bp.transferAmount
               /\ end'[m][m].bp.transferAmount \in Nat
               /\ end[m][m].bp.transferAmount <= end'[m][m].bp.transferAmount
  BY <1>1, <1>2
<1>4. ASSUME \A j \in Nodes : end'[m][j].bp = end[m][j].bp
      PROVE  /\ end'[m][o].bp.transferAmount = end[m][o].bp.transferAmount
             /\ end'[m][m].bp.transferAmount \in Nat
             /\ end[m][m].bp.transferAmount <= end'[m][m].bp.transferAmount
  BY <1>0, <1>1, <1>4
<1>5. ASSUME NEW n \in Nodes, NEW msg \in EnvelopMessage, Sent(n, msg)
      PROVE  /\ end'[m][o].bp.transferAmount = end[m][o].bp.transferAmount
             /\ end'[m][m].bp.transferAmount \in Nat
             /\ end[m][m].bp.transferAmount <= end'[m][m].bp.transferAmount
  <2>1. /\ end'[n][n].bp = msg.bp /\ msg.bp.transferAmount \in Nat
        /\ \A k, j \in Nodes : k # n \/ j # n => end'[k][j] = end[k][j]
    BY <1>5, SentFacts DEF EnvelopMessage, BalanceProofState
  <2>2. end[n][n].bp.transferAmount <= msg.bp.transferAmount
    <3>1. /\ end[n][n] \in EndState /\ Books(end[n][n])
          /\ RegisterTransferOK(end[n][n], end[n][Other(n)], msg, blk[n])
          /\ msg.type = "MediatedTransfer" =>
                msg.bp.transferAmount = end[n][n].bp.transferAmount
      BY <1>5, EndFields DEF BooksMatchProof, Sent
    <3> QED BY <3>1, AcceptedFollows
  <2>3. CASE n = m
    BY <1>0, <2>1, <2>2, <2>3
  <2>4. CASE n # m
    BY <1>0, <1>1, <2>1, <2>4
  <2> QED BY <2>3, <2>4
<1>6. ASSUME NEW n \in Nodes, NEW msg \in EnvelopMessage, Got(n, msg)
      PROVE  /\ end'[m][o].bp.transferAmount = end[m][o].bp.transferAmount
             /\ end'[m][m].bp.transferAmount \in Nat
             /\ end[m][m].bp.transferAmount <= end'[m][m].bp.transferAmount
  <2>1. /\ end'[n][Other(n)].bp = msg.bp
        /\ \A k, j \in Nodes : k # n \/ j # Other(n) => end'[k][j] = end[k][j]
    BY <1>6, GotFacts
  <2>2. CASE n = m
    <3>1. msg.type = "RemoveExpired"
      BY <1>6, <2>2 DEF Got
    <3>2. Follows(end[m][o].bp, msg)
      BY <1>6, <2>2, GotTrail
    <3>3. msg.bp.transferAmount = end[m][o].bp.transferAmount
      BY <3>1, <3>2 DEF Follows
    <3>4. end'[m][o].bp = msg.bp /\ end'[m][m] = end[m][m]
      BY <1>0, <2>1, <2>2
    <3> QED BY <1>1, <3>3, <3>4
  <2>3. CASE n # m
    BY <1>4, <2>1, <2>3
  <2> QED BY <2>2, <2>3
<1>7. ASSUME NEW n \in Nodes, NEW l \in Locks, Learned(n, l)
      PROVE  \A j \in Nodes : end'[m][j].bp = end[m][j].bp
  BY <1>7, LearnedFacts
<1>8. ASSUME NEW n \in Nodes, handleBalanceEvent(n)
      PROVE  \A j \in Nodes : end'[m][j].bp = end[m][j].bp
  BY <1>8, BalanceEventFacts
<1>9. ASSUME NEW n \in Nodes, handleWithdraw(n)
      PROVE  \A j \in Nodes : end'[m][j].bp = end[m][j].bp
  <2>1. /\ epoch'[n] = epoch[n] + 1 /\ \A k, j \in Nodes : k # n => end'[k][j] = end[k][j]
    BY <1>9, WithdrawEventFacts
  <2>2. n # m
    <3>1. epoch[m] \in Nat
      BY DEF TypeInv
    <3> QED BY <2>1, <3>1
  <2> QED BY <2>1, <2>2
<1>10. ASSUME UNCHANGED end
       PROVE  \A j \in Nodes : end'[m][j].bp = end[m][j].bp
  BY <1>10
<1> HIDE DEF o
<1> QED BY <1>4, <1>5, <1>6, <1>7, <1>8, <1>9, <1>10, BookSteps

\* Every step keeps what the agreements are worth.
LEMMA CallStep ==
    ASSUME TypeInv, TypeInv', BooksMatchProof, FundedHere, EpochInv, DepositInv, TrailInv,
           LateInv, AgreeInv, CallInv, [NegNext]_allVars
    PROVE  CallInv'
<1>1. ASSUME NEW c \in AgreedCalls
      PROVE  /\ epoch'[c.who] = c.epoch => Value(c) >= c.counted + Net(c.who)'
             /\ epoch'[Other(c.who)] = c.epoch => Value(c) + Net(Other(c.who))' <= c.counted
             /\ c.epoch = contract'.epoch => c.counted <= deposit'[c.who]
  <2>1. /\ c.who \in Nodes /\ c.epoch \in Nat /\ c.counted \in Nat /\ Value(c) \in Nat
        /\ Other(c.who) \in Nodes
    <3>1. c \in Agreements
      BY DEF AgreedCalls
    <3>2. c.who \in Nodes /\ c.epoch \in Nat /\ c.counted \in Nat
      BY <3>1 DEF Agreements
    <3>3. Value(c) \in Nat
      BY <3>1, <3>2 DEF Agreements, Value
    <3> QED BY <3>2, <3>3, OtherNode
  <2>2. Agreed(c.epoch)
    BY DEF AgreeInv
  <2>3. ASSUME NEW k \in Nodes, epoch'[k] = c.epoch
        PROVE  /\ epoch[k] = c.epoch
               /\ Net(k) \in Int /\ Net(k)' \in Int /\ Net(k)' <= Net(k)
    <3>1. epoch[k] \in Nat /\ epoch[k] >= c.epoch
      BY <2>2 DEF TypeInv, Agreed
    <3>2. ~ handleWithdraw(k)
      <4>1. handleWithdraw(k) => epoch'[k] = epoch[k] + 1
        BY WithdrawEventFacts
      <4> QED BY <2>1, <2>3, <3>1, <4>1
    <3>3. epoch'[k] = epoch[k]
      BY <3>2, NodeSteps DEF Steady
    <3>4. state[k] \notin QuietStates
      BY <2>2, <2>3, <3>3 DEF Agreed
    <3> QED BY <2>3, <3>3, <3>4, NetFalls
  <2>4. ASSUME epoch'[c.who] = c.epoch PROVE Value(c) >= c.counted + Net(c.who)'
    <3>1. Value(c) >= c.counted + Net(c.who)
      BY <2>1, <2>3, <2>4 DEF CallInv
    <3>2. /\ Net(c.who) \in Int /\ Net(c.who)' \in Int /\ Net(c.who)' <= Net(c.who)
      BY <2>1, <2>3, <2>4
    <3> QED BY <2>1, <3>1, <3>2
  <2>5. ASSUME epoch'[Other(c.who)] = c.epoch
        PROVE  Value(c) + Net(Other(c.who))' <= c.counted
    <3>1. Value(c) + Net(Other(c.who)) <= c.counted
      BY <2>1, <2>3, <2>5 DEF CallInv
    <3>2. /\ Net(Other(c.who)) \in Int /\ Net(Other(c.who))' \in Int
          /\ Net(Other(c.who))' <= Net(Other(c.who))
      BY <2>1, <2>3, <2>5
    <3> QED BY <2>1, <3>1, <3>2
  <2>6. ASSUME c.epoch = contract'.epoch PROVE c.counted <= deposit'[c.who]
    <3>1. deposit[c.who] \in Nat /\ deposit'[c.who] \in Nat
      BY <2>1 DEF TypeInv
    <3>2. ASSUME contract'.epoch = contract.epoch, deposit'[c.who] >= deposit[c.who]
          PROVE  c.counted <= deposit'[c.who]
      BY <2>1, <2>6, <3>1, <3>2 DEF CallInv
    <3>3. contract'.epoch # contract.epoch + 1
      <4>1. /\ epoch[c.who] \in Nat /\ contract.epoch \in Nat
            /\ epoch[c.who] <= contract.epoch /\ epoch[c.who] >= c.epoch
        BY <2>1, <2>2, EpochFacts DEF Agreed
      <4> QED BY <2>1, <2>6, <4>1
    <3>4. CASE \/ \E call \in Agreements : withDraw(call) \/ cooperativeSettle(call)
               \/ \E call \in Closes : prepareSettle(call)
               \/ \E n \in Nodes : depositInternal(n)
      <4>1. PICK ev \in Events :
               IF ev.type = "ChannelWithdraw"
               THEN contract'.epoch = contract.epoch + 1
               ELSE contract'.epoch = contract.epoch /\ \A m \in Nodes : deposit'[m] >= deposit[m]
        BY <3>4, ContractLogs
      <4> QED BY <2>1, <3>2, <3>3, <4>1
    <3>5. CASE UNCHANGED <<deposit, contract>>
      BY <3>1, <3>2, <3>5
    <3>6. ASSUME NEW n \in Nodes, \/ handleBalanceEvent(n) \/ handleWithdraw(n)
                                  \/ handleCooperativeSettled(n) \/ handleClosed(n)
          PROVE  UNCHANGED <<deposit, contract>>
      BY <3>6 DEF handleBalanceEvent, handleWithdraw, handleCooperativeSettled, handleClosed,
                  HandleEvent, chainVars
    <3> QED BY <3>4, <3>5, <3>6, ChainSteps
  <2> QED BY <2>4, <2>5, <2>6
<1>2. ASSUME NEW n \in Nodes, NEW r, NEW call \in Agreements, Called(n, r, call)
      PROVE  /\ epoch'[call.who] = call.epoch => Value(call) >= call.counted + Net(call.who)'
             /\ epoch'[Other(call.who)] = call.epoch =>
                   Value(call) + Net(Other(call.who))' <= call.counted
             /\ call.epoch = contract'.epoch => call.counted <= deposit'[call.who]
  <2> DEFINE o == Other(n)
  <2>1. /\ call.epoch = epoch[n] /\ call.who = n /\ call.counted = end[n][n].contractBalance
        /\ Value(call) = BalanceOf(n, n)
        /\ UNCHANGED <<end, ledgerVars, epoch>>
    BY <1>2, CalledFacts
  <2>2. o \in Nodes /\ o # n /\ Other(o) = n
    BY OtherNode
  <2>3. Net(n)' = Net(n) /\ Net(o)' = Net(o) /\ UNCHANGED <<contract, deposit>>
    BY <2>1 DEF Net, ledgerVars
  <2>4. /\ end[n][n].bp.transferAmount \in Nat /\ end[n][o].bp.transferAmount \in Nat
        /\ end[o][n].bp.transferAmount \in Nat /\ end[o][o].bp.transferAmount \in Nat
        /\ end[n][n].contractBalance \in Nat
    BY <2>2, EndFields
  <2>5. /\ Net(n) = end[n][o].bp.transferAmount - end[n][n].bp.transferAmount
        /\ Net(o) = end[o][n].bp.transferAmount - end[o][o].bp.transferAmount
    BY <2>2 DEF Net
  <2>6. BalanceOf(n, n) = end[n][n].contractBalance - end[n][n].bp.transferAmount
                             + end[n][o].bp.transferAmount
    BY DEF BalanceOf, Balance
  <2>7. Value(call) = call.counted + Net(n) /\ Value(call) \in Int /\ Net(n) \in Int
        /\ call.counted \in Nat
    BY <2>1, <2>4, <2>5, <2>6
  <2>8. ASSUME epoch[o] = epoch[n] PROVE Value(call) + Net(o) <= call.counted
    <3>1. SameEpoch
      BY <2>8, EpochsOf
    <3>2. /\ end[n][o].bp.transferAmount <= end[o][o].bp.transferAmount
          /\ end[o][n].bp.transferAmount <= end[n][n].bp.transferAmount
      BY <2>2, <3>1 DEF TrailInv, InTrail
    <3> QED BY <2>4, <2>5, <2>7, <3>2
  <2>9. epoch[n] = contract.epoch => end[n][n].contractBalance <= deposit[n]
    BY DEF DepositInv
  <2>10. Value(call) >= call.counted + Net(n)
    BY <2>7
  <2> QED BY <2>1, <2>3, <2>8, <2>9, <2>10
<1>3. \A c \in AgreedCalls' : \/ c \in AgreedCalls
                              \/ \E n \in Nodes, r \in Responses : c \in Agreements /\ Called(n, r, c)
  <2>1. CASE \E n \in Nodes, req \in Requests, s \in PartnerStates, r \in Responses :
                Granted(n, req, s, r)
    BY <2>1 DEF Granted, AgreedCalls
  <2>2. CASE \E n \in Nodes, r \in Responses, call \in Agreements : Called(n, r, call)
    BY <2>2, CalledFacts
  <2> QED BY <2>1, <2>2, AgreementSteps
<1>4. ASSUME NEW c \in AgreedCalls'
      PROVE  /\ epoch'[c.who] = c.epoch => Value(c) >= c.counted + Net(c.who)'
             /\ epoch'[Other(c.who)] = c.epoch => Value(c) + Net(Other(c.who))' <= c.counted
             /\ c.epoch = contract'.epoch => c.counted <= deposit'[c.who]
  BY <1>1, <1>2, <1>3
<1> QED BY <1>4 DEF CallInv, Value

(***************************************************************************)
(* The invariant.                                                          *)
(***************************************************************************)

\* It holds when the channel has been opened.
LEMMA NegInvInit == NegInit => NegInv
<1> SUFFICES ASSUME NegInit PROVE NegInv
  OBVIOUS
<1>1. /\ \A n, m \in Nodes : end[n][m] = NewChannelEndState(InitDeposit[m])
      /\ deposit = InitDeposit
      /\ \A n \in Nodes :
            /\ queue[n] = <<>> /\ state[n] = "Opened" /\ epoch[n] = 0 /\ seen[n] = 0
            /\ responses[n] = {}
      /\ calls = {} /\ log = <<>> /\ contract.epoch = 0
  BY DEF NegInit, Init
<1>2. ASSUME NEW x \in Nat
      PROVE  /\ NewChannelEndState(x) \in EndState
             /\ NewChannelEndState(x).bp = NoProof /\ NewChannelEndState(x).contractBalance = x
             /\ Books(NewChannelEndState(x))
  BY DEF NewChannelEndState, NoProof, EndState, BalanceProofState, Books
<1>3. \A n, m \in Nodes :
         /\ end[n][m].bp = NoProof /\ Books(end[n][m])
         /\ end[n][m].contractBalance = InitDeposit[m] /\ InitDeposit[m] \in Nat
  BY <1>1, <1>2, NumbersAssumption
<1>4. NoProof \in BalanceProofState /\ NoProof.transferAmount = 0 /\ Owed(NoProof) = 0
  BY LockSums DEF NoProof, BalanceProofState, Owed
<1>5. TypeInv
  <2>1. end \in [Nodes -> [Nodes -> EndState]]
    BY <1>2, NumbersAssumption DEF NegInit, Init
  <2>2. queue \in [Nodes -> Seq(EnvelopMessage \cup Requests)]
    BY DEF NegInit, Init
  <2>3. log \in Seq(Events) /\ Len(log) = 0 /\ seen \in [Nodes -> 0..Len(log)]
    BY DEF NegInit
  <2>4. /\ deposit \in [Nodes -> Nat]
        /\ state \in [Nodes -> QuietStates \cup PartnerStates \cup AskedStates \cup EndStates]
        /\ epoch \in [Nodes -> Nat] /\ responses \in [Nodes -> SUBSET Responses]
        /\ pendingDeposit \in [Nodes -> BOOLEAN] /\ calls \subseteq Agreements \cup Closes
        /\ contract \in [state : {"open", "closed", "gone"}, epoch : Nat]
        /\ paid \in [Nodes -> Nat]
    BY NumbersAssumption DEF NegInit, Init, QuietStates
  <2> QED BY <2>1, <2>2, <2>3, <2>4 DEF TypeInv
<1>6. BooksMatchProof
  BY <1>3 DEF BooksMatchProof
<1>7. FundedHere
  <2>1. ASSUME NEW n \in Nodes, NEW m \in Nodes
        PROVE  Owed(end[n][m].bp)
                  <= end[n][m].contractBalance + end[n][Other(m)].bp.transferAmount
    <3>1. /\ end[n][m].bp = NoProof /\ end[n][Other(m)].bp = NoProof
          /\ end[n][m].contractBalance \in Nat
      BY <1>3, OtherNode
    <3> QED BY <1>4, <3>1
  <2> QED BY <2>1 DEF FundedHere
<1>8. EpochInv
  <2>1. Len(log) = 0
    BY <1>1
  <2>2. 1..0 = {}
    OBVIOUS
  <2>3. {i \in 1..0 : log[i].type = "ChannelWithdraw"} = {}
    BY <2>2
  <2>4. Withdrawals(log, 0) = 0
    BY <2>3, FS_EmptySet DEF Withdrawals
  <2> QED BY <1>1, <2>1, <2>4 DEF EpochInv
<1>9. DepositInv
  <2>1. 1..Len(log) = {}
    BY <1>1
  <2>2. \A n, m \in Nodes : end[n][m].contractBalance <= deposit[m]
    BY <1>1, <1>3
  <2> QED BY <2>1, <2>2 DEF DepositInv
<1>10. TrailInv
  <2>1. ASSUME NEW s \in Nodes PROVE InTrail(s)
    <3>1. /\ end[Other(s)][s].bp = NoProof /\ end[s][s].bp = NoProof /\ queue[s] = <<>>
      BY <1>1, <1>3, OtherNode
    <3>2. Base(s) = NoProof
      BY <3>1 DEF Base
    <3> QED BY <1>4, <3>1, <3>2, TrailEmpty DEF InTrail
  <2> QED BY <2>1 DEF TrailInv
<1>11. LateInv
  <2>1. ASSUME NEW n \in Nodes PROVE InLate(n)
    BY <1>1, RequestPlaces DEF InLate, AskedStates, PartnerStates
  <2> QED BY <2>1 DEF LateInv
<1>12. AgreeInv /\ UniqueInv /\ CallInv
  <2>1. /\ AgreedCalls = {}
        /\ \A n \in Nodes : responses[n] = {} /\ state[n] \notin PartnerStates
    BY <1>1 DEF AgreedCalls, PartnerStates
  <2> QED BY <2>1 DEF AgreeInv, UniqueInv, CallInv
<1> QED BY <1>5, <1>6, <1>7, <1>8, <1>9, <1>10, <1>11, <1>12 DEF NegInv

\* Every step keeps it.
LEMMA NegInvStep ==
    ASSUME NegInv, [NegNext]_allVars
    PROVE  NegInv'
<1>1. /\ TypeInv /\ BooksMatchProof /\ FundedHere /\ EpochInv /\ DepositInv
      /\ TrailInv /\ LateInv /\ AgreeInv /\ UniqueInv /\ CallInv
  BY DEF NegInv
<1>2. TypeInv'
  BY <1>1, NegTypeStep
<1>3. BooksMatchProof' /\ EpochInv'
  BY <1>1, NegBooksStep, EpochStep
<1>4. FundedHere' /\ DepositInv'
  BY <1>1, <1>2, FundedHereStep, DepositStep
<1>5. TrailInv' /\ LateInv'
  BY <1>1, TrailStep, LateStep
<1>6. AgreeInv' /\ UniqueInv'
  BY <1>1, AgreeStep, UniqueStep
<1>7. CallInv'
  BY <1>1, <1>2, CallStep
<1> QED BY <1>2, <1>3, <1>4, <1>5, <1>6, <1>7 DEF NegInv

\* It always holds.
LEMMA NegInvAlways == NegSpec => []NegInv
<1>1. NegInv /\ [NegNext]_allVars => NegInv'
  BY NegInvStep
<1> QED BY <1>1, NegInvInit, PTL DEF NegSpec

(***************************************************************************)
(* The results.                                                            *)
(***************************************************************************)

\* The negotiation always has its type: in particular no request in a queue
\* carries a negative balance and no node is in an epoch the contract has not
\* reached, for any locks, deposits, amounts and number of withdrawals.
THEOREM NegTypeCorrect == NegSpec => []NegTypeOK
<1>1. NegInv => NegTypeOK
  <2> SUFFICES ASSUME NegInv PROVE NegTypeOK
    OBVIOUS
  <2>1. TypeInv /\ EpochInv
    BY DEF NegInv
  <2>2. \A n \in Nodes : epoch[n] <= contract.epoch
    BY <2>1, EpochFacts
  <2>3. \A call \in calls : call.type \in CallTypes
    <3>1. \A call \in Agreements \cup Closes : call.type \in CallTypes
      BY DEF Agreements, Closes, CallTypes
    <3> QED BY <2>1, <3>1 DEF TypeInv
  <2>4. state \in [Nodes -> {"Opened", "Closing", "Closed", "Settled"}
                               \cup PrepareStates \cup PartnerStates \cup AskedStates]
    <3>1. QuietStates \cup PartnerStates \cup AskedStates \cup EndStates
             = {"Opened", "Closing", "Closed", "Settled"}
                  \cup PrepareStates \cup PartnerStates \cup AskedStates
      BY DEF QuietStates, EndStates
    <3> QED BY <2>1, <3>1 DEF TypeInv
  <2> QED BY <2>1, <2>2, <2>3, <2>4 DEF NegTypeOK, TypeInv
<1> QED BY <1>1, NegInvAlways, PTL

\* However requests cross, the contract is offered at most one agreement of an
\* epoch, and the two nodes never both grant one (messageWithdrawRequest,
\* messageSettleRequest and their responses).
THEOREM OneAgreementTheorem == NegSpec => []OneAgreement
<1>1. NegInv => OneAgreement
  <2> SUFFICES ASSUME NegInv PROVE OneAgreement
    OBVIOUS
  <2>1. TypeInv /\ AgreeInv /\ UniqueInv
    BY DEF NegInv
  <2> DEFINE S == {call \in calls : Valid(call)}
  <2>2. \A c \in S : c \in AgreedCalls /\ c.epoch = contract.epoch
    <3>1. \A c \in Closes : c.type = "prepareSettle"
      BY DEF Closes
    <3> QED BY <2>1, <3>1 DEF TypeInv, Valid, AgreedCalls
  <2>3. \A c, d \in S : c = d
    BY <2>1, <2>2 DEF UniqueInv
  <2> HIDE DEF S
  <2>4. Cardinality(S) <= 1
    <3>1. CASE S = {}
      BY <3>1, FS_EmptySet
    <3>2. CASE S # {}
      <4>1. PICK c : c \in S
        BY <3>2
      <4>2. S = {c}
        BY <2>3, <4>1
      <4>3. Cardinality({c}) = 1
        BY FS_Singleton
      <4> QED BY <4>2, <4>3
    <3> QED BY <3>1, <3>2
  <2>5. ~ (SameEpoch /\ \A n \in Nodes : state[n] \in PartnerStates)
    <3> SUFFICES ASSUME SameEpoch, \A n \in Nodes : state[n] \in PartnerStates PROVE FALSE
      OBVIOUS
    <3>1. A \in Nodes /\ Other(A) \in Nodes
      BY OtherNode DEF Nodes
    <3>2. epoch[Other(A)] = epoch[A]
      BY <3>1, EpochsOf
    <3>3. Late(Other(A))
      BY <2>1, <3>1, <3>2 DEF AgreeInv
    <3> QED BY <3>1, <3>3, StatesApart
  <2> QED BY <2>4, <2>5 DEF OneAgreement, S
<1> QED BY <1>1, NegInvAlways, PTL

\* Two nodes that may transfer in the same epoch are in step, for any number of
\* withdrawals before it: the nonces differ by the balance proofs under way
\* (handleWithdraw, messageDirectTransfer and the other handlers).
THEOREM InStepTheorem == NegSpec => []OpenedInStep
<1>1. NegInv => OpenedInStep
  <2> SUFFICES ASSUME NegInv, SameEpoch, \A n \in Nodes : CanTransfer(n), NEW s \in Nodes
               PROVE  Cardinality(Envelops(queue[s]))
                         = end[s][s].bp.nonce - end[Other(s)][s].bp.nonce
    BY DEF OpenedInStep
  <2> DEFINE q == queue[s]
  <2>1. TypeInv /\ TrailInv /\ LateInv
    BY DEF NegInv
  <2>2. Other(s) \in Nodes /\ epoch[s] = epoch[Other(s)] /\ epoch[s] \in Nat
    BY <2>1, EpochsOf DEF TypeInv
  <2>3. /\ q \in Seq(Messages) /\ Len(q) \in Nat
        /\ end[s][s].bp \in BalanceProofState /\ end[Other(s)][s].bp \in BalanceProofState
    <3>1. q \in Seq(Messages)
      BY <2>1 DEF TypeInv, Messages
    <3>2. Len(q) \in Nat
      BY <3>1
    <3> QED BY <2>1, <2>2, <3>1, <3>2, EndFields
  <2>4. state[s] = "Opened" /\ state[s] # "Settled" /\ ~ Late(s)
    BY StatesApart DEF CanTransfer
  <2>5. Trail(q, end[Other(s)][s].bp, end[s][s].bp)
    BY <2>1, <2>2, <2>4 DEF TrailInv, InTrail, Base
  <2>6. \A i \in 1..Len(q) : q[i] \notin Requests
    BY <2>1, <2>4 DEF LateInv, InLate, HasRequest
  <2>7. Len(q) = end[s][s].bp.nonce - end[Other(s)][s].bp.nonce
    BY <2>3, <2>5, <2>6, TrailCount
  <2>8. Envelops(q) = 1..Len(q)
    <3>1. \A i \in 1..Len(q) : q[i] \in EnvelopMessage
      BY <2>3, <2>6 DEF Messages
    <3>2. \A m \in EnvelopMessage : m.type \in LockMessages \cup {"DirectTransfer"}
      BY DEF EnvelopMessage, LockMessages
    <3> QED BY <3>1, <3>2 DEF Envelops
  <2>9. Cardinality(1..Len(q)) = Len(q)
    <3>1. 1 \in Int /\ Len(q) \in Int
      BY <2>3
    <3>2. Cardinality(1..Len(q)) = IF 1 > Len(q) THEN 0 ELSE Len(q) - 1 + 1
      BY <3>1, FS_Interval
    <3> QED BY <2>3, <3>2
  <2> QED BY <2>7, <2>8, <2>9
<1> QED BY <1>1, NegInvAlways, PTL

\* No removal of an expired lock reaches a node that cannot continue and would
\* acknowledge it without applying it (messageRemoveExpiredHashlockTransfer).
THEOREM NoneSkippedTheorem == NegSpec => []NoneSkipped
<1>1. NegInv => NoneSkipped
  <2> SUFFICES ASSUME NegInv, NEW n \in Nodes, SameEpoch, ~ CanContinueTransfer(n),
                      queue[Other(n)] # <<>>, Head(queue[Other(n)]).type = "RemoveExpired"
               PROVE  FALSE
    BY DEF NoneSkipped
  <2> DEFINE o == Other(n)
             msg == Head(queue[o])
  <2>1. TypeInv /\ BooksMatchProof /\ TrailInv /\ LateInv
    BY DEF NegInv
  <2>2. o \in Nodes /\ Other(o) = n /\ epoch[o] = epoch[n] /\ epoch[n] \in Nat
    BY <2>1, EpochsOf DEF TypeInv
  <2>3. queue[o] \in Seq(Messages) /\ msg \in Messages
    BY <2>1, <2>2 DEF TypeInv, Messages
  <2>4. msg \in EnvelopMessage
    BY <2>3 DEF Messages, Requests
  <2>5. state[o] # "Settled"
    BY <2>1, <2>2 DEF LateInv, InLate
  <2>6. Trail(queue[o], end[n][o].bp, end[o][o].bp)
    BY <2>1, <2>2, <2>5 DEF TrailInv, InTrail, Base
  <2>7. Follows(end[n][o].bp, msg)
    BY <2>3, <2>4, <2>6, TrailTail
  <2>8. msg.lock \in end[n][o].bp.locksRoot
    BY <2>7 DEF Follows
  <2>9. end[n][o].bp.locksRoot = LocksOf(n, o)
    BY <2>1, <2>2 DEF BooksMatchProof, Books, LocksOf
  <2>10. LocksOf(n, o) = {}
    BY <2>1 DEF LateInv, InLate, MayCreateRequest, CanContinueTransfer
  <2> QED BY <2>8, <2>9, <2>10
<1> QED BY <1>1, NegInvAlways, PTL

\* A node that has asked can make its request once more when the response
\* comes, so CooperativeSettleChannel does not panic.
THEOREM NoPanicTheorem == NegSpec => []NoPanicOnResponse
<1>1. NegInv => NoPanicOnResponse
  BY DEF NegInv, LateInv, InLate, NoPanicOnResponse
<1> QED BY <1>1, NegInvAlways, PTL

\* A call other than a close leaves the calls only when it is mined.
LEMMA MinedCall ==
    ASSUME TypeInv, [NegNext]_allVars, NEW call \in calls, call \notin calls',
           call.type # "prepareSettle"
    PROVE  call \in Agreements /\ (withDraw(call) \/ cooperativeSettle(call))
<1>1. call \in Agreements /\ call \notin Closes
  BY DEF TypeInv, Closes
<1>2. ASSUME NEW c \in Agreements, withDraw(c) \/ cooperativeSettle(c)
      PROVE  withDraw(call) \/ cooperativeSettle(call)
  <2>1. calls' = calls \ {c}
    BY <1>2, MinedFacts
  <2>2. call = c
    BY <2>1
  <2> QED BY <1>2, <2>2
<1>3. ASSUME NEW c \in Closes, prepareSettle(c) PROVE FALSE
  BY <1>1, <1>3 DEF prepareSettle
<1>4. ASSUME calls \subseteq calls' PROVE FALSE
  BY <1>4
<1> QED BY <1>1, <1>2, <1>3, <1>4, NegStepKinds
        DEF Sent, Got, Learned, Prepared, Requested, Granted, Called, Closed, Idle, agreeVars,
            depositInternal, handleBalanceEvent, handleWithdraw, handleCooperativeSettled,
            handleClosed, HandleEvent

\* What the contract takes as agreed is at least what either end's books say.
LEMMA NothingUndone ==
    ASSUME NegInv, NEW call \in Agreements, withDraw(call) \/ cooperativeSettle(call),
           NEW m \in Nodes
    PROVE  Share(m) >= OwnBooks(call, m) /\ LocksOf(m, Other(m)) = {}
<1> DEFINE w == call.who
           o == Other(w)
           v == Value(call)
<1>1. TypeInv /\ EpochInv /\ DepositInv /\ AgreeInv /\ CallInv
  BY DEF NegInv
<1>2. /\ call \in calls /\ call.epoch = contract.epoch /\ contract.state = "open"
      /\ w \in Nodes /\ v \in Nat /\ v <= Total /\ call.counted \in Nat
      /\ deposit' \in [Nodes -> Nat] /\ paid' \in [Nodes -> Nat]
  BY <1>1, MinedFacts
<1>3. call \in AgreedCalls /\ Agreed(contract.epoch)
  BY <1>1, <1>2 DEF AgreedCalls, AgreeInv
<1>4. \A k \in Nodes : epoch[k] = contract.epoch
  <2>1. ASSUME NEW k \in Nodes PROVE epoch[k] = contract.epoch
    <3>1. /\ epoch[k] \in Nat /\ contract.epoch \in Nat /\ epoch[k] <= contract.epoch
          /\ epoch[k] >= contract.epoch
      BY <1>1, <1>3, EpochFacts DEF Agreed
    <3> QED BY <3>1
  <2> QED BY <2>1
<1>5. LocksOf(m, Other(m)) = {}
  BY <1>3, <1>4 DEF Agreed
<1>6. o \in Nodes /\ o # w /\ (m = w \/ m = o)
  BY <1>2, OtherNode, TwoNodes
<1>7. /\ v >= call.counted + Net(w) /\ v + Net(o) <= call.counted
      /\ call.counted <= deposit[w]
  BY <1>1, <1>2, <1>3, <1>4, <1>6 DEF CallInv
<1>8. end[o][o].contractBalance <= deposit[o]
  BY <1>1, <1>4, <1>6 DEF DepositInv
<1>9. /\ Net(w) \in Int /\ Net(o) \in Int /\ end[o][o].contractBalance \in Nat
      /\ deposit[w] \in Nat /\ deposit[o] \in Nat
      /\ paid[w] \in Nat /\ paid[o] \in Nat
  <2>1. ASSUME NEW k \in Nodes
        PROVE  Net(k) \in Int /\ end[k][k].contractBalance \in Nat
               /\ deposit[k] \in Nat /\ paid[k] \in Nat
    <3>1. /\ end[k][Other(k)].bp.transferAmount \in Nat /\ end[k][k].bp.transferAmount \in Nat
          /\ end[k][k].contractBalance \in Nat
      BY <1>1, OtherNode, EndFields
    <3>2. deposit[k] \in Nat /\ paid[k] \in Nat
      BY <1>1 DEF TypeInv
    <3> QED BY <3>1, <3>2 DEF Net
  <2> QED BY <1>2, <1>6, <2>1
<1>10. Total = deposit[w] + deposit[o]
  <2>1. /\ w = A \/ w = B
        /\ w = A => o = B
        /\ w = B => o = A
    BY <1>2, NodesAssumption DEF Nodes, Other
  <2>2. A \in Nodes /\ B \in Nodes
    BY DEF Nodes
  <2>3. deposit[A] \in Nat /\ deposit[B] \in Nat
    BY <1>1, <2>2 DEF TypeInv
  <2> QED BY <2>1, <2>3 DEF Total
<1>11. Share(w) = v /\ Share(o) = Total - v
  <2>1. contract \in [state : {"open", "closed", "gone"}, epoch : Nat]
    BY <1>1 DEF TypeInv
  <2>2. Total \in Nat
    BY <1>9, <1>10
  <2>3. CASE withDraw(call)
    <3>1. /\ call.amount \in Nat /\ deposit'[w] = v - call.amount
          /\ deposit'[o] = Total - v /\ paid'[w] = paid[w] + call.amount
          /\ paid'[o] = paid[o] /\ contract' = [contract EXCEPT !.epoch = @ + 1]
      BY <1>1, <2>3, MinedFacts
    <3>2. contract'.state # "gone"
      BY <1>2, <2>1, <3>1
    <3>3. /\ Share(w) = paid'[w] - paid[w] + deposit'[w]
          /\ Share(o) = paid'[o] - paid[o] + deposit'[o]
      BY <3>2 DEF Share
    <3> HIDE DEF w, o, v
    <3> QED BY <1>2, <1>9, <2>2, <3>1, <3>3
  <2>4. CASE cooperativeSettle(call)
    <3>1. /\ paid'[w] = paid[w] + v /\ paid'[o] = paid[o] + (Total - v)
          /\ contract' = [contract EXCEPT !.state = "gone"]
      BY <1>1, <2>4, MinedFacts
    <3>2. contract'.state = "gone"
      BY <2>1, <3>1
    <3>3. /\ Share(w) = paid'[w] - paid[w] + 0 /\ Share(o) = paid'[o] - paid[o] + 0
      BY <3>2 DEF Share
    <3> HIDE DEF w, o, v
    <3> QED BY <1>2, <1>9, <2>2, <3>1, <3>3
  <2> QED BY <2>3, <2>4
<1>12. /\ OwnBooks(call, w) = Net(w) + call.counted
       /\ OwnBooks(call, o) = Net(o) + end[o][o].contractBalance
  BY <1>6 DEF OwnBooks
<1> HIDE DEF w, o, v
<1>13. Share(w) >= OwnBooks(call, w)
  BY <1>2, <1>7, <1>9, <1>11, <1>12
<1>14. Share(o) >= OwnBooks(call, o)
  BY <1>2, <1>7, <1>8, <1>9, <1>10, <1>11, <1>12
<1> QED BY <1>5, <1>6, <1>13, <1>14

\* An agreement that is mined undoes no payment, whatever was under way when
\* the two ends signed it: neither gets less than its own books say, those of
\* the requester with the deposits it knew of when it called, and no lock is
\* left behind (withDraw and cooperativeSettle against the handlers of requests
\* and transfers).
THEOREM NoPaymentUndoneTheorem == NegSpec => NoPaymentUndone
<1>1. NegInv /\ [NegNext]_allVars =>
         [\A call \in calls :
             (call \notin calls' /\ call.type # "prepareSettle") =>
                 \A m \in Nodes : /\ Share(m) >= OwnBooks(call, m)
                                  /\ LocksOf(m, Other(m)) = {}]_allVars
  <2> SUFFICES ASSUME NegInv, [NegNext]_allVars, NEW call \in calls, call \notin calls',
                      call.type # "prepareSettle", NEW m \in Nodes
               PROVE  Share(m) >= OwnBooks(call, m) /\ LocksOf(m, Other(m)) = {}
    OBVIOUS
  <2>1. TypeInv
    BY DEF NegInv
  <2>2. call \in Agreements /\ (withDraw(call) \/ cooperativeSettle(call))
    BY <2>1, MinedCall
  <2> QED BY <2>2, NothingUndone
<1> QED BY <1>1, NegInvAlways, PTL DEF NegSpec, NoPaymentUndone

(***************************************************************************)
(* The contract's promise.                                                 *)
(***************************************************************************)
Tokens == IF contract.state = "gone" THEN 0 ELSE deposit[A] + deposit[B]

\* The names of Escrow under the refinement mapping.
LEMMA LedgerNames ==
    /\ Ledger!Init <=> /\ contract.state = "open" /\ Tokens \in Nat
                       /\ paid = [m \in {A, B} |-> 0]
    /\ Ledger!Fund <=> /\ contract.state = "open" /\ Tokens' \in Nat /\ Tokens' > Tokens
                       /\ contract'.state = contract.state /\ paid' = paid
    /\ Ledger!Close <=> /\ contract.state = "open" /\ contract'.state = "closed"
                        /\ UNCHANGED <<Tokens, paid>>
    /\ Ledger!Conserved <=>
          /\ Tokens' \in 0..Tokens /\ paid' \in [{A, B} -> Nat]
          /\ \A m \in {A, B} : paid'[m] >= paid[m]
          /\ Tokens' + paid'[A] + paid'[B] = Tokens + paid[A] + paid[B]
    /\ Ledger!PayPart <=> /\ contract.state = "open" /\ contract'.state = "open"
                          /\ Ledger!Conserved
    /\ Ledger!PayAll <=> /\ contract.state \in {"open", "closed"} /\ contract'.state = "gone"
                         /\ Tokens' = 0 /\ Ledger!Conserved
BY DEF Ledger!Init, Ledger!Fund, Ledger!Close, Ledger!PayPart, Ledger!PayAll,
       Ledger!Conserved, Ledger!Participants, Tokens

\* The tokens of an open channel that are handed out are conserved.
LEMMA PayConserves ==
    ASSUME TypeInv, NEW call \in Agreements, withDraw(call) \/ cooperativeSettle(call)
    PROVE  Ledger!PayPart \/ Ledger!PayAll
<1> DEFINE w == call.who
           o == Other(w)
           v == Value(call)
<1>1. /\ contract.state = "open" /\ w \in Nodes /\ v \in Nat /\ v <= Total
      /\ deposit' \in [Nodes -> Nat] /\ paid' \in [Nodes -> Nat]
  BY MinedFacts
<1>2. /\ Nodes = {A, B} /\ A # B
      /\ \/ w = A /\ o = B
         \/ w = B /\ o = A
  BY <1>1, NodesAssumption DEF Nodes, Other
<1>3. /\ deposit[A] \in Nat /\ deposit[B] \in Nat /\ paid[A] \in Nat /\ paid[B] \in Nat
      /\ contract \in [state : {"open", "closed", "gone"}, epoch : Nat]
  BY <1>2 DEF TypeInv
<1>4. Tokens = Total /\ Total \in Nat /\ Total = deposit[A] + deposit[B]
  BY <1>1, <1>3 DEF Tokens, Total
<1>5. CASE withDraw(call)
  <2>1. /\ call.amount \in Nat /\ call.amount <= v /\ deposit'[w] = v - call.amount
        /\ deposit'[o] = Total - v /\ paid'[w] = paid[w] + call.amount
        /\ paid'[o] = paid[o] /\ contract' = [contract EXCEPT !.epoch = @ + 1]
    BY <1>5, MinedFacts
  <2>2. contract'.state = "open"
    BY <1>1, <1>3, <2>1
  <2>3. Tokens' = deposit'[A] + deposit'[B]
    BY <2>2 DEF Tokens
  <2> HIDE DEF w, o, v
  <2>4. Tokens' = Total - call.amount
    BY <1>1, <1>2, <1>4, <2>1, <2>3
  <2>5. Tokens' \in 0..Tokens
    BY <1>1, <1>4, <2>1, <2>4
  <2>6. paid'[A] + paid'[B] = paid[A] + paid[B] + call.amount
        /\ paid'[A] >= paid[A] /\ paid'[B] >= paid[B]
    BY <1>2, <1>3, <2>1
  <2>7. paid'[A] \in Nat /\ paid'[B] \in Nat
    BY <1>1, <1>2
  <2>8. Tokens' + paid'[A] + paid'[B] = Tokens + paid[A] + paid[B]
    BY <1>3, <1>4, <2>1, <2>4, <2>6, <2>7
  <2>9. \A m \in {A, B} : paid'[m] >= paid[m]
    BY <2>6
  <2> QED BY <1>1, <1>2, <2>2, <2>5, <2>8, <2>9, LedgerNames
<1>6. CASE cooperativeSettle(call)
  <2>1. /\ paid'[w] = paid[w] + v /\ paid'[o] = paid[o] + (Total - v)
        /\ contract' = [contract EXCEPT !.state = "gone"]
    BY <1>6, MinedFacts
  <2>2. contract'.state = "gone"
    BY <1>3, <2>1
  <2>3. Tokens' = 0
    BY <2>2 DEF Tokens
  <2> HIDE DEF w, o, v
  <2>4. Tokens' \in 0..Tokens
    BY <1>4, <2>3
  <2>5. paid'[A] + paid'[B] = paid[A] + paid[B] + Total
        /\ paid'[A] >= paid[A] /\ paid'[B] >= paid[B]
    BY <1>1, <1>2, <1>3, <1>4, <2>1
  <2>6. paid'[A] \in Nat /\ paid'[B] \in Nat
    BY <1>1, <1>2
  <2>7. Tokens' + paid'[A] + paid'[B] = Tokens + paid[A] + paid[B]
    BY <1>3, <1>4, <2>3, <2>5, <2>6
  <2>8. \A m \in {A, B} : paid'[m] >= paid[m]
    BY <2>5
  <2> QED BY <1>1, <1>2, <2>2, <2>3, <2>4, <2>7, <2>8, LedgerNames
<1> QED BY <1>5, <1>6

\* Every step of the negotiation is a step of Escrow or leaves its tokens alone.
LEMMA LedgerStep ==
    ASSUME TypeInv, [NegNext]_allVars
    PROVE  Ledger!Next \/ UNCHANGED <<contract.state, Tokens, paid>>
<1>1. /\ A \in Nodes /\ B \in Nodes /\ Nodes = {A, B} /\ A # B
      /\ contract \in [state : {"open", "closed", "gone"}, epoch : Nat]
  BY NodesAssumption DEF Nodes, TypeInv
<1>2. deposit[A] \in Nat /\ deposit[B] \in Nat
  BY <1>1 DEF TypeInv
<1>3. ASSUME NEW call \in Agreements, withDraw(call) \/ cooperativeSettle(call)
      PROVE  Ledger!Next
  BY <1>3, PayConserves DEF Ledger!Next
<1>4. ASSUME NEW call \in Closes, prepareSettle(call)
      PROVE  Ledger!Next
  <2>1. /\ contract.state = "open" /\ contract' = [contract EXCEPT !.state = "closed"]
        /\ UNCHANGED <<deposit, paid>>
    BY <1>4 DEF prepareSettle, prepareSettleOK, vars, chainVars
  <2>2. contract'.state = "closed"
    BY <1>1, <2>1
  <2>3. UNCHANGED Tokens
    BY <2>1, <2>2 DEF Tokens
  <2> QED BY <2>1, <2>2, <2>3, LedgerNames DEF Ledger!Next
<1>5. ASSUME NEW n \in Nodes, depositInternal(n)
      PROVE  Ledger!Next
  <2>1. /\ contract.state = "open" /\ deposit'[n] = deposit[n] + 1
        /\ \A m \in Nodes : m # n => deposit'[m] = deposit[m]
        /\ UNCHANGED <<contract, paid>>
    BY <1>5, DepositFacts
  <2>2. deposit'[A] + deposit'[B] = deposit[A] + deposit[B] + 1
    BY <1>1, <1>2, <2>1
  <2>3. Tokens = deposit[A] + deposit[B] /\ Tokens' = deposit'[A] + deposit'[B]
    BY <2>1 DEF Tokens
  <2>4. Tokens' \in Nat /\ Tokens' > Tokens
    BY <1>2, <2>2, <2>3
  <2> QED BY <2>1, <2>4, LedgerNames DEF Ledger!Next
<1>6. ASSUME UNCHANGED <<deposit, contract, paid>>
      PROVE  UNCHANGED <<contract.state, Tokens, paid>>
  BY <1>6 DEF Tokens
<1>7. ASSUME NEW n \in Nodes, \/ handleBalanceEvent(n) \/ handleWithdraw(n)
                              \/ handleCooperativeSettled(n) \/ handleClosed(n)
      PROVE  UNCHANGED <<deposit, contract, paid>>
  BY <1>7 DEF handleBalanceEvent, handleWithdraw, handleCooperativeSettled, handleClosed,
              HandleEvent, chainVars
<1> QED BY <1>3, <1>4, <1>5, <1>6, <1>7, ChainSteps

\* The contract keeps the promise of Escrow over any deposits, withdrawals and
\* agreed settlements.
THEOREM NegEscrowTheorem == NegSpec => EscrowKept
<1>1. NegInit => Ledger!Init
  <2> SUFFICES ASSUME NegInit PROVE Ledger!Init
    OBVIOUS
  <2>1. A \in Nodes /\ B \in Nodes /\ Nodes = {A, B}
    BY DEF Nodes
  <2>2. deposit[A] \in Nat /\ deposit[B] \in Nat
    BY <2>1, NumbersAssumption DEF NegInit, Init
  <2>3. contract.state = "open" /\ paid = [m \in {A, B} |-> 0]
    BY <2>1 DEF NegInit
  <2>4. Tokens \in Nat
    BY <2>2, <2>3 DEF Tokens
  <2> QED BY <2>3, <2>4, LedgerNames
<1>2. NegInv /\ [NegNext]_allVars => [Ledger!Next]_<<contract.state, Tokens, paid>>
  BY LedgerStep DEF NegInv
<1> QED BY <1>1, <1>2, NegInvAlways, PTL
        DEF NegSpec, EscrowKept, Ledger!Spec, Tokens
=============================================================================
