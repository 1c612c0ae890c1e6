--------------------------- MODULE ChannelProofs ---------------------------
(***************************************************************************)
(* Proofs about Channel, for every set of locks, every expiration, every   *)
(* deposit and every bound.                                                *)
(***************************************************************************)
EXTENDS Channel, FiniteSums, TLAPS

(***************************************************************************)
(* What the operators on EndStates return.                                 *)
(***************************************************************************)

\* The participant facing n is a participant, and is not n.
LEMMA OtherNode ==
    ASSUME NEW n \in Nodes
    PROVE  Other(n) \in Nodes /\ Other(n) # n /\ Other(Other(n)) = n
BY NodesAssumption DEF Nodes, Other

\* Registering a message yields an EndState that carries the message's
\* balance proof and the same deposit.
LEMMA RegisterTransferType ==
    ASSUME NEW e \in EndState, NEW msg \in EnvelopMessage
    PROVE  /\ RegisterTransfer(e, msg) \in EndState
           /\ RegisterTransfer(e, msg).bp = msg.bp
           /\ RegisterTransfer(e, msg).contractBalance = e.contractBalance
<1>1. AddedLocks(msg) \subseteq Locks /\ RemovedLocks(msg) \subseteq Locks
  BY DEF AddedLocks, RemovedLocks, EnvelopMessage, LockMessages
<1>2. msg.bp \in BalanceProofState
  BY DEF EnvelopMessage
<1> QED BY <1>1, <1>2 DEF RegisterTransfer, EndState

\* The messages a node creates have the next nonce.
LEMMA CreatedMessages ==
    ASSUME NEW e \in EndState
    PROVE  /\ \A a \in DirectAmounts :
                 /\ CreateDirectTransfer(e, a) \in EnvelopMessage
                 /\ CreateDirectTransfer(e, a).bp.nonce = e.bp.nonce + 1
           /\ \A l \in Locks :
                 /\ CreateMediatedTransfer(e, l) \in EnvelopMessage
                 /\ CreateUnlock(e, l) \in EnvelopMessage
                 /\ CreateRemoveExpired(e, l) \in EnvelopMessage
                 /\ CreateAnnounceDisposedResponse(e, l) \in EnvelopMessage
BY LocksAssumption, NumbersAssumption
   DEF CreateDirectTransfer, CreateMediatedTransfer, CreateUnlock,
       CreateRemoveExpired, CreateAnnounceDisposedResponse, NewBalanceProof,
       EndState, EnvelopMessage, LockMessages, BalanceProofState

(***************************************************************************)
(* Every action that sends an envelope message, and every one that         *)
(* receives one, has the same effect on end, queue and fate.               *)
(***************************************************************************)

\* What Send and RecordFate do to a well-typed state.
LEMMA SendType ==
    ASSUME TypeOK, NEW n \in Nodes, NEW msg \in EnvelopMessage, Send(n, msg)
    PROVE  /\ end' \in [Nodes -> [Nodes -> EndState]]
           /\ queue' \in [Nodes -> Seq(EnvelopMessage)]
           /\ fate' \in [Nodes -> [Locks -> Fates]]
<1>1. RegisterTransfer(end[n][n], msg) \in EndState
  BY RegisterTransferType DEF TypeOK
<1>2. end' \in [Nodes -> [Nodes -> EndState]]
  BY <1>1 DEF TypeOK, Send
<1>3. queue' \in [Nodes -> Seq(EnvelopMessage)]
  BY DEF TypeOK, Send
<1>4. fate' \in [Nodes -> [Locks -> Fates]]
  BY DEF TypeOK, Send, RecordFate, FateAfter, EnvelopMessage, LockMessages, Fates
<1> QED BY <1>2, <1>3, <1>4

\* What a message handler does to a well-typed state.
LEMMA ReceiveType ==
    ASSUME TypeOK, NEW n \in Nodes, NEW type, Receive(n, type)
    PROVE  TypeOK'
<1> DEFINE o == Other(n)
<1>1. o \in Nodes
  BY OtherNode
<1>2. Head(queue[o]) \in EnvelopMessage /\ Tail(queue[o]) \in Seq(EnvelopMessage)
  BY <1>1 DEF TypeOK, Receive
<1>3. RegisterTransfer(end[n][o], Head(queue[o])) \in EndState
  BY <1>1, <1>2, RegisterTransferType DEF TypeOK
<1>4. end' \in [Nodes -> [Nodes -> EndState]]
  BY <1>1, <1>3 DEF TypeOK, Receive
<1>5. queue' \in [Nodes -> Seq(EnvelopMessage)]
  BY <1>1, <1>2 DEF TypeOK, Receive
<1>6. fate' \in [Nodes -> [Locks -> Fates]]
  BY <1>1, <1>2 DEF TypeOK, Receive, RecordFate, FateAfter, EnvelopMessage,
                    LockMessages, Fates
<1> QED BY <1>4, <1>5, <1>6 DEF TypeOK, Receive, nodeVars, chainVars

\* The common shape of the actions that send an envelope message.
SendStep(n, msg) ==
    /\ Send(n, msg)
    /\ msg.type = "MediatedTransfer" =>
          /\ LockSender[msg.lock] = n /\ fate[n][msg.lock] = "none"
          /\ msg.bp.transferAmount = end[n][n].bp.transferAmount
    /\ msg.type = "AnnounceDisposedResponse" => msg.lock \in announced[Other(n)]
    /\ announced' \in [Nodes -> SUBSET Locks]
    /\ \A m \in Nodes : announced'[m] \subseteq announced[m]
    /\ UNCHANGED <<disposed, nodeVars, chainVars>>

\* The actions that only touch the bookkeeping of AnnounceDisposed.
AnnounceStep ==
    /\ announced' \in [Nodes -> SUBSET Locks]
    /\ disposed' \in [Nodes -> SUBSET Locks]
    /\ \A m \in Nodes :
          /\ disposed[m] \subseteq disposed'[m]
          /\ disposed'[m] \subseteq disposed[m] \cup Disposable
          /\ announced'[m] \subseteq announced[m] \cup disposed'[m]
    /\ UNCHANGED <<end, queue, fate, nodeVars, chainVars>>

\* directTransferAsync sends an envelope message.
LEMMA DirectIsSend ==
    ASSUME TypeOK, NEW n \in Nodes, NEW a \in DirectAmounts,
           directTransferAsync(n, a)
    PROVE  \E msg \in EnvelopMessage : SendStep(n, msg)
<1> DEFINE msg == CreateDirectTransfer(end[n][n], a)
<1>1. msg \in EnvelopMessage /\ msg.type = "DirectTransfer"
  BY CreatedMessages DEF CreateDirectTransfer, TypeOK
<1>2. Send(n, msg) /\ UNCHANGED <<announced, disposed, nodeVars, chainVars>>
  BY DEF directTransferAsync
<1> HIDE DEF msg
<1> QED BY <1>1, <1>2 DEF SendStep, TypeOK

\* So do the three events that send a message about a lock.
LEMMA LockEventIsSend ==
    ASSUME TypeOK, NEW n \in Nodes, NEW l \in Locks,
           \/ eventSendMediatedTransfer(n, l)
           \/ eventSendUnlock(n, l)
           \/ eventUnlockFailed(n, l)
    PROVE  \E msg \in EnvelopMessage : SendStep(n, msg)
<1> end[n][n] \in EndState
  BY DEF TypeOK
<1>1. CASE eventSendMediatedTransfer(n, l)
  <2> DEFINE msg == CreateMediatedTransfer(end[n][n], l)
  <2>1. /\ msg \in EnvelopMessage /\ msg.lock = l /\ msg.type = "MediatedTransfer"
        /\ msg.bp.transferAmount = end[n][n].bp.transferAmount
    BY CreatedMessages DEF CreateMediatedTransfer, NewBalanceProof
  <2>2. /\ Send(n, msg) /\ LockSender[l] = n /\ fate[n][l] = "none"
        /\ UNCHANGED <<announced, disposed, nodeVars, chainVars>>
    BY <1>1 DEF eventSendMediatedTransfer
  <2> HIDE DEF msg
  <2> QED BY <2>1, <2>2 DEF SendStep, TypeOK
<1>2. CASE eventSendUnlock(n, l)
  <2> DEFINE msg == CreateUnlock(end[n][n], l)
  <2>1. msg \in EnvelopMessage /\ msg.type = "UnLock"
    BY CreatedMessages DEF CreateUnlock
  <2>2. Send(n, msg) /\ UNCHANGED <<announced, disposed, nodeVars, chainVars>>
    BY <1>2 DEF eventSendUnlock
  <2> HIDE DEF msg
  <2> QED BY <2>1, <2>2 DEF SendStep, TypeOK
<1>3. CASE eventUnlockFailed(n, l)
  <2> DEFINE msg == CreateRemoveExpired(end[n][n], l)
  <2>1. msg \in EnvelopMessage /\ msg.type = "RemoveExpired"
    BY CreatedMessages DEF CreateRemoveExpired
  <2>2. Send(n, msg) /\ UNCHANGED <<announced, disposed, nodeVars, chainVars>>
    BY <1>3 DEF eventUnlockFailed
  <2> HIDE DEF msg
  <2> QED BY <2>1, <2>2 DEF SendStep, TypeOK
<1> QED BY <1>1, <1>2, <1>3

\* messageAnnounceDisposed sends an envelope message or only acknowledges.
LEMMA DisposedIsSend ==
    ASSUME TypeOK, NEW n \in Nodes, NEW l \in Locks, messageAnnounceDisposed(n, l)
    PROVE  (\E msg \in EnvelopMessage : SendStep(n, msg)) \/ AnnounceStep
<1>1. /\ Other(n) \in Nodes /\ announced' \in [Nodes -> SUBSET Locks]
      /\ l \in announced[Other(n)]
      /\ \A m \in Nodes : announced'[m] \subseteq announced[m]
  BY OtherNode DEF messageAnnounceDisposed, TypeOK
<1>2. CASE IsUnknownSecretLock(end[n][n], l)
  <2> DEFINE msg == CreateAnnounceDisposedResponse(end[n][n], l)
  <2>1. msg \in EnvelopMessage /\ msg.type = "AnnounceDisposedResponse" /\ msg.lock = l
    BY CreatedMessages DEF CreateAnnounceDisposedResponse, TypeOK
  <2>2. Send(n, msg) /\ UNCHANGED <<disposed, nodeVars, chainVars>>
    BY <1>2 DEF messageAnnounceDisposed
  <2> HIDE DEF msg
  <2> QED BY <1>1, <2>1, <2>2 DEF SendStep
<1>3. CASE ~ IsUnknownSecretLock(end[n][n], l)
  BY <1>1, <1>3 DEF messageAnnounceDisposed, AnnounceStep, TypeOK
<1> QED BY <1>2, <1>3

\* Every step of the channel is one of these.
LEMMA StepKinds ==
    ASSUME TypeOK, [Next]_vars
    PROVE  \/ \E n \in Nodes, msg \in EnvelopMessage : SendStep(n, msg)
           \/ \E n \in Nodes, type \in {"DirectTransfer"} \cup LockMessages :
                 Receive(n, type)
           \/ AnnounceStep
           \/ \E n \in Nodes, l \in Locks :
                 registerSecret(n, l) \/ handleSecretRegisteredOnChain(n, l)
           \/ \E n \in Nodes : handleBlockStateChange(n)
           \/ \E n \in Nodes, m \in Nodes : handleBalance(n, m)
           \/ \E m \in Nodes : Deposit(m)
           \/ \E S \in SUBSET Registrable : NewBlock(S)
           \/ UNCHANGED vars
<1>1. ASSUME NEW n \in Nodes, ReceiveAny(n)
      PROVE  \E type \in {"DirectTransfer"} \cup LockMessages : Receive(n, type)
  BY <1>1 DEF ReceiveAny, messageDirectTransfer, messageMediatedTransfer,
       messageUnlock, messageRemoveExpiredHashlockTransfer,
       messageAnnounceDisposedResponse, LockMessages
<1>2. ASSUME NEW n \in Nodes, NEW l \in Locks, eventSendAnnouncedDisposed(n, l)
      PROVE  AnnounceStep
  BY <1>2 DEF eventSendAnnouncedDisposed, AnnounceStep, TypeOK
<1> QED BY <1>1, <1>2, DirectIsSend, LockEventIsSend, DisposedIsSend DEF Next

(***************************************************************************)
(* Type correctness.                                                       *)
(***************************************************************************)

\* RegisterSecret and RegisterRevealedSecretHash keep the type, the balance
\* proof and the tree of an EndState.
LEMMA SecretOperators ==
    ASSUME NEW e \in EndState, NEW l \in Locks, NEW b
    PROVE  /\ RegisterSecret(e, l) \in EndState
           /\ RegisterSecret(e, l).bp = e.bp
           /\ RegisterSecret(e, l).tree = e.tree
           /\ RegisterRevealedSecretHash(e, l, b) \in EndState
           /\ RegisterRevealedSecretHash(e, l, b).bp = e.bp
           /\ RegisterRevealedSecretHash(e, l, b).tree = e.tree
           /\ RegisterSecret(e, l).contractBalance = e.contractBalance
           /\ RegisterRevealedSecretHash(e, l, b).contractBalance = e.contractBalance
BY DEF RegisterSecret, RegisterRevealedSecretHash, EndState

\* A deposit event changes the contract balance of an EndState only.
LEMMA BalanceOperator ==
    ASSUME NEW e \in EndState, NEW x
    PROVE  /\ x \in Nat => UpdateContractBalance(e, x) \in EndState
           /\ UpdateContractBalance(e, x).contractBalance = x
           /\ UpdateContractBalance(e, x).bp = e.bp
           /\ UpdateContractBalance(e, x).tree = e.tree
           /\ UpdateContractBalance(e, x).pending = e.pending
           /\ UpdateContractBalance(e, x).unclaimed = e.unclaimed
           /\ UpdateContractBalance(e, x).onChain = e.onChain
BY DEF UpdateContractBalance, EndState

\* Every step keeps the types.
LEMMA TypeStep ==
    ASSUME TypeOK, [Next]_vars
    PROVE  TypeOK'
<1>1. ASSUME NEW n \in Nodes, NEW msg \in EnvelopMessage, SendStep(n, msg)
      PROVE  TypeOK'
  BY <1>1, SendType DEF SendStep, TypeOK, nodeVars, chainVars
<1>2. ASSUME NEW n \in Nodes, NEW type, Receive(n, type)
      PROVE  TypeOK'
  BY <1>2, ReceiveType
<1>3. CASE AnnounceStep
  BY <1>3 DEF AnnounceStep, TypeOK, nodeVars, chainVars
<1>4. ASSUME NEW n \in Nodes, NEW l \in Locks, registerSecret(n, l)
      PROVE  TypeOK'
  <2>1. LockSender[l] \in Nodes /\ end[n][LockSender[l]] \in EndState
    BY LocksAssumption DEF TypeOK
  <2>2. RegisterSecret(end[n][LockSender[l]], l) \in EndState
    BY <2>1, SecretOperators
  <2> QED BY <1>4, <2>1, <2>2 DEF registerSecret, TypeOK, nodeVars, chainVars
<1>5. ASSUME NEW n \in Nodes, NEW l \in Locks, handleSecretRegisteredOnChain(n, l)
      PROVE  TypeOK'
  <2>1. LockSender[l] \in Nodes /\ end[n][LockSender[l]] \in EndState
    BY LocksAssumption DEF TypeOK
  <2>2. RegisterRevealedSecretHash(end[n][LockSender[l]], l, registeredAt[l]) \in EndState
    BY <2>1, SecretOperators
  <2> QED BY <1>5, <2>1, <2>2 DEF handleSecretRegisteredOnChain, TypeOK, chainVars
<1>6. ASSUME NEW n \in Nodes, handleBlockStateChange(n)
      PROVE  TypeOK'
  BY <1>6 DEF handleBlockStateChange, TypeOK, chainVars
<1>7. ASSUME NEW n \in Nodes, NEW m \in Nodes, handleBalance(n, m)
      PROVE  TypeOK'
  <2>1. UpdateContractBalance(end[n][m], end[n][m].contractBalance + 1) \in EndState
    <3>1. end[n][m] \in EndState /\ end[n][m].contractBalance + 1 \in Nat
      BY DEF TypeOK, EndState
    <3> QED BY <3>1, BalanceOperator
  <2>2. end' \in [Nodes -> [Nodes -> EndState]]
    BY <1>7, <2>1 DEF handleBalance, TypeOK
  <2> QED BY <1>7, <2>2 DEF handleBalance, TypeOK, nodeVars, chainVars
<1>8. ASSUME NEW m \in Nodes, Deposit(m)
      PROVE  TypeOK'
  BY <1>8 DEF Deposit, TypeOK, nodeVars
<1>9. ASSUME NEW S \in SUBSET Registrable, NewBlock(S)
      PROVE  TypeOK'
  BY <1>9 DEF NewBlock, TypeOK, nodeVars
<1>10. CASE UNCHANGED vars
  BY <1>10 DEF vars, TypeOK
<1> QED BY StepKinds, <1>1, <1>2, <1>3, <1>4, <1>5, <1>6, <1>7, <1>8, <1>9, <1>10

\* The channel starts with the types.
LEMMA TypeInit == Init => TypeOK
<1> SUFFICES ASSUME Init PROVE TypeOK
  OBVIOUS
<1>1. \A m \in Nodes : NewChannelEndState(InitDeposit[m]) \in EndState
  BY NumbersAssumption DEF NewChannelEndState, EndState, BalanceProofState
<1>2. end \in [Nodes -> [Nodes -> EndState]]
  BY <1>1 DEF Init
<1>3. fate \in [Nodes -> [Locks -> Fates]]
  BY DEF Init, Fates
<1> QED BY <1>2, <1>3, NumbersAssumption DEF Init, TypeOK

\* The channel's state always has its type: in particular no nonce, amount or
\* deposit of an EndState ever becomes negative.
THEOREM TypeCorrect == Spec => []TypeOK
<1>1. Init => TypeOK
  BY TypeInit
<1>2. TypeOK /\ [Next]_vars => TypeOK'
  BY TypeStep
<1> QED BY <1>1, <1>2, PTL DEF Spec

(***************************************************************************)
(* The lock books.                                                         *)
(***************************************************************************)

\* An accepted message keeps the books of the EndState it is registered in.
LEMMA RegisterTransferBooks ==
    ASSUME NEW e \in EndState, NEW to, NEW b, NEW msg \in EnvelopMessage,
           Books(e), RegisterTransferOK(e, to, msg, b)
    PROVE  Books(RegisterTransfer(e, msg))
<1> DEFINE f == RegisterTransfer(e, msg)
<1>1. /\ f.bp = msg.bp
      /\ f.tree = (e.tree \cup AddedLocks(msg)) \ RemovedLocks(msg)
      /\ f.pending = (e.pending \cup AddedLocks(msg)) \ RemovedLocks(msg)
      /\ f.unclaimed = e.unclaimed \ RemovedLocks(msg)
      /\ f.onChain = e.onChain \ RemovedLocks(msg)
  BY DEF RegisterTransfer, EndState
<1> SUFFICES Books(f)
  OBVIOUS
<1> HIDE DEF f
<1>2. CASE msg.type = "DirectTransfer"
  <2>1. AddedLocks(msg) = {} /\ RemovedLocks(msg) = {} /\ msg.bp.locksRoot = e.tree
    BY <1>2 DEF AddedLocks, RemovedLocks, LockMessages, RegisterTransferOK,
                RegisterDirectTransferOK
  <2> QED BY <1>1, <2>1 DEF Books
<1>3. CASE msg.type = "MediatedTransfer"
  <2>1. AddedLocks(msg) = {msg.lock} /\ RemovedLocks(msg) = {}
    BY <1>3 DEF AddedLocks, RemovedLocks, LockMessages
  <2>2. msg.bp.locksRoot = e.tree \cup {msg.lock} /\ ~ IsKnown(e, msg.lock)
    BY <1>3 DEF RegisterTransferOK, RegisterMediatedTransferOK
  <2> QED BY <1>1, <2>1, <2>2 DEF Books, IsKnown
<1>4. CASE msg.type \in LockMessages \ {"MediatedTransfer"}
  <2>1. AddedLocks(msg) = {} /\ RemovedLocks(msg) = {msg.lock}
    BY <1>4 DEF AddedLocks, RemovedLocks, LockMessages
  <2>2. msg.bp.locksRoot = e.tree \ {msg.lock}
    BY <1>4 DEF RegisterTransferOK, RegisterUnlockOK, RegisterRemoveLockOK, LockMessages
  <2> QED BY <1>1, <2>1, <2>2 DEF Books
<1> QED BY <1>2, <1>3, <1>4 DEF EnvelopMessage

\* Learning a secret keeps the books.
LEMMA SecretBooks ==
    ASSUME NEW e \in EndState, NEW l \in Locks, NEW b, Books(e)
    PROVE  Books(RegisterSecret(e, l)) /\ Books(RegisterRevealedSecretHash(e, l, b))
BY DEF Books, RegisterSecret, RegisterRevealedSecretHash, IsKnown, EndState

\* Every step keeps the books of every EndState.
LEMMA BooksStep ==
    ASSUME TypeOK, BooksMatchProof, [Next]_vars
    PROVE  BooksMatchProof'
<1>1. ASSUME NEW n \in Nodes, NEW msg \in EnvelopMessage, SendStep(n, msg)
      PROVE  BooksMatchProof'
  <2>1. Books(RegisterTransfer(end[n][n], msg))
    BY <1>1, RegisterTransferBooks DEF SendStep, Send, TypeOK, BooksMatchProof
  <2> QED BY <1>1, <2>1 DEF SendStep, Send, TypeOK, BooksMatchProof
<1>2. ASSUME NEW n \in Nodes, NEW type, Receive(n, type)
      PROVE  BooksMatchProof'
  <2> DEFINE o == Other(n)
  <2>1. o \in Nodes /\ Head(queue[o]) \in EnvelopMessage
    BY <1>2, OtherNode DEF TypeOK, Receive
  <2>2. Books(RegisterTransfer(end[n][o], Head(queue[o])))
    BY <1>2, <2>1, RegisterTransferBooks DEF Receive, CanReceive, TypeOK, BooksMatchProof
  <2> QED BY <1>2, <2>1, <2>2 DEF Receive, TypeOK, BooksMatchProof
<1>3. CASE AnnounceStep
  BY <1>3 DEF AnnounceStep, BooksMatchProof
<1>4. ASSUME NEW n \in Nodes, NEW l \in Locks, registerSecret(n, l)
      PROVE  BooksMatchProof'
  <2>1. LockSender[l] \in Nodes
    BY LocksAssumption
  <2>2. Books(RegisterSecret(end[n][LockSender[l]], l))
    BY <2>1, SecretBooks DEF TypeOK, BooksMatchProof
  <2> QED BY <1>4, <2>1, <2>2 DEF registerSecret, TypeOK, BooksMatchProof
<1>5. ASSUME NEW n \in Nodes, NEW l \in Locks, handleSecretRegisteredOnChain(n, l)
      PROVE  BooksMatchProof'
  <2>1. LockSender[l] \in Nodes
    BY LocksAssumption
  <2>2. Books(RegisterRevealedSecretHash(end[n][LockSender[l]], l, registeredAt[l]))
    BY <2>1, SecretBooks DEF TypeOK, BooksMatchProof
  <2> QED BY <1>5, <2>1, <2>2 DEF handleSecretRegisteredOnChain, TypeOK, BooksMatchProof
<1>6. ASSUME NEW n \in Nodes, NEW m \in Nodes, handleBalance(n, m)
      PROVE  BooksMatchProof'
  <2>1. end[n][m] \in EndState /\ Books(end[n][m])
    BY DEF TypeOK, BooksMatchProof
  <2>2. Books(UpdateContractBalance(end[n][m], end[n][m].contractBalance + 1))
    BY <2>1, BalanceOperator DEF Books
  <2> QED BY <1>6, <2>2 DEF handleBalance, TypeOK, BooksMatchProof
<1>7. ASSUME UNCHANGED end
      PROVE  BooksMatchProof'
  BY <1>7 DEF BooksMatchProof
<1> QED BY StepKinds, <1>1, <1>2, <1>3, <1>4, <1>5, <1>6, <1>7
        DEF handleBlockStateChange, Deposit, NewBlock, vars

\* The books of a new channel are empty.
LEMMA BooksInit == Init => BooksMatchProof
<1>1. \A x : Books(NewChannelEndState(x))
  BY DEF Books, NewChannelEndState
<1> QED BY <1>1 DEF Init, BooksMatchProof

\* For every set of locks and every interleaving of messages, secrets and
\* chain events, what a node has booked as locked is what the balance proof
\* it holds commits to.
THEOREM BooksTheorem == Spec => []BooksMatchProof
<1>1. Init => BooksMatchProof
  BY BooksInit
<1>2. TypeOK /\ BooksMatchProof /\ [Next]_vars => BooksMatchProof'
  BY BooksStep
<1> QED BY <1>1, <1>2, TypeCorrect, PTL DEF Spec

(***************************************************************************)
(* Agreement on balance proofs.  ProofAgreement is not inductive: it says  *)
(* nothing of the messages in a queue.  Lane(s) adds that they carry the   *)
(* nonces that follow the receiver's, and that the last one carries the    *)
(* sender's current balance proof.                                         *)
(***************************************************************************)
Lane(q, mine, theirs) ==
    /\ Len(q) = mine.nonce - theirs.nonce
    /\ \A i \in 1..Len(q) : q[i].bp.nonce = theirs.nonce + i
    /\ q = <<>> => mine = theirs
    /\ q # <<>> => q[Len(q)].bp = mine

LanesInv ==
    \A s \in Nodes : Lane(queue[s], end[s][s].bp, end[Other(s)][s].bp)

\* A message with the next nonce extends the lane.
LEMMA LaneAppend ==
    ASSUME NEW q \in Seq(EnvelopMessage), NEW msg \in EnvelopMessage,
           NEW mine \in BalanceProofState, NEW theirs \in BalanceProofState,
           Lane(q, mine, theirs), msg.bp.nonce = mine.nonce + 1
    PROVE  Lane(Append(q, msg), msg.bp, theirs)
<1> DEFINE r == Append(q, msg)
<1>1. /\ Len(r) = Len(q) + 1 /\ r[Len(q) + 1] = msg
      /\ \A i \in 1..Len(q) : r[i] = q[i]
      /\ Len(q) \in Nat /\ r # <<>>
  OBVIOUS
<1>2. mine.nonce \in Nat /\ theirs.nonce \in Nat /\ msg.bp.nonce \in Nat
  BY DEF BalanceProofState, EnvelopMessage
<1> HIDE DEF r
<1>3. Len(r) = msg.bp.nonce - theirs.nonce
  BY <1>1, <1>2 DEF Lane
<1>4. ASSUME NEW i \in 1..Len(r) PROVE r[i].bp.nonce = theirs.nonce + i
  <2>1. CASE i \in 1..Len(q)
    BY <1>1, <2>1 DEF Lane
  <2>2. CASE i = Len(q) + 1
    BY <1>1, <1>2, <2>2 DEF Lane
  <2> QED BY <1>1, <2>1, <2>2
<1>5. Lane(r, msg.bp, theirs)
  BY <1>1, <1>3, <1>4 DEF Lane
<1> QED BY <1>5 DEF r

\* The nonce at place i + 1, counted from the receiver's and from its successor.
LEMMA NonceArithmetic ==
    ASSUME NEW a \in Nat, NEW i \in Nat
    PROVE  a + (i + 1) = (a + 1) + i
OBVIOUS

\* Registering the head of the queue shortens the lane.
LEMMA LaneTail ==
    ASSUME NEW q \in Seq(EnvelopMessage), q # <<>>,
           NEW mine \in BalanceProofState, NEW theirs \in BalanceProofState,
           Lane(q, mine, theirs)
    PROVE  Lane(Tail(q), mine, Head(q).bp)
<1> DEFINE r == Tail(q)
<1>1. /\ Len(r) = Len(q) - 1 /\ Head(q) = q[1] /\ Len(q) \in Nat \ {0}
      /\ \A i \in 1..Len(r) : r[i] = q[i + 1]
      /\ Len(r) \in Nat /\ (r = <<>> <=> Len(r) = 0)
      /\ q[1] \in EnvelopMessage
  <2>1. Len(q) \in Nat \ {0} /\ Head(q) = q[1] /\ q[1] \in EnvelopMessage
    OBVIOUS
  <2>2. Len(r) = Len(q) - 1 /\ r \in Seq(EnvelopMessage)
    OBVIOUS
  <2>3. \A i \in 1..Len(r) : r[i] = q[i + 1]
    OBVIOUS
  <2>4. Len(r) \in Nat /\ (r = <<>> <=> Len(r) = 0)
    BY <2>2
  <2> QED BY <2>1, <2>2, <2>3, <2>4
<1>2. /\ mine.nonce \in Nat /\ theirs.nonce \in Nat /\ Head(q).bp.nonce \in Nat
  BY <1>1 DEF BalanceProofState, EnvelopMessage
<1>3. Head(q).bp.nonce = theirs.nonce + 1
  BY <1>1 DEF Lane
<1> HIDE DEF r
<1>4. Len(r) = mine.nonce - Head(q).bp.nonce
  BY <1>1, <1>2, <1>3 DEF Lane
<1>5. ASSUME NEW i \in 1..Len(r) PROVE r[i].bp.nonce = Head(q).bp.nonce + i
  <2>1. i + 1 \in 1..Len(q) /\ r[i] = q[i + 1]
    BY <1>1
  <2>2. q[i + 1].bp.nonce = theirs.nonce + (i + 1)
    BY <2>1 DEF Lane
  <2>3. i \in Nat /\ theirs.nonce \in Nat
    BY <1>1, <1>2
  <2>4. theirs.nonce + (i + 1) = (theirs.nonce + 1) + i
    BY <2>3, NonceArithmetic
  <2> QED BY <1>3, <2>1, <2>2, <2>4
<1>6. r = <<>> => mine = Head(q).bp
  BY <1>1 DEF Lane
<1>7. r # <<>> => r[Len(r)].bp = mine
  <2>1. ASSUME r # <<>> PROVE Len(r) \in 1..Len(r) /\ Len(r) + 1 = Len(q)
    BY <1>1, <2>1
  <2> QED BY <1>1, <2>1 DEF Lane
<1>8. Lane(r, mine, Head(q).bp)
  BY <1>4, <1>5, <1>6, <1>7 DEF Lane
<1> QED BY <1>8 DEF r

\* A step either sends a message, registers one, or leaves the queues and
\* every balance proof alone.
LEMMA ProofSteps ==
    ASSUME TypeOK, [Next]_vars
    PROVE  \/ \E n \in Nodes, msg \in EnvelopMessage : SendStep(n, msg)
           \/ \E n \in Nodes, type \in {"DirectTransfer"} \cup LockMessages :
                 Receive(n, type)
           \/ UNCHANGED queue /\ \A n, m \in Nodes : end'[n][m].bp = end[n][m].bp
<1> DEFINE Kept == UNCHANGED queue /\ \A n, m \in Nodes : end'[n][m].bp = end[n][m].bp
<1>1. ASSUME NEW n \in Nodes, NEW l \in Locks,
             registerSecret(n, l) \/ handleSecretRegisteredOnChain(n, l)
      PROVE  Kept
  <2>1. LockSender[l] \in Nodes /\ end[n][LockSender[l]] \in EndState
    BY LocksAssumption DEF TypeOK
  <2>2. \/ end' = [end EXCEPT ![n][LockSender[l]] = RegisterSecret(@, l)]
        \/ end' = [end EXCEPT ![n][LockSender[l]] =
                      RegisterRevealedSecretHash(@, l, registeredAt[l])]
    BY <1>1 DEF registerSecret, handleSecretRegisteredOnChain
  <2>3. /\ RegisterSecret(end[n][LockSender[l]], l).bp = end[n][LockSender[l]].bp
        /\ RegisterRevealedSecretHash(end[n][LockSender[l]], l, registeredAt[l]).bp
              = end[n][LockSender[l]].bp
    BY <2>1, SecretOperators DEF TypeOK
  <2>4. ASSUME NEW e, e.bp = end[n][LockSender[l]].bp,
               end' = [end EXCEPT ![n][LockSender[l]] = e]
        PROVE  \A k, m \in Nodes : end'[k][m].bp = end[k][m].bp
    BY <2>1, <2>4 DEF TypeOK
  <2>5. \A k, m \in Nodes : end'[k][m].bp = end[k][m].bp
    BY <2>2, <2>3, <2>4
  <2> QED BY <1>1, <2>5 DEF registerSecret, handleSecretRegisteredOnChain
<1>2. ASSUME NEW n \in Nodes, NEW m \in Nodes, handleBalance(n, m)
      PROVE  Kept
  <2>1. end[n][m] \in EndState
    BY DEF TypeOK
  <2>2. UpdateContractBalance(end[n][m], end[n][m].contractBalance + 1).bp = end[n][m].bp
    BY <2>1, BalanceOperator
  <2>3. \A k, j \in Nodes : end'[k][j].bp = end[k][j].bp
    BY <1>2, <2>2 DEF handleBalance, TypeOK
  <2> QED BY <1>2, <2>3 DEF handleBalance
<1>3. ASSUME UNCHANGED <<end, queue>>
      PROVE  Kept
  BY <1>3
<1> QED BY StepKinds, <1>1, <1>2, <1>3
        DEF AnnounceStep, handleBlockStateChange, Deposit, NewBlock, vars

\* Every step keeps both lanes.
LEMMA LanesStep ==
    ASSUME TypeOK, LanesInv, [Next]_vars
    PROVE  LanesInv'
<1>1. ASSUME NEW n \in Nodes, NEW msg \in EnvelopMessage, SendStep(n, msg)
      PROVE  LanesInv'
  <2> DEFINE o == Other(n)
  <2>1. o \in Nodes /\ o # n /\ Other(o) = n
    BY OtherNode
  <2>2. /\ end[n][n] \in EndState /\ end[n][n].bp \in BalanceProofState
        /\ end[o][n].bp \in BalanceProofState /\ queue[n] \in Seq(EnvelopMessage)
    BY <2>1 DEF TypeOK, EndState
  <2>3. /\ end'[n][n] = RegisterTransfer(end[n][n], msg)
        /\ end'[o][n] = end[o][n] /\ end'[o][o] = end[o][o] /\ end'[n][o] = end[n][o]
        /\ queue'[n] = Append(queue[n], msg) /\ queue'[o] = queue[o]
        /\ msg.bp.nonce = end[n][n].bp.nonce + 1
    BY <1>1, <2>1 DEF SendStep, Send, TypeOK, RegisterTransferOK, PreCheckReceivedTransfer
  <2>4. end'[n][n].bp = msg.bp
    BY <2>2, <2>3, RegisterTransferType
  <2>5. Lane(queue'[n], end'[n][n].bp, end'[o][n].bp)
    BY <2>2, <2>3, <2>4, LaneAppend DEF LanesInv
  <2>6. Lane(queue'[o], end'[o][o].bp, end'[n][o].bp)
    BY <2>1, <2>3 DEF LanesInv
  <2>7. \A s \in Nodes : s = n \/ s = o
    BY NodesAssumption DEF Nodes, Other
  <2> QED BY <2>1, <2>5, <2>6, <2>7 DEF LanesInv
<1>2. ASSUME NEW n \in Nodes, NEW type, Receive(n, type)
      PROVE  LanesInv'
  <2> DEFINE o == Other(n)
             msg == Head(queue[o])
  <2>1. o \in Nodes /\ o # n /\ Other(o) = n
    BY OtherNode
  <2>2. /\ end[n][o] \in EndState /\ end[n][o].bp \in BalanceProofState
        /\ end[o][o].bp \in BalanceProofState /\ queue[o] \in Seq(EnvelopMessage)
        /\ queue[o] # <<>> /\ msg \in EnvelopMessage
    BY <1>2, <2>1 DEF TypeOK, EndState, Receive
  <2>3. /\ end'[n][o] = RegisterTransfer(end[n][o], msg)
        /\ end'[o][n] = end[o][n] /\ end'[o][o] = end[o][o] /\ end'[n][n] = end[n][n]
        /\ queue'[o] = Tail(queue[o]) /\ queue'[n] = queue[n]
    BY <1>2, <2>1 DEF Receive, TypeOK
  <2>4. end'[n][o].bp = msg.bp
    BY <2>2, <2>3, RegisterTransferType
  <2>5. Lane(queue'[o], end'[o][o].bp, end'[n][o].bp)
    BY <2>1, <2>2, <2>3, <2>4, LaneTail DEF LanesInv
  <2>6. Lane(queue'[n], end'[n][n].bp, end'[o][n].bp)
    BY <2>1, <2>3 DEF LanesInv
  <2>7. \A s \in Nodes : s = n \/ s = o
    BY NodesAssumption DEF Nodes, Other
  <2> QED BY <2>1, <2>5, <2>6, <2>7 DEF LanesInv
<1>3. ASSUME UNCHANGED queue, \A n, m \in Nodes : end'[n][m].bp = end[n][m].bp
      PROVE  LanesInv'
  BY <1>3, OtherNode DEF LanesInv
<1> QED BY ProofSteps, <1>1, <1>2, <1>3

\* Both lanes are as they should be in every reachable state.
LEMMA LanesAlways == Spec => []LanesInv
<1>1. Init => LanesInv
  <2>1. \A x : NewChannelEndState(x).bp = [nonce |-> 0, transferAmount |-> 0, locksRoot |-> {}]
    BY DEF NewChannelEndState
  <2>2. ASSUME NEW bp, bp = [nonce |-> 0, transferAmount |-> 0, locksRoot |-> {}]
        PROVE  Lane(<<>>, bp, bp)
    BY <2>2 DEF Lane
  <2> QED BY <2>1, <2>2, OtherNode DEF Init, LanesInv
<1>2. TypeOK /\ LanesInv /\ [Next]_vars => LanesInv'
  BY LanesStep
<1> QED BY <1>1, <1>2, TypeCorrect, PTL DEF Spec

\* The two nodes agree on every balance proof, for any number of locks, any
\* traffic and any lag: the receiver's copy is the sender's state as of the
\* messages still queued.
THEOREM AgreementTheorem == Spec => []ProofAgreement
<1>1. LanesInv => ProofAgreement
  BY DEF LanesInv, Lane, ProofAgreement
<1> QED BY <1>1, LanesAlways, PTL

(***************************************************************************)
(* Locks, secrets and the chain.  TimelySecretNeverExpires is the last     *)
(* conjunct of LockBooks; the others make it inductive.  A lock is held    *)
(* only in its sender's EndState and only while its fate is "locked"; its  *)
(* secret is on chain only once both nodes have had the lock; and a node   *)
(* that has passed the block of a timely secret has booked it as on chain. *)
(***************************************************************************)
Timely(l) == registeredAt[l] \in 1..Expiration[l]

LockReach(l) ==
    LET s == LockSender[l]
    IN  /\ fate[Other(s)][l] # "none" => fate[s][l] # "none"
        /\ registeredAt[l] # 0 => l \in Registrable /\ fate[Other(s)][l] # "none"
        /\ registeredAt[l] <= height

LockBooks(n, l) ==
    LET s == LockSender[l]
    IN  /\ \A m \in Nodes :
              l \in end[n][m].tree => m = s /\ fate[n][l] = "locked"
        /\ l \in end[n][s].onChain => Timely(l)
        /\ l \in secretSeen[n] /\ Timely(l) /\ l \in end[n][s].tree
              => l \in end[n][s].onChain
        /\ registeredAt[l] \in 1..(blk[n] - 1) => l \in secretSeen[n]
        /\ l \in secretSeen[n] => registeredAt[l] # 0
        /\ fate[n][l] = "expired" => Expiration[l] < blk[n] /\ ~ Timely(l)

LockInv ==
    /\ \A n \in Nodes : blk[n] <= height
    /\ \A l \in Locks : LockReach(l)
    /\ \A n \in Nodes, l \in Locks : LockBooks(n, l)

\* What a message in s's queue says of its lock until Other(s) registers it.
Expected(s, msg) ==
    /\ msg.type = "MediatedTransfer" =>
          /\ LockSender[msg.lock] = s
          /\ fate[s][msg.lock] # "none"
          /\ fate[Other(s)][msg.lock] = "none"
          /\ Expiration[msg.lock] <= height + SettleTimeout
    /\ msg.type = "RemoveExpired" =>
          /\ Expiration[msg.lock] <= height - ForkConfirmNumber
          /\ ~ Timely(msg.lock)
    /\ msg.type = "AnnounceDisposedResponse" => msg.lock \in disposed[Other(s)]

\* No queue carries the same lock twice.
DistinctLocks(q) ==
    \A i, j \in 1..Len(q) :
        i < j /\ q[i].type = "MediatedTransfer" /\ q[j].type = "MediatedTransfer"
            => q[i].lock # q[j].lock

QueueInv ==
    /\ \A s \in Nodes : announced[s] \subseteq disposed[s]
    /\ \A s \in Nodes : disposed[s] \subseteq Disposable
    /\ \A s \in Nodes : \A i \in 1..Len(queue[s]) : Expected(s, queue[s][i])
    /\ \A s \in Nodes : DistinctLocks(queue[s])

\* The message is about lock l.
Touches(msg, l) == msg.type # "DirectTransfer" /\ msg.lock = l

\* What registering an accepted message does to the places of lock l.
LEMMA RegisteredLock ==
    ASSUME NEW e \in EndState, NEW to, NEW b, NEW msg \in EnvelopMessage, Books(e),
           RegisterTransferOK(e, to, msg, b), NEW l \in Locks
    PROVE  LET f == RegisterTransfer(e, msg)
           IN  /\ ~ Touches(msg, l) =>
                     (l \in f.tree <=> l \in e.tree) /\ (l \in f.onChain <=> l \in e.onChain)
               /\ Touches(msg, l) /\ msg.type = "MediatedTransfer" =>
                     l \notin e.tree /\ l \in f.tree /\ l \notin f.onChain
               /\ Touches(msg, l) /\ msg.type # "MediatedTransfer" =>
                     l \in e.tree /\ l \notin f.tree /\ l \notin f.onChain
               /\ Touches(msg, l) /\ msg.type = "RemoveExpired" =>
                     l \notin e.onChain /\ Expiration[l] <= b - ForkConfirmNumber
<1> DEFINE f == RegisterTransfer(e, msg)
<1>1. /\ f.tree = (e.tree \cup AddedLocks(msg)) \ RemovedLocks(msg)
      /\ f.onChain = e.onChain \ RemovedLocks(msg)
  BY DEF RegisterTransfer, EndState
<1> HIDE DEF f
<1>2. msg.type \in {"DirectTransfer"} \cup LockMessages
  BY DEF EnvelopMessage
<1>3. CASE msg.type = "DirectTransfer"
  <2>1. AddedLocks(msg) = {} /\ RemovedLocks(msg) = {}
    BY <1>3 DEF AddedLocks, RemovedLocks, LockMessages
  <2> QED BY <1>1, <1>3, <2>1 DEF Touches, f
<1>4. CASE msg.type = "MediatedTransfer"
  <2>1. AddedLocks(msg) = {msg.lock} /\ RemovedLocks(msg) = {}
    BY <1>4 DEF AddedLocks, RemovedLocks, LockMessages
  <2>2. ~ IsKnown(e, msg.lock)
    BY <1>4 DEF RegisterTransferOK, RegisterMediatedTransferOK
  <2>3. msg.lock \notin e.tree /\ msg.lock \notin e.onChain
    BY <2>2 DEF IsKnown, Books
  <2> QED BY <1>1, <1>4, <2>1, <2>3 DEF Touches, f
<1>5. CASE msg.type \in LockMessages \ {"MediatedTransfer"}
  <2>1. AddedLocks(msg) = {} /\ RemovedLocks(msg) = {msg.lock}
    BY <1>5 DEF AddedLocks, RemovedLocks, LockMessages
  <2>2. msg.lock \in e.tree
    BY <1>5 DEF RegisterTransferOK, RegisterUnlockOK, RegisterRemoveLockOK,
                LockMessages, TryRemoveHashLock
  <2>3. msg.type = "RemoveExpired" =>
           /\ IsUnknownSecretLock(e, msg.lock)
           /\ Expiration[msg.lock] <= b - ForkConfirmNumber
    BY <1>5 DEF RegisterTransferOK, RegisterRemoveLockOK, LockMessages, TryRemoveHashLock
  <2>4. msg.type = "RemoveExpired" => msg.lock \notin e.onChain
    BY <2>3 DEF IsUnknownSecretLock, Books
  <2> QED BY <1>1, <1>5, <2>1, <2>2, <2>3, <2>4 DEF Touches, LockMessages, f
<1> QED BY <1>2, <1>3, <1>4, <1>5

\* Node n registers an accepted message in its EndState for m: what Send and
\* Receive have in common.
RegisterStep(n, m, msg) ==
    /\ RegisterTransferOK(end[n][m], end[n][Other(m)], msg, blk[n])
    /\ end' = [end EXCEPT ![n][m] = RegisterTransfer(@, msg)]
    /\ RecordFate(n, msg)
    /\ msg.type = "MediatedTransfer" =>
          /\ LockSender[msg.lock] = m /\ fate[n][msg.lock] = "none"
          /\ n # m => fate[m][msg.lock] # "none"
    /\ UNCHANGED <<nodeVars, chainVars>>

\* The EndStates and fates after such a step.
LEMMA RegisterStepFacts ==
    ASSUME TypeOK, NEW n \in Nodes, NEW m \in Nodes, NEW msg \in EnvelopMessage,
           RegisterStep(n, m, msg)
    PROVE  /\ end'[n][m] = RegisterTransfer(end[n][m], msg)
           /\ \A k, j \in Nodes : k # n \/ j # m => end'[k][j] = end[k][j]
           /\ \A k \in Nodes, l \in Locks :
                 k # n \/ ~ Touches(msg, l) => fate'[k][l] = fate[k][l]
           /\ \A l \in Locks : Touches(msg, l) =>
                 /\ fate'[n][l] # "none"
                 /\ fate'[n][l] = "locked" <=> msg.type = "MediatedTransfer"
                 /\ fate'[n][l] = "expired" <=> msg.type = "RemoveExpired"
<1>1. /\ end'[n][m] = RegisterTransfer(end[n][m], msg)
      /\ \A k, j \in Nodes : k # n \/ j # m => end'[k][j] = end[k][j]
  BY DEF RegisterStep, TypeOK
<1>2. CASE msg.type = "DirectTransfer"
  BY <1>1, <1>2 DEF RegisterStep, RecordFate, Touches
<1>3. CASE msg.type \in LockMessages
  <2>1. /\ msg.lock \in Locks /\ msg.type # "DirectTransfer"
        /\ fate' = [fate EXCEPT ![n][msg.lock] = FateAfter[msg.type]]
    BY <1>3 DEF RegisterStep, RecordFate, EnvelopMessage, LockMessages
  <2>2. /\ \A k \in Nodes, l \in Locks :
              k # n \/ l # msg.lock => fate'[k][l] = fate[k][l]
        /\ fate'[n][msg.lock] = FateAfter[msg.type]
    BY <2>1 DEF TypeOK
  <2>3. /\ FateAfter[msg.type] # "none"
        /\ FateAfter[msg.type] = "locked" <=> msg.type = "MediatedTransfer"
        /\ FateAfter[msg.type] = "expired" <=> msg.type = "RemoveExpired"
    BY <1>3 DEF FateAfter, LockMessages
  <2> QED BY <1>1, <2>1, <2>2, <2>3 DEF Touches
<1> QED BY <1>2, <1>3 DEF EnvelopMessage

\* A registered message keeps what is known of every lock.
LEMMA RegisterKeepsLocks ==
    ASSUME TypeOK, BooksMatchProof, LockInv, NEW n \in Nodes, NEW m \in Nodes,
           NEW msg \in EnvelopMessage, RegisterStep(n, m, msg)
    PROVE  LockInv'
<1> DEFINE e == end[n][m]
           f == RegisterTransfer(e, msg)
<1>1. /\ end'[n][m] = f
      /\ \A k, j \in Nodes : k # n \/ j # m => end'[k][j] = end[k][j]
      /\ \A k \in Nodes, l \in Locks :
            k # n \/ ~ Touches(msg, l) => fate'[k][l] = fate[k][l]
      /\ \A l \in Locks : Touches(msg, l) =>
            /\ fate'[n][l] # "none"
            /\ fate'[n][l] = "locked" <=> msg.type = "MediatedTransfer"
            /\ fate'[n][l] = "expired" <=> msg.type = "RemoveExpired"
  BY RegisterStepFacts
<1>2. UNCHANGED <<blk, secretSeen, height, registeredAt>>
  BY DEF RegisterStep, nodeVars, chainVars
<1>3. ASSUME NEW l \in Locks
      PROVE  /\ ~ Touches(msg, l) =>
                   (l \in f.tree <=> l \in e.tree) /\ (l \in f.onChain <=> l \in e.onChain)
             /\ Touches(msg, l) /\ msg.type = "MediatedTransfer" =>
                   l \notin e.tree /\ l \in f.tree /\ l \notin f.onChain
             /\ Touches(msg, l) /\ msg.type # "MediatedTransfer" =>
                   l \in e.tree /\ l \notin f.tree /\ l \notin f.onChain
             /\ Touches(msg, l) /\ msg.type = "RemoveExpired" =>
                   l \notin e.onChain /\ Expiration[l] <= blk[n] - ForkConfirmNumber
  <2>1. e \in EndState /\ Books(e) /\ RegisterTransferOK(e, end[n][Other(m)], msg, blk[n])
    BY DEF TypeOK, BooksMatchProof, RegisterStep
  <2> HIDE DEF e
  <2> QED BY <2>1, RegisteredLock
<1> HIDE DEF e, f
<1>4. ASSUME NEW l \in Locks, Touches(msg, l), msg.type = "MediatedTransfer"
      PROVE  /\ LockSender[l] = m /\ fate[n][l] = "none"
             /\ n # m => fate[m][l] # "none"
             /\ registeredAt[l] = 0
  <2>1. /\ LockSender[l] = m /\ fate[n][l] = "none"
        /\ n # m => fate[m][l] # "none"
    BY <1>4 DEF RegisterStep, Touches
  <2>2. n = m \/ n = Other(m)
    BY NodesAssumption DEF Nodes, Other
  <2>3. registeredAt[l] # 0 => fate[m][l] # "none" /\ fate[Other(m)][l] # "none"
    BY <2>1 DEF LockInv, LockReach
  <2> QED BY <2>1, <2>2, <2>3
<1>5. ASSUME NEW l \in Locks, Touches(msg, l), msg.type # "MediatedTransfer"
      PROVE  LockSender[l] = m /\ fate[n][l] = "locked"
  BY <1>3, <1>5 DEF LockInv, LockBooks, e
<1>6. ASSUME NEW l \in Locks PROVE LockReach(l)'
  <2> DEFINE s == LockSender[l]
  <2>1. s \in Nodes /\ Other(s) \in Nodes
    BY OtherNode, LocksAssumption
  <2>2. LockReach(l)
    BY DEF LockInv
  <2>3. CASE ~ Touches(msg, l)
    BY <1>1, <1>2, <2>1, <2>2, <2>3 DEF LockReach
  <2>4. CASE Touches(msg, l)
    <3>1. n = s \/ n = Other(s)
      BY NodesAssumption, <2>1 DEF Nodes, Other
    <3>2. n # s => fate[s][l] # "none"
      BY <1>4, <1>5, <2>2, <2>4, <3>1 DEF LockReach
    <3>3. fate'[s][l] # "none"
      BY <1>1, <2>1, <2>4, <3>2
    <3>4. fate[Other(s)][l] # "none" => fate'[Other(s)][l] # "none"
      BY <1>1, <2>1, <2>4
    <3> QED BY <1>2, <2>2, <3>3, <3>4 DEF LockReach
  <2> QED BY <2>3, <2>4
<1>7. ASSUME NEW k \in Nodes, NEW l \in Locks PROVE LockBooks(k, l)'
  <2> DEFINE s == LockSender[l]
  <2>1. s \in Nodes
    BY LocksAssumption
  <2>2. LockBooks(k, l)
    BY DEF LockInv
  <2>3. CASE k # n \/ ~ Touches(msg, l)
    <3>1. \A j \in Nodes : /\ l \in end'[k][j].tree <=> l \in end[k][j].tree
                           /\ l \in end'[k][j].onChain <=> l \in end[k][j].onChain
      BY <1>1, <1>3, <2>3 DEF e
    <3>2. fate'[k][l] = fate[k][l]
      BY <1>1, <2>3
    <3> QED BY <1>2, <2>1, <2>2, <3>1, <3>2 DEF LockBooks, Timely
  <2>4. CASE k = n /\ Touches(msg, l)
    <3>1. s = m /\ fate[n][l] \in {"none", "locked"}
      BY <1>4, <1>5, <2>4
    <3>2. ASSUME NEW j \in Nodes, l \in end'[n][j].tree
          PROVE  j = m /\ msg.type = "MediatedTransfer"
      <4>1. CASE j = m
        BY <1>1, <1>3, <2>4, <3>2, <4>1
      <4>2. CASE j # m
        BY <1>1, <2>2, <2>4, <3>1, <3>2, <4>2 DEF LockBooks
      <4> QED BY <4>1, <4>2
    <3>3. l \notin end'[n][s].onChain
      BY <1>1, <1>3, <2>4, <3>1
    <3>4. ~ (Timely(l)' /\ l \in end'[n][s].tree)
      BY <1>2, <1>4, <2>1, <2>4, <3>2 DEF Timely
    <3>5. fate'[n][l] = "expired" => Expiration[l] < blk[n] /\ ~ Timely(l)
      <4>1. SUFFICES ASSUME fate'[n][l] = "expired"
                     PROVE  Expiration[l] < blk[n] /\ ~ Timely(l)
        OBVIOUS
      <4>2. /\ l \notin e.onChain /\ l \in e.tree
            /\ Expiration[l] <= blk[n] - ForkConfirmNumber
        BY <1>1, <1>3, <2>4, <4>1
      <4>3. Expiration[l] \in Nat /\ blk[n] \in Nat /\ ForkConfirmNumber \in Nat \ {0}
            /\ registeredAt[l] \in Nat
        BY LocksAssumption, NumbersAssumption DEF TypeOK
      <4>4. Expiration[l] < blk[n]
        BY <4>2, <4>3
      <4>5. Timely(l) => registeredAt[l] \in 1..(blk[n] - 1)
        BY <4>3, <4>4 DEF Timely
      <4>6. Timely(l) => l \in e.onChain
        BY <2>2, <2>4, <3>1, <4>2, <4>5 DEF LockBooks, e
      <4> QED BY <4>2, <4>4, <4>6
    <3>6. fate'[n][l] = "locked" <=> msg.type = "MediatedTransfer"
      BY <1>1, <2>4
    <3>7. (Timely(l) <=> Timely(l)') /\ blk'[n] = blk[n]
      BY <1>2 DEF Timely
    <3> QED BY <1>2, <2>2, <2>4, <3>1, <3>2, <3>3, <3>4, <3>5, <3>6, <3>7 DEF LockBooks
  <2> QED BY <2>3, <2>4
<1>8. \A k \in Nodes : blk'[k] <= height'
  BY <1>2 DEF LockInv
<1> QED BY <1>6, <1>7, <1>8 DEF LockInv

\* What learning a secret does to the unlocked and registered locks.
LEMMA SecretLocks ==
    ASSUME NEW e \in EndState, Books(e), NEW l \in Locks, NEW b \in Nat
    PROVE  /\ RegisterSecret(e, l).onChain = e.onChain
           /\ \A x \in Locks : x # l =>
                 (x \in RegisterRevealedSecretHash(e, l, b).onChain <=> x \in e.onChain)
           /\ l \in RegisterRevealedSecretHash(e, l, b).onChain
                 <=> l \in e.onChain \/ (l \in e.tree /\ b <= Expiration[l])
BY DEF RegisterSecret, RegisterRevealedSecretHash, IsKnown, Books, EndState

\* Learning a secret from a message keeps what is known of every lock.
LEMMA SecretKeepsLocks ==
    ASSUME TypeOK, BooksMatchProof, LockInv, NEW n \in Nodes, NEW l \in Locks,
           registerSecret(n, l)
    PROVE  LockInv'
<1> DEFINE m == LockSender[l]
           e == end[n][m]
<1>1. m \in Nodes /\ e \in EndState /\ Books(e)
  BY LocksAssumption DEF TypeOK, BooksMatchProof
<1>2. RegisterSecret(e, l).tree = e.tree /\ RegisterSecret(e, l).onChain = e.onChain
  BY <1>1, SecretOperators, SecretLocks
<1>3. \A k, j \in Nodes :
         end'[k][j].tree = end[k][j].tree /\ end'[k][j].onChain = end[k][j].onChain
  BY <1>1, <1>2 DEF registerSecret, TypeOK
<1>4. UNCHANGED <<fate, blk, secretSeen, height, registeredAt>>
  BY DEF registerSecret, nodeVars, chainVars
<1>5. ASSUME NEW k \in Nodes, NEW x \in Locks PROVE LockBooks(k, x)'
  <2>1. LockBooks(k, x) /\ LockSender[x] \in Nodes
    BY LocksAssumption DEF LockInv
  <2> QED BY <1>3, <1>4, <2>1 DEF LockBooks, Timely
<1> QED BY <1>4, <1>5 DEF LockInv, LockReach

\* So does the event of a secret on chain.
LEMMA ChainSecretKeepsLocks ==
    ASSUME TypeOK, BooksMatchProof, LockInv, NEW n \in Nodes, NEW l \in Locks,
           handleSecretRegisteredOnChain(n, l)
    PROVE  LockInv'
<1> DEFINE m == LockSender[l]
           e == end[n][m]
           f == RegisterRevealedSecretHash(e, l, registeredAt[l])
<1>1. m \in Nodes /\ e \in EndState /\ Books(e) /\ registeredAt[l] \in Nat
  BY LocksAssumption DEF TypeOK, BooksMatchProof
<1>2. /\ f.tree = e.tree
      /\ \A x \in Locks : x # l => (x \in f.onChain <=> x \in e.onChain)
      /\ l \in f.onChain <=> l \in e.onChain \/ (l \in e.tree /\ registeredAt[l] <= Expiration[l])
  BY <1>1, SecretOperators, SecretLocks
<1>3. /\ end'[n][m] = f
      /\ \A k, j \in Nodes : k # n \/ j # m => end'[k][j] = end[k][j]
  BY <1>1 DEF handleSecretRegisteredOnChain, TypeOK
<1>4. /\ UNCHANGED <<fate, blk, height, registeredAt>>
      /\ registeredAt[l] \in 1..blk[n]
      /\ \A k \in Nodes, x \in Locks :
            x \in secretSeen'[k] <=> x \in secretSeen[k] \/ (k = n /\ x = l)
  BY DEF handleSecretRegisteredOnChain, chainVars, TypeOK
<1> HIDE DEF f, e
<1>5. ASSUME NEW k \in Nodes, NEW x \in Locks PROVE LockBooks(k, x)'
  <2>1. LockBooks(k, x) /\ LockSender[x] \in Nodes
    BY LocksAssumption DEF LockInv
  <2>2. \A j \in Nodes : end'[k][j].tree = end[k][j].tree
    BY <1>2, <1>3 DEF e
  <2>3. CASE k # n \/ x # l
    <3>1. \A j \in Nodes : x \in end'[k][j].onChain <=> x \in end[k][j].onChain
      BY <1>2, <1>3, <2>3 DEF e
    <3>2. x \in secretSeen'[k] <=> x \in secretSeen[k]
      BY <1>4, <2>3
    <3> QED BY <1>4, <2>1, <2>2, <3>1, <3>2 DEF LockBooks, Timely
  <2>4. CASE k = n /\ x = l
    <3>1. Timely(l) <=> registeredAt[l] <= Expiration[l]
      BY <1>1, <1>4, LocksAssumption DEF Timely, TypeOK
    <3>2. Timely(l)' <=> Timely(l)
      BY <1>4 DEF Timely
    <3>3. l \in end'[n][m].onChain => Timely(l)
      BY <1>2, <1>3, <2>1, <2>4, <3>1 DEF LockBooks, e
    <3>4. Timely(l) /\ l \in end'[n][m].tree => l \in end'[n][m].onChain
      BY <1>2, <1>3, <3>1
    <3>5. registeredAt[l] # 0
      BY <1>4
    <3> QED BY <1>4, <2>1, <2>2, <2>4, <3>2, <3>3, <3>4, <3>5 DEF LockBooks
  <2> QED BY <2>3, <2>4
<1> QED BY <1>4, <1>5 DEF LockInv, LockReach

\* A new block only registers secrets that no node counts as expired.
LEMMA BlockKeepsLocks ==
    ASSUME TypeOK, LockInv, NEW S \in SUBSET Registrable, NewBlock(S)
    PROVE  LockInv'
<1>1. /\ UNCHANGED <<end, fate, blk, secretSeen>>
      /\ height' = height + 1 /\ height \in Nat
      /\ \A l \in Locks : registeredAt'[l] =
            IF l \in S THEN height + 1 ELSE registeredAt[l]
      /\ \A l \in S : registeredAt[l] = 0 /\ fate[Other(LockSender[l])][l] # "none"
      /\ \A k \in Nodes : blk[k] \in Nat /\ blk[k] <= height
  BY DEF NewBlock, nodeVars, TypeOK, Revealable, LockInv
<1>2. ASSUME NEW l \in Locks PROVE LockReach(l)'
  <2>1. LockReach(l) /\ registeredAt[l] \in Nat
    BY DEF LockInv, TypeOK
  <2>2. CASE l \in S
    <3>1. registeredAt'[l] <= height'
      BY <1>1, <2>2
    <3>2. l \in Registrable
      BY <2>2
    <3> QED BY <1>1, <2>1, <2>2, <3>1, <3>2 DEF LockReach
  <2>3. CASE l \notin S
    <3>1. registeredAt'[l] = registeredAt[l] /\ registeredAt[l] <= height'
      BY <1>1, <2>1, <2>3 DEF LockReach
    <3> QED BY <1>1, <2>1, <3>1 DEF LockReach
  <2> QED BY <2>2, <2>3
<1>3. ASSUME NEW k \in Nodes, NEW l \in Locks PROVE LockBooks(k, l)'
  <2>1. LockBooks(k, l) /\ registeredAt[l] \in Nat /\ Expiration[l] \in Nat
    BY LocksAssumption DEF LockInv, TypeOK
  <2>2. CASE l \in S
    <3>1. registeredAt[l] = 0 /\ registeredAt'[l] = height + 1
      BY <1>1, <2>2
    <3>2. ~ Timely(l) /\ l \notin secretSeen[k]
      BY <2>1, <3>1 DEF Timely, LockBooks
    <3>3. /\ ~ (registeredAt'[l] \in 1..(blk[k] - 1))
          /\ registeredAt'[l] # 0
          /\ Expiration[l] < blk[k] => ~ (registeredAt'[l] \in 1..Expiration[l])
      BY <1>1, <2>1, <3>1
    <3> QED BY <1>1, <2>1, <3>2, <3>3 DEF LockBooks, Timely
  <2>3. CASE l \notin S
    <3>1. registeredAt'[l] = registeredAt[l]
      BY <1>1, <2>3
    <3> QED BY <1>1, <2>1, <3>1 DEF LockBooks, Timely
  <2> QED BY <2>2, <2>3
<1>4. \A k \in Nodes : blk'[k] <= height'
  BY <1>1
<1> QED BY <1>2, <1>3, <1>4 DEF LockInv

\* A node that follows the chain by one block has seen what the block before
\* it registered.
LEMMA FollowKeepsLocks ==
    ASSUME TypeOK, LockInv, NEW n \in Nodes, handleBlockStateChange(n)
    PROVE  LockInv'
<1>1. /\ UNCHANGED <<end, fate, secretSeen, height, registeredAt>>
      /\ blk'[n] = blk[n] + 1 /\ blk[n] \in Nat /\ height \in Nat /\ blk[n] < height
      /\ \A k \in Nodes : k # n => blk'[k] = blk[k]
      /\ \A l \in Locks : registeredAt[l] \in 1..blk[n] => l \in secretSeen[n]
  BY DEF handleBlockStateChange, chainVars, TypeOK
<1>2. ASSUME NEW k \in Nodes, NEW l \in Locks PROVE LockBooks(k, l)'
  <2>1. LockBooks(k, l) /\ Expiration[l] \in Nat /\ registeredAt[l] \in Nat
    BY LocksAssumption DEF LockInv, TypeOK
  <2>2. CASE k = n
    <3>1. registeredAt[l] \in 1..(blk'[n] - 1) => l \in secretSeen[n]
      <4>1. blk'[n] - 1 = blk[n]
        BY <1>1
      <4> QED BY <1>1, <4>1
    <3>2. Expiration[l] < blk[n] => Expiration[l] < blk'[n]
      BY <1>1, <2>1
    <3> QED BY <1>1, <2>1, <2>2, <3>1, <3>2 DEF LockBooks, Timely
  <2>3. CASE k # n
    BY <1>1, <2>1, <2>3 DEF LockBooks, Timely
  <2> QED BY <2>2, <2>3
<1>3. \A k \in Nodes : blk'[k] <= height'
  BY <1>1 DEF LockInv
<1> QED BY <1>1, <1>2, <1>3 DEF LockInv, LockReach

\* A deposit event keeps what is known of every lock.
LEMMA BalanceKeepsLocks ==
    ASSUME TypeOK, LockInv, NEW n \in Nodes, NEW m \in Nodes, handleBalance(n, m)
    PROVE  LockInv'
<1>1. end[n][m] \in EndState
  BY DEF TypeOK
<1>2. \A k, j \in Nodes :
         end'[k][j].tree = end[k][j].tree /\ end'[k][j].onChain = end[k][j].onChain
  <2> DEFINE f == UpdateContractBalance(end[n][m], end[n][m].contractBalance + 1)
  <2>1. f.tree = end[n][m].tree /\ f.onChain = end[n][m].onChain
    BY <1>1, BalanceOperator
  <2>2. end' = [end EXCEPT ![n][m] = f]
    BY DEF handleBalance
  <2> HIDE DEF f
  <2> QED BY <2>1, <2>2 DEF TypeOK
<1>3. UNCHANGED <<fate, blk, secretSeen, height, registeredAt>>
  BY DEF handleBalance, nodeVars, chainVars
<1>4. ASSUME NEW k \in Nodes, NEW x \in Locks PROVE LockBooks(k, x)'
  <2>1. LockBooks(k, x) /\ LockSender[x] \in Nodes
    BY LocksAssumption DEF LockInv
  <2> QED BY <1>2, <1>3, <2>1 DEF LockBooks, Timely
<1> QED BY <1>3, <1>4 DEF LockInv, LockReach

\* Sending a message registers it at its sender.
LEMMA SendRegisters ==
    ASSUME TypeOK, NEW n \in Nodes, NEW msg \in EnvelopMessage, SendStep(n, msg)
    PROVE  RegisterStep(n, n, msg)
BY DEF SendStep, Send, RegisterStep

\* Receiving a message registers it at its receiver; the queue's invariant
\* says that the lock it carries is new there.
LEMMA ReceiveRegisters ==
    ASSUME TypeOK, QueueInv, NEW n \in Nodes, NEW type, Receive(n, type)
    PROVE  LET o == Other(n)
           IN  /\ queue[o] # <<>> /\ Head(queue[o]) \in EnvelopMessage
               /\ Len(queue[o]) \in Nat \ {0} /\ Head(queue[o]) = queue[o][1]
               /\ RegisterStep(n, o, Head(queue[o]))
<1> DEFINE o == Other(n)
           msg == Head(queue[o])
<1>1. o \in Nodes /\ o # n /\ Other(o) = n
  BY OtherNode
<1>2. queue[o] \in Seq(EnvelopMessage) /\ queue[o] # <<>>
  BY <1>1 DEF TypeOK, Receive
<1>3. msg \in EnvelopMessage /\ msg = queue[o][1] /\ Len(queue[o]) \in Nat \ {0}
  BY <1>2
<1>4. Expected(o, msg)
  <2>1. 1 \in 1..Len(queue[o])
    BY <1>3
  <2> QED BY <1>1, <1>3, <2>1 DEF QueueInv
<1>5. RegisterStep(n, o, msg)
  BY <1>1, <1>4 DEF Receive, CanReceive, RegisterStep, Expected
<1> QED BY <1>2, <1>3, <1>5

\* The elements of a queue after Append and Tail.
LEMMA AppendElements ==
    ASSUME NEW q \in Seq(EnvelopMessage), NEW msg \in EnvelopMessage
    PROVE  /\ Append(q, msg) \in Seq(EnvelopMessage) /\ Append(q, msg) # <<>>
           /\ Len(q) \in Nat /\ Len(Append(q, msg)) = Len(q) + 1
           /\ Append(q, msg)[Len(q) + 1] = msg
           /\ \A i \in 1..Len(q) : Append(q, msg)[i] = q[i] /\ q[i] \in EnvelopMessage
OBVIOUS

LEMMA TailElements ==
    ASSUME NEW q \in Seq(EnvelopMessage), q # <<>>
    PROVE  /\ Tail(q) \in Seq(EnvelopMessage)
           /\ Len(q) \in Nat \ {0} /\ Len(Tail(q)) = Len(q) - 1
           /\ \A i \in 1..Len(Tail(q)) : i + 1 \in 2..Len(q) /\ Tail(q)[i] = q[i + 1]
<1>1. Tail(q) \in Seq(EnvelopMessage) /\ Len(q) \in Nat \ {0} /\ Len(Tail(q)) = Len(q) - 1
  OBVIOUS
<1>2. \A i \in 1..Len(Tail(q)) : Tail(q)[i] = q[i + 1]
  OBVIOUS
<1> QED BY <1>1, <1>2

\* A node that sends a message expects it to be registered.
LEMMA SendKeepsQueues ==
    ASSUME TypeOK, BooksMatchProof, LockInv, QueueInv, LockInv',
           NEW n \in Nodes, NEW msg \in EnvelopMessage, SendStep(n, msg)
    PROVE  QueueInv'
<1> DEFINE o == Other(n)
<1>1. o \in Nodes /\ o # n /\ Other(o) = n /\ (\A s \in Nodes : s = n \/ s = o)
  BY OtherNode, NodesAssumption DEF Nodes, Other
<1>2. RegisterStep(n, n, msg)
  BY SendRegisters
<1>3. /\ \A k \in Nodes, l \in Locks :
            k # n \/ ~ Touches(msg, l) => fate'[k][l] = fate[k][l]
      /\ \A l \in Locks : Touches(msg, l) =>
            /\ fate'[n][l] # "none"
            /\ fate'[n][l] = "expired" <=> msg.type = "RemoveExpired"
  BY <1>2, RegisterStepFacts
<1>4. /\ UNCHANGED <<disposed, height, registeredAt, blk>>
      /\ queue'[n] = Append(queue[n], msg) /\ queue'[o] = queue[o]
      /\ queue[n] \in Seq(EnvelopMessage) /\ queue[o] \in Seq(EnvelopMessage)
      /\ \A m \in Nodes : announced'[m] \subseteq announced[m]
  BY <1>1 DEF SendStep, Send, nodeVars, chainVars, TypeOK
<1>5. ASSUME NEW l \in Locks, Touches(msg, l) PROVE LockSender[l] = n
  <2>1. CASE msg.type = "MediatedTransfer"
    BY <1>5, <2>1 DEF SendStep, Touches
  <2>2. CASE msg.type # "MediatedTransfer"
    <3>1. /\ end[n][n] \in EndState /\ Books(end[n][n])
          /\ RegisterTransferOK(end[n][n], end[n][o], msg, blk[n])
      BY DEF TypeOK, BooksMatchProof, SendStep, Send
    <3>2. l \in end[n][n].tree
      BY <1>5, <2>2, <3>1, RegisteredLock
    <3> QED BY <3>2 DEF LockInv, LockBooks
  <2> QED BY <2>1, <2>2
<1>6. ASSUME NEW x \in EnvelopMessage, x.type \in LockMessages PROVE x.lock \in Locks
  BY <1>6 DEF EnvelopMessage, LockMessages
<1>7. ASSUME NEW x \in EnvelopMessage, Expected(n, x) PROVE Expected(n, x)'
  <2>1. x.type = "MediatedTransfer" =>
           fate'[n][x.lock] # "none" /\ fate'[o][x.lock] = "none"
    BY <1>1, <1>3, <1>6, <1>7 DEF Expected, LockMessages
  <2> QED BY <1>4, <1>7, <2>1 DEF Expected, Timely
<1>8. ASSUME NEW x \in EnvelopMessage, Expected(o, x) PROVE Expected(o, x)'
  <2>1. x.type = "MediatedTransfer" =>
           fate'[o][x.lock] # "none" /\ fate'[n][x.lock] = "none"
    <3>1. SUFFICES ASSUME x.type = "MediatedTransfer"
                   PROVE  fate'[o][x.lock] # "none" /\ fate'[n][x.lock] = "none"
      OBVIOUS
    <3>2. x.lock \in Locks /\ LockSender[x.lock] = o
      BY <1>6, <1>8, <3>1 DEF Expected, LockMessages
    <3>3. ~ Touches(msg, x.lock)
      BY <1>1, <1>5, <3>2
    <3> QED BY <1>1, <1>3, <1>8, <3>1, <3>2, <3>3 DEF Expected
  <2> QED BY <1>1, <1>4, <1>8, <2>1 DEF Expected, Timely
<1>9. Expected(n, msg)'
  <2>0. /\ height \in Nat /\ blk[n] \in Nat /\ blk[n] <= height
        /\ ForkConfirmNumber \in Nat /\ SettleTimeout \in Nat
    BY NumbersAssumption DEF TypeOK, LockInv
  <2>1. CASE msg.type = "MediatedTransfer"
    <3>1. msg.lock \in Locks /\ Touches(msg, msg.lock) /\ Expiration[msg.lock] \in Nat
      BY <1>6, <2>1, LocksAssumption DEF LockMessages, Touches
    <3>2. LockSender[msg.lock] = n /\ fate[n][msg.lock] = "none"
      BY <2>1 DEF SendStep
    <3>3. fate[o][msg.lock] = "none"
      BY <3>1, <3>2 DEF LockInv, LockReach
    <3>4. Expiration[msg.lock] <= blk[n] + SettleTimeout
      BY <1>2, <2>1 DEF RegisterStep, RegisterTransferOK, RegisterMediatedTransferOK
    <3>5. Expiration[msg.lock] <= height + SettleTimeout
      BY <2>0, <3>1, <3>4
    <3> QED BY <1>1, <1>3, <1>4, <2>1, <3>1, <3>2, <3>3, <3>5 DEF Expected
  <2>2. CASE msg.type = "RemoveExpired"
    <3>1. msg.lock \in Locks /\ Touches(msg, msg.lock) /\ Expiration[msg.lock] \in Nat
      BY <1>6, <2>2, LocksAssumption DEF LockMessages, Touches
    <3>2. Expiration[msg.lock] <= blk[n] - ForkConfirmNumber
      BY <1>2, <2>2 DEF RegisterStep, RegisterTransferOK, RegisterRemoveLockOK,
                        TryRemoveHashLock
    <3>3. Expiration[msg.lock] <= height - ForkConfirmNumber
      BY <2>0, <3>1, <3>2
    <3>4. ~ Timely(msg.lock)'
      BY <1>3, <2>2, <3>1 DEF LockInv, LockBooks
    <3> QED BY <1>4, <2>2, <3>3, <3>4 DEF Expected
  <2>3. CASE msg.type = "AnnounceDisposedResponse"
    BY <1>1, <1>4, <2>3 DEF SendStep, QueueInv, Expected
  <2>4. CASE msg.type \in {"DirectTransfer", "UnLock"}
    BY <2>4 DEF Expected
  <2> QED BY <2>1, <2>2, <2>3, <2>4 DEF EnvelopMessage, LockMessages
<1>10. /\ Len(queue[n]) \in Nat /\ Len(queue'[n]) = Len(queue[n]) + 1
       /\ queue'[n][Len(queue[n]) + 1] = msg
       /\ \A i \in 1..Len(queue[n]) :
             queue'[n][i] = queue[n][i] /\ queue[n][i] \in EnvelopMessage
  BY <1>4, AppendElements
<1>11. ASSUME NEW i \in 1..Len(queue'[n]) PROVE Expected(n, queue[n][i])'
  <2>1. CASE i = Len(queue[n]) + 1
    <3>1. queue'[n][i] = msg
      BY <1>10, <2>1
    <3> QED BY <1>9, <3>1 DEF Expected, Timely
  <2>2. CASE i \in 1..Len(queue[n])
    <3>1. PICK x \in EnvelopMessage : x = queue[n][i] /\ queue'[n][i] = x
      BY <1>10, <2>2
    <3>2. Expected(n, x)'
      BY <1>7, <2>2, <3>1 DEF QueueInv
    <3> QED BY <3>1, <3>2 DEF Expected, Timely
  <2> QED BY <1>10, <2>1, <2>2
<1>12. ASSUME NEW i \in 1..Len(queue'[o]) PROVE Expected(o, queue[o][i])'
  <2>1. i \in 1..Len(queue[o]) /\ queue[o][i] \in EnvelopMessage /\ queue'[o] = queue[o]
    BY <1>4
  <2>2. PICK x \in EnvelopMessage : x = queue[o][i] /\ queue'[o][i] = x
    BY <2>1
  <2>3. Expected(o, x)'
    BY <1>1, <1>8, <2>1, <2>2 DEF QueueInv
  <2> QED BY <2>2, <2>3 DEF Expected, Timely
<1>13. DistinctLocks(queue[n])'
  <2> SUFFICES ASSUME NEW i \in 1..Len(queue'[n]), NEW j \in 1..Len(queue'[n]), i < j,
                      queue'[n][i].type = "MediatedTransfer",
                      queue'[n][j].type = "MediatedTransfer"
               PROVE  queue'[n][i].lock # queue'[n][j].lock
    BY DEF DistinctLocks
  <2>1. i \in 1..Len(queue[n]) /\ queue'[n][i] = queue[n][i]
    BY <1>10
  <2>2. CASE j \in 1..Len(queue[n])
    BY <1>10, <2>1, <2>2 DEF QueueInv, DistinctLocks
  <2>3. CASE j = Len(queue[n]) + 1
    <3>1. fate[n][queue[n][i].lock] # "none"
      BY <2>1 DEF QueueInv, Expected
    <3> QED BY <1>10, <2>1, <2>3, <3>1 DEF SendStep
  <2> QED BY <1>10, <2>2, <2>3
<1>14. DistinctLocks(queue[o])'
  BY <1>1, <1>4 DEF QueueInv, DistinctLocks
<1>15. \A s \in Nodes : announced'[s] \subseteq disposed'[s] /\ disposed'[s] \subseteq Disposable
  BY <1>4 DEF QueueInv
<1>16. ASSUME NEW s \in Nodes
       PROVE  (\A i \in 1..Len(queue[s]) : Expected(s, queue[s][i]))' /\ DistinctLocks(queue[s])'
  BY <1>1, <1>11, <1>12, <1>13, <1>14
<1> QED BY <1>15, <1>16 DEF QueueInv

\* What the messages behind the head say stays true when it is registered.
LEMMA ReceiveKeepsQueues ==
    ASSUME TypeOK, BooksMatchProof, LockInv, QueueInv,
           NEW n \in Nodes, NEW type, Receive(n, type)
    PROVE  QueueInv'
<1> DEFINE o == Other(n)
<1>0. PICK msg : msg = Head(queue[o])
  OBVIOUS
<1>1. o \in Nodes /\ o # n /\ Other(o) = n /\ (\A s \in Nodes : s = n \/ s = o)
  BY OtherNode, NodesAssumption DEF Nodes, Other
<1>2. /\ msg \in EnvelopMessage /\ RegisterStep(n, o, msg)
      /\ queue[o] # <<>> /\ Len(queue[o]) \in Nat \ {0} /\ msg = queue[o][1]
  BY <1>0, ReceiveRegisters
<1>3. /\ \A k \in Nodes, l \in Locks :
            k # n \/ ~ Touches(msg, l) => fate'[k][l] = fate[k][l]
      /\ \A l \in Locks : Touches(msg, l) => fate'[n][l] # "none"
  BY <1>1, <1>2, RegisterStepFacts
<1>4. /\ UNCHANGED <<announced, disposed, height, registeredAt>>
      /\ queue'[o] = Tail(queue[o]) /\ queue'[n] = queue[n]
      /\ queue[n] \in Seq(EnvelopMessage) /\ queue[o] \in Seq(EnvelopMessage)
  BY <1>1 DEF Receive, nodeVars, chainVars, TypeOK
<1>5. /\ \A i \in 1..Len(queue'[o]) : i + 1 \in 2..Len(queue[o])
                                      /\ queue'[o][i] = queue[o][i + 1]
      /\ Len(queue'[o]) = Len(queue[o]) - 1
      /\ \A i \in 1..Len(queue[o]) : queue[o][i] \in EnvelopMessage
      /\ \A i \in 1..Len(queue[n]) : queue[n][i] \in EnvelopMessage
  BY <1>2, <1>4, TailElements
<1>6. ASSUME NEW x \in EnvelopMessage, x.type \in LockMessages PROVE x.lock \in Locks
  BY <1>6 DEF EnvelopMessage, LockMessages
<1>7. ASSUME NEW l \in Locks, Touches(msg, l), msg.type # "MediatedTransfer"
      PROVE  fate[n][l] = "locked"
  <2>1. /\ end[n][o] \in EndState /\ Books(end[n][o])
        /\ RegisterTransferOK(end[n][o], end[n][n], msg, blk[n])
    BY <1>1, <1>2 DEF TypeOK, BooksMatchProof, RegisterStep
  <2>2. l \in end[n][o].tree
    BY <1>2, <1>7, <2>1, RegisteredLock
  <2> QED BY <1>1, <2>2 DEF LockInv, LockBooks
<1>8. ASSUME NEW x \in EnvelopMessage, Expected(n, x) PROVE Expected(n, x)'
  <2>1. x.type = "MediatedTransfer" =>
           fate'[n][x.lock] # "none" /\ fate'[o][x.lock] = "none"
    BY <1>1, <1>3, <1>6, <1>8 DEF Expected, LockMessages
  <2> QED BY <1>4, <1>8, <2>1 DEF Expected, Timely
<1>9. ASSUME NEW i \in 1..Len(queue'[o]), NEW x \in EnvelopMessage, x = queue[o][i + 1]
      PROVE  Expected(o, x)'
  <2>1. /\ i + 1 \in 1..Len(queue[o]) /\ 1 \in 1..Len(queue[o]) /\ 1 < i + 1
    BY <1>2, <1>5
  <2>2. Expected(o, x)
    BY <1>1, <1>9, <2>1 DEF QueueInv
  <2>3. x.type = "MediatedTransfer" =>
           fate'[o][x.lock] # "none" /\ fate'[n][x.lock] = "none"
    <3>1. SUFFICES ASSUME x.type = "MediatedTransfer"
                   PROVE  fate'[o][x.lock] # "none" /\ fate'[n][x.lock] = "none"
      OBVIOUS
    <3>2. /\ x.lock \in Locks /\ fate[n][x.lock] = "none" /\ fate[o][x.lock] # "none"
      BY <1>1, <1>6, <2>2, <3>1 DEF Expected, LockMessages
    <3>3. ~ (msg.type = "MediatedTransfer" /\ msg.lock = x.lock)
      BY <1>1, <1>2, <1>9, <2>1, <3>1 DEF QueueInv, DistinctLocks
    <3>4. ~ Touches(msg, x.lock)
      BY <1>7, <3>2, <3>3 DEF Touches
    <3> QED BY <1>1, <1>3, <3>2, <3>4
  <2> QED BY <1>1, <1>4, <2>2, <2>3 DEF Expected, Timely
<1>10. ASSUME NEW i \in 1..Len(queue'[o]) PROVE Expected(o, queue[o][i])'
  <2>1. PICK x \in EnvelopMessage : x = queue[o][i + 1] /\ queue'[o][i] = x
    BY <1>5
  <2>2. Expected(o, x)'
    BY <1>9, <2>1
  <2> QED BY <2>1, <2>2 DEF Expected, Timely
<1>11. ASSUME NEW i \in 1..Len(queue'[n]) PROVE Expected(n, queue[n][i])'
  <2>1. i \in 1..Len(queue[n]) /\ queue'[n] = queue[n]
    BY <1>4
  <2>2. PICK x \in EnvelopMessage : x = queue[n][i] /\ queue'[n][i] = x
    BY <1>5, <2>1
  <2>3. Expected(n, x)'
    BY <1>8, <2>1, <2>2 DEF QueueInv
  <2> QED BY <2>2, <2>3 DEF Expected, Timely
<1>12. DistinctLocks(queue[o])'
  <2> SUFFICES ASSUME NEW i \in 1..Len(queue'[o]), NEW j \in 1..Len(queue'[o]), i < j,
                      queue'[o][i].type = "MediatedTransfer",
                      queue'[o][j].type = "MediatedTransfer"
               PROVE  queue'[o][i].lock # queue'[o][j].lock
    BY DEF DistinctLocks
  <2>1. /\ i + 1 \in 1..Len(queue[o]) /\ j + 1 \in 1..Len(queue[o]) /\ i + 1 < j + 1
        /\ queue'[o][i] = queue[o][i + 1] /\ queue'[o][j] = queue[o][j + 1]
    BY <1>5
  <2> QED BY <1>1, <2>1 DEF QueueInv, DistinctLocks
<1>13. DistinctLocks(queue[n])'
  BY <1>4 DEF QueueInv, DistinctLocks
<1>14. \A s \in Nodes : announced'[s] \subseteq disposed'[s] /\ disposed'[s] \subseteq Disposable
  BY <1>4 DEF QueueInv
<1>15. ASSUME NEW s \in Nodes
       PROVE  (\A i \in 1..Len(queue[s]) : Expected(s, queue[s][i]))' /\ DistinctLocks(queue[s])'
  BY <1>1, <1>10, <1>11, <1>12, <1>13
<1> QED BY <1>14, <1>15 DEF QueueInv

\* A step that sends and registers no message keeps the queues' invariant if
\* no expired lock becomes timely.
LEMMA OthersKeepQueues ==
    ASSUME TypeOK, QueueInv, UNCHANGED <<queue, fate>>, height' \in Nat, height <= height',
           \A s \in Nodes : disposed[s] \subseteq disposed'[s]
                            /\ disposed'[s] \subseteq Disposable
                            /\ announced'[s] \subseteq disposed'[s],
           \A l \in Locks : ~ Timely(l) /\ Expiration[l] <= height - ForkConfirmNumber
                              => ~ Timely(l)'
    PROVE  QueueInv'
<1>1. ASSUME NEW s \in Nodes, NEW x \in EnvelopMessage, Expected(s, x) PROVE Expected(s, x)'
  <2>1. CASE x.type \in LockMessages
    <3>1. /\ x.lock \in Locks /\ Other(s) \in Nodes /\ Expiration[x.lock] \in Nat
          /\ height \in Nat /\ ForkConfirmNumber \in Nat /\ SettleTimeout \in Nat
      BY <2>1, OtherNode, LocksAssumption, NumbersAssumption
         DEF EnvelopMessage, LockMessages, TypeOK
    <3>2. /\ Expiration[x.lock] <= height + SettleTimeout
                => Expiration[x.lock] <= height' + SettleTimeout
          /\ Expiration[x.lock] <= height - ForkConfirmNumber
                => Expiration[x.lock] <= height' - ForkConfirmNumber
      BY <3>1
    <3> QED BY <1>1, <3>1, <3>2 DEF Expected
  <2>2. CASE x.type = "DirectTransfer"
    BY <2>2 DEF Expected
  <2> QED BY <2>1, <2>2 DEF EnvelopMessage
<1>2. ASSUME NEW s \in Nodes, NEW i \in 1..Len(queue'[s]) PROVE Expected(s, queue[s][i])'
  <2>1. queue'[s] = queue[s] /\ queue[s] \in Seq(EnvelopMessage) /\ i \in 1..Len(queue[s])
    BY DEF TypeOK
  <2>2. PICK x \in EnvelopMessage : x = queue[s][i] /\ queue'[s][i] = x
    BY <2>1
  <2>3. Expected(s, x)'
    BY <1>1, <2>1, <2>2 DEF QueueInv
  <2> QED BY <2>2, <2>3 DEF Expected, Timely
<1>3. ASSUME NEW s \in Nodes PROVE DistinctLocks(queue[s])'
  BY DEF QueueInv, DistinctLocks
<1> QED BY <1>2, <1>3 DEF QueueInv

\* Every step keeps what is known of the locks and of the messages about them.
LEMMA LocksStep ==
    ASSUME TypeOK, BooksMatchProof, LockInv, QueueInv, [Next]_vars
    PROVE  LockInv' /\ QueueInv'
<1>0. height \in Nat /\ (\A s \in Nodes : announced[s] \subseteq disposed[s]
                                          /\ disposed[s] \subseteq Disposable)
  BY DEF TypeOK, QueueInv
<1>1. ASSUME UNCHANGED <<queue, fate, height, registeredAt, announced, disposed>>
      PROVE  QueueInv'
  <2>1. \A l \in Locks : Timely(l)' <=> Timely(l)
    BY <1>1 DEF Timely
  <2> QED BY <1>0, <1>1, <2>1, OthersKeepQueues
<1>2. ASSUME NEW n \in Nodes, NEW msg \in EnvelopMessage, SendStep(n, msg)
      PROVE  LockInv' /\ QueueInv'
  <2>1. LockInv'
    BY <1>2, SendRegisters, RegisterKeepsLocks
  <2> QED BY <1>2, <2>1, SendKeepsQueues
<1>3. ASSUME NEW n \in Nodes, NEW type, Receive(n, type)
      PROVE  LockInv' /\ QueueInv'
  <2>1. Other(n) \in Nodes
    BY OtherNode
  <2>2. PICK msg \in EnvelopMessage : RegisterStep(n, Other(n), msg)
    BY <1>3, ReceiveRegisters
  <2>3. LockInv'
    BY <2>1, <2>2, RegisterKeepsLocks
  <2> QED BY <1>3, <2>3, ReceiveKeepsQueues
<1>4. CASE AnnounceStep
  <2>1. UNCHANGED <<end, queue, fate, blk, secretSeen, height, registeredAt>>
    BY <1>4 DEF AnnounceStep, nodeVars, chainVars
  <2>2. LockInv'
    BY <2>1 DEF LockInv, LockReach, LockBooks, Timely
  <2>3. \A s \in Nodes : /\ disposed[s] \subseteq disposed'[s]
                         /\ disposed'[s] \subseteq Disposable
                         /\ announced'[s] \subseteq disposed'[s]
    BY <1>0, <1>4 DEF AnnounceStep
  <2>4. \A l \in Locks : Timely(l)' <=> Timely(l)
    BY <2>1 DEF Timely
  <2> QED BY <1>0, <2>1, <2>2, <2>3, <2>4, OthersKeepQueues
<1>5. ASSUME NEW n \in Nodes, NEW l \in Locks, registerSecret(n, l)
      PROVE  LockInv' /\ QueueInv'
  BY <1>1, <1>5, SecretKeepsLocks DEF registerSecret, chainVars
<1>6. ASSUME NEW n \in Nodes, NEW l \in Locks, handleSecretRegisteredOnChain(n, l)
      PROVE  LockInv' /\ QueueInv'
  BY <1>1, <1>6, ChainSecretKeepsLocks DEF handleSecretRegisteredOnChain, chainVars
<1>7. ASSUME NEW n \in Nodes, handleBlockStateChange(n)
      PROVE  LockInv' /\ QueueInv'
  BY <1>1, <1>7, FollowKeepsLocks DEF handleBlockStateChange, chainVars
<1>8. ASSUME NEW n \in Nodes, NEW m \in Nodes, handleBalance(n, m)
      PROVE  LockInv' /\ QueueInv'
  BY <1>1, <1>8, BalanceKeepsLocks DEF handleBalance, chainVars
<1>9. ASSUME UNCHANGED <<end, queue, fate, announced, disposed, blk, secretSeen,
                         height, registeredAt>>
      PROVE  LockInv' /\ QueueInv'
  <2>1. LockInv'
    BY <1>9 DEF LockInv, LockReach, LockBooks, Timely
  <2> QED BY <1>1, <1>9, <2>1
<1>10. ASSUME NEW S \in SUBSET Registrable, NewBlock(S)
       PROVE  LockInv' /\ QueueInv'
  <2>1. /\ UNCHANGED <<queue, fate, announced, disposed>>
        /\ height' = height + 1
        /\ \A l \in Locks : registeredAt'[l] =
              IF l \in S THEN height + 1 ELSE registeredAt[l]
    BY <1>10 DEF NewBlock
  <2>2. ASSUME NEW l \in Locks, ~ Timely(l), Expiration[l] <= height - ForkConfirmNumber
        PROVE  ~ Timely(l)'
    <3>1. Expiration[l] \in Nat /\ ForkConfirmNumber \in Nat
      BY LocksAssumption, NumbersAssumption
    <3>2. ~ (height + 1 \in 1..Expiration[l])
      BY <1>0, <2>2, <3>1
    <3> QED BY <2>1, <2>2, <3>2 DEF Timely
  <2>3. height' \in Nat /\ height <= height'
    BY <1>0, <2>1
  <2>4. QueueInv'
    BY <1>0, <2>1, <2>2, <2>3, OthersKeepQueues
  <2> QED BY <1>10, <2>4, BlockKeepsLocks
<1> QED BY StepKinds, <1>2, <1>3, <1>4, <1>5, <1>6, <1>7, <1>8, <1>9, <1>10
        DEF Deposit, vars, nodeVars

\* Both hold when the channel opens.
LEMMA LocksInit == Init => LockInv /\ QueueInv
<1> SUFFICES ASSUME Init PROVE LockInv /\ QueueInv
  OBVIOUS
<1>1. \A n, m \in Nodes : end[n][m].tree = {} /\ end[n][m].onChain = {}
  BY DEF Init, NewChannelEndState
<1>2. /\ \A l \in Locks : registeredAt[l] = 0 /\ 0 <= 1
      /\ height = 1 /\ \A n \in Nodes : blk[n] = 1 /\ secretSeen[n] = {}
      /\ \A n \in Nodes, l \in Locks : fate[n][l] = "none"
      /\ \A n \in Nodes : queue[n] = <<>> /\ announced[n] = {} /\ disposed[n] = {}
  BY DEF Init
<1>3. \A l \in Locks : LockSender[l] \in Nodes /\ Other(LockSender[l]) \in Nodes
  BY LocksAssumption, OtherNode
<1>4. LockInv
  BY <1>1, <1>2, <1>3 DEF LockInv, LockReach, LockBooks, Timely
<1>5. \A n \in Nodes : Len(queue[n]) = 0
  BY <1>2
<1>6. QueueInv
  BY <1>2, <1>5 DEF QueueInv, DistinctLocks
<1> QED BY <1>4, <1>6

\* Both hold in every reachable state.
LEMMA LocksAlways == Spec => [](LockInv /\ QueueInv)
<1>1. TypeOK /\ BooksMatchProof /\ LockInv /\ QueueInv /\ [Next]_vars
         => LockInv' /\ QueueInv'
  BY LocksStep
<1> QED BY <1>1, LocksInit, TypeCorrect, BooksTheorem, PTL DEF Spec

\* For every set of locks, every expiration and whatever blocks the two nodes
\* have reached: a lock whose secret reached the chain in time is never
\* removed as expired.
THEOREM TimelyTheorem == Spec => []TimelySecretNeverExpires
<1>1. TypeOK /\ LockInv => TimelySecretNeverExpires
  <2> SUFFICES ASSUME TypeOK, LockInv, NEW n \in Nodes, NEW l \in Locks,
                      fate[n][l] = "expired"
               PROVE  registeredAt[l] = 0 \/ registeredAt[l] > Expiration[l]
    BY DEF TimelySecretNeverExpires
  <2>1. ~ (registeredAt[l] \in 1..Expiration[l])
    BY DEF LockInv, LockBooks, Timely
  <2>2. registeredAt[l] \in Nat /\ Expiration[l] \in Nat
    BY LocksAssumption DEF TypeOK
  <2> QED BY <2>1, <2>2
<1> QED BY <1>1, TypeCorrect, LocksAlways, PTL

(***************************************************************************)
(* Solvency.  What a participant has signed away is measured on balance    *)
(* proofs: transferred plus locked.  FundedInv bounds the proof the        *)
(* partner holds, the signer's newest and every one that is queued between *)
(* them, by a limit that only grows: the deposit and what the signer holds *)
(* from its partner.  Solvent bounds only the first.                       *)
(***************************************************************************)
Owed(bp) == bp.transferAmount + SumOver(LockAmount, bp.locksRoot)

Limit(s) == deposit[s] + end[s][Other(s)].bp.transferAmount

FundedInv ==
    \A s \in Nodes :
        /\ Owed(end[s][s].bp) <= Limit(s)
        /\ Owed(end[Other(s)][s].bp) <= Limit(s)
        /\ \A i \in 1..Len(queue[s]) : Owed(queue[s][i].bp) <= Limit(s)
        /\ \A n \in Nodes : end[n][s].contractBalance <= deposit[s]

\* The sums of lock amounts.
LEMMA LockSums ==
    /\ SumOver(LockAmount, {}) = 0
    /\ \A S \in SUBSET Locks : SumOver(LockAmount, S) \in Nat
    /\ \A S \in SUBSET Locks : \A l \in S :
          SumOver(LockAmount, S) = LockAmount[l] + SumOver(LockAmount, S \ {l})
<1>1. IsFiniteSet(Locks) /\ LockAmount \in [Locks -> Nat]
  BY LocksAssumption
<1> QED BY <1>1, SumFacts

\* Locks that two sets of locks cover amount to no more than these do.
LEMMA LocksCovered ==
    ASSUME NEW W \in SUBSET Locks, NEW X \in SUBSET Locks, NEW Y \in SUBSET Locks,
           W \subseteq X \cup Y
    PROVE  SumOver(LockAmount, W) <= SumOver(LockAmount, X) + SumOver(LockAmount, Y)
<1>1. IsFiniteSet(Locks) /\ LockAmount \in [Locks -> Nat]
  BY LocksAssumption
<1> QED BY <1>1, SumCovered

\* The amount locked is the sum over the leaves of the tree.
LEMMA AmountLockedIsSum ==
    ASSUME NEW e, Books(e)
    PROVE  AmountLocked(e) = SumOver(LockAmount, e.bp.locksRoot)
BY DEF AmountLocked, SumOver, Books

\* Owed is a natural number.
LEMMA OwedType ==
    ASSUME NEW bp \in BalanceProofState
    PROVE  Owed(bp) \in Nat
BY LockSums DEF Owed, BalanceProofState

\* A balance proof that is accepted against funds within a limit stays within
\* the limit.
LEMMA AcceptedIsFunded ==
    ASSUME NEW e \in EndState, NEW to \in EndState, NEW b,
           NEW msg \in EnvelopMessage, Books(e), RegisterTransferOK(e, to, msg, b),
           msg.type = "MediatedTransfer" => msg.bp.transferAmount = e.bp.transferAmount,
           NEW limit \in Nat, Owed(e.bp) <= limit,
           e.contractBalance + to.bp.transferAmount <= limit
    PROVE  Owed(msg.bp) <= limit
<1> DEFINE T == e.bp.locksRoot
           sum == SumOver(LockAmount, T)
           ta == e.bp.transferAmount
           new == msg.bp.transferAmount
           cb == e.contractBalance
           back == to.bp.transferAmount
<1>1. /\ T \in SUBSET Locks /\ ta \in Nat /\ new \in Nat /\ cb \in Nat /\ back \in Nat
      /\ T = e.tree /\ T = e.pending \cup e.unclaimed
  BY DEF EndState, BalanceProofState, EnvelopMessage, Books
<1>2. sum \in Nat /\ Owed(e.bp) = ta + sum
  BY <1>1, LockSums DEF Owed
<1>3. Distributable(e, to) = cb - ta + back - sum /\ cb + back <= limit
  <2>1. AmountLocked(e) = sum
    BY AmountLockedIsSum
  <2>2. Distributable(e, to) = (cb - ta + back) - AmountLocked(e)
    BY DEF Distributable, Balance
  <2>3. cb + back <= limit
    OBVIOUS
  <2> HIDE DEF sum, ta, cb, back
  <2> QED BY <1>1, <1>2, <2>1, <2>2, <2>3
<1>4. Owed(msg.bp) = new + SumOver(LockAmount, msg.bp.locksRoot)
  BY DEF Owed
<1>5. CASE msg.type = "DirectTransfer"
  <2>1. msg.bp.locksRoot = T /\ new - ta <= Distributable(e, to)
    BY <1>1, <1>5 DEF RegisterTransferOK, RegisterDirectTransferOK
  <2>2. new - ta <= cb - ta + back - sum /\ Owed(msg.bp) = new + sum
    BY <1>3, <1>4, <2>1
  <2> HIDE DEF sum, ta, new, cb, back
  <2> QED BY <1>1, <1>2, <1>3, <2>2
<1>6. CASE msg.type = "MediatedTransfer"
  <2> DEFINE l == msg.lock
             a == LockAmount[l]
             U == msg.bp.locksRoot
  <2>1. l \in Locks /\ a \in Nat
    BY <1>6, LocksAssumption DEF EnvelopMessage
  <2>2. U = T \cup {l} /\ l \notin T /\ a <= Distributable(e, to)
    BY <1>1, <1>6 DEF RegisterTransferOK, RegisterMediatedTransferOK, IsKnown
  <2>3. SumOver(LockAmount, U) = a + SumOver(LockAmount, U \ {l})
    BY <1>1, <2>1, <2>2, LockSums
  <2>4. U \ {l} = T
    BY <2>2
  <2>5. SumOver(LockAmount, U) = a + sum
    BY <2>3, <2>4
  <2>6. new = ta /\ a <= cb - ta + back - sum /\ Owed(msg.bp) = new + (a + sum)
    BY <1>3, <1>4, <1>6, <2>2, <2>5
  <2> HIDE DEF sum, ta, new, cb, back, a
  <2> QED BY <1>1, <1>2, <1>3, <2>1, <2>6
<1>7. CASE msg.type \in LockMessages \ {"MediatedTransfer"}
  <2> DEFINE l == msg.lock
             a == LockAmount[l]
             U == msg.bp.locksRoot
             rest == SumOver(LockAmount, U)
  <2>1. l \in Locks /\ a \in Nat
    BY <1>7, LocksAssumption DEF EnvelopMessage, LockMessages
  <2>2. U = T \ {l} /\ l \in T /\ new <= ta + a
    BY <1>1, <1>7, <2>1 DEF RegisterTransferOK, RegisterUnlockOK, RegisterRemoveLockOK,
                      LockMessages, TryRemoveHashLock
  <2>3. U \in SUBSET Locks /\ sum = a + rest /\ rest \in Nat
    BY <1>1, <2>1, <2>2, LockSums
  <2>4. Owed(msg.bp) = new + rest
    BY <1>4
  <2> HIDE DEF sum, ta, new, cb, back, a, rest
  <2> QED BY <1>1, <1>2, <2>1, <2>2, <2>3, <2>4
<1> QED BY <1>5, <1>6, <1>7 DEF EnvelopMessage

\* A step that changes no balance proof and takes no deposit back keeps the
\* bounds.
LEMMA OthersKeepFunds ==
    ASSUME TypeOK, TypeOK', FundedInv, UNCHANGED queue,
           \A n, m \in Nodes : /\ end'[n][m].bp = end[n][m].bp
                               /\ end'[n][m].contractBalance <= deposit'[m],
           \A m \in Nodes : deposit[m] <= deposit'[m]
    PROVE  FundedInv'
<1> SUFFICES ASSUME NEW s \in Nodes
             PROVE  /\ Owed(end'[s][s].bp) <= Limit(s)'
                    /\ Owed(end'[Other(s)][s].bp) <= Limit(s)'
                    /\ \A i \in 1..Len(queue'[s]) : Owed(queue'[s][i].bp) <= Limit(s)'
                    /\ \A n \in Nodes : end'[n][s].contractBalance <= deposit'[s]
  BY DEF FundedInv, Owed
<1>1. Other(s) \in Nodes
  BY OtherNode
<1>2. /\ end[s][Other(s)] \in EndState /\ end[s][s] \in EndState /\ end[Other(s)][s] \in EndState
      /\ deposit[s] \in Nat /\ deposit'[s] \in Nat /\ queue[s] \in Seq(EnvelopMessage)
  BY <1>1 DEF TypeOK
<1>3. /\ end[s][Other(s)].bp.transferAmount \in Nat
      /\ end[s][s].bp \in BalanceProofState /\ end[Other(s)][s].bp \in BalanceProofState
      /\ \A i \in 1..Len(queue[s]) : queue[s][i].bp \in BalanceProofState
  <2>1. \A i \in 1..Len(queue[s]) : queue[s][i] \in EnvelopMessage
    BY <1>2
  <2> QED BY <1>2, <2>1 DEF EndState, BalanceProofState, EnvelopMessage
<1>4. Limit(s) \in Nat /\ Limit(s)' \in Nat /\ Limit(s) <= Limit(s)'
  <2>1. Limit(s)' = deposit'[s] + end[s][Other(s)].bp.transferAmount
    BY <1>1 DEF Limit
  <2>2. Limit(s) = deposit[s] + end[s][Other(s)].bp.transferAmount
    BY DEF Limit
  <2>3. deposit[s] <= deposit'[s]
    OBVIOUS
  <2> QED BY <1>2, <1>3, <2>1, <2>2, <2>3
<1>5. ASSUME NEW bp \in BalanceProofState, Owed(bp) <= Limit(s) PROVE Owed(bp) <= Limit(s)'
  <2>1. Owed(bp) \in Nat
    BY OwedType
  <2> QED BY <1>4, <1>5, <2>1
<1> QED BY <1>1, <1>3, <1>5 DEF FundedInv

\* Sending a message keeps the bounds: it was registered against them.
LEMMA SendKeepsFunds ==
    ASSUME TypeOK, BooksMatchProof, FundedInv, NEW n \in Nodes,
           NEW msg \in EnvelopMessage, SendStep(n, msg)
    PROVE  FundedInv'
<1> DEFINE o == Other(n)
<1>1. o \in Nodes /\ o # n /\ Other(o) = n /\ (\A s \in Nodes : s = n \/ s = o)
  BY OtherNode, NodesAssumption DEF Nodes, Other
<1>2. /\ end[n][n] \in EndState /\ end[n][o] \in EndState /\ Books(end[n][n])
      /\ queue[n] \in Seq(EnvelopMessage) /\ deposit[n] \in Nat
      /\ RegisterTransferOK(end[n][n], end[n][o], msg, blk[n])
      /\ msg.type = "MediatedTransfer" => msg.bp.transferAmount = end[n][n].bp.transferAmount
  BY <1>1 DEF TypeOK, BooksMatchProof, SendStep, Send
<1>3. /\ end'[n][n] = RegisterTransfer(end[n][n], msg)
      /\ end'[o][n] = end[o][n] /\ end'[o][o] = end[o][o] /\ end'[n][o] = end[n][o]
      /\ queue'[n] = Append(queue[n], msg) /\ queue'[o] = queue[o]
      /\ deposit' = deposit
  BY <1>1 DEF SendStep, Send, TypeOK, chainVars
<1>4. end'[n][n].bp = msg.bp /\ end'[n][n].contractBalance = end[n][n].contractBalance
  BY <1>2, <1>3, RegisterTransferType
<1>5. Limit(n)' = Limit(n) /\ Limit(o)' = Limit(o)
  BY <1>1, <1>3 DEF Limit
<1>6. Owed(msg.bp) <= Limit(n)
  <2>1. /\ end[n][n].contractBalance \in Nat /\ end[n][o].bp.transferAmount \in Nat
        /\ end[n][n].contractBalance <= deposit[n]
    BY <1>2 DEF EndState, BalanceProofState, FundedInv
  <2>2. Limit(n) = deposit[n] + end[n][o].bp.transferAmount
    BY DEF Limit
  <2>3. /\ Limit(n) \in Nat
        /\ end[n][n].contractBalance + end[n][o].bp.transferAmount <= Limit(n)
    BY <1>2, <2>1, <2>2
  <2>4. Owed(end[n][n].bp) <= Limit(n)
    BY DEF FundedInv
  <2> HIDE DEF o
  <2> QED BY <1>2, <2>3, <2>4, AcceptedIsFunded
<1>7. ASSUME NEW i \in 1..Len(queue'[n]) PROVE Owed(queue'[n][i].bp) <= Limit(n)
  <2>1. /\ Len(queue[n]) \in Nat /\ Len(queue'[n]) = Len(queue[n]) + 1
        /\ queue'[n][Len(queue[n]) + 1] = msg
        /\ \A j \in 1..Len(queue[n]) : queue'[n][j] = queue[n][j]
    BY <1>2, <1>3, AppendElements
  <2>2. CASE i \in 1..Len(queue[n])
    BY <2>1, <2>2 DEF FundedInv
  <2>3. CASE i = Len(queue[n]) + 1
    BY <1>6, <2>1, <2>3
  <2> QED BY <2>1, <2>2, <2>3
<1>8. /\ Owed(end'[n][n].bp) <= Limit(n)' /\ Owed(end'[o][n].bp) <= Limit(n)'
      /\ Owed(end'[o][o].bp) <= Limit(o)' /\ Owed(end'[n][o].bp) <= Limit(o)'
      /\ \A i \in 1..Len(queue'[o]) : Owed(queue'[o][i].bp) <= Limit(o)'
  BY <1>1, <1>3, <1>4, <1>5, <1>6 DEF FundedInv
<1>9. \A s, k \in Nodes : end'[k][s].contractBalance <= deposit'[s]
  BY <1>1, <1>3, <1>4 DEF FundedInv
<1> QED BY <1>1, <1>5, <1>7, <1>8, <1>9 DEF FundedInv, Owed

\* Registering a message keeps the bounds: the proof was within them while it
\* was queued, and the receiver's own limit grows.
LEMMA ReceiveKeepsFunds ==
    ASSUME TypeOK, FundedInv, NEW n \in Nodes, NEW type, Receive(n, type)
    PROVE  FundedInv'
<1> DEFINE o == Other(n)
           msg == Head(queue[o])
<1>1. o \in Nodes /\ o # n /\ Other(o) = n /\ (\A s \in Nodes : s = n \/ s = o)
  BY OtherNode, NodesAssumption DEF Nodes, Other
<1>2. /\ end[n][o] \in EndState /\ end[n][n] \in EndState /\ end[o][n] \in EndState
      /\ queue[o] \in Seq(EnvelopMessage) /\ queue[n] \in Seq(EnvelopMessage)
      /\ queue[o] # <<>> /\ msg \in EnvelopMessage
      /\ msg = queue[o][1] /\ 1 \in 1..Len(queue[o]) /\ deposit[n] \in Nat
  BY <1>1 DEF TypeOK, Receive
<1>3. /\ end'[n][o] = RegisterTransfer(end[n][o], msg)
      /\ end'[o][n] = end[o][n] /\ end'[o][o] = end[o][o] /\ end'[n][n] = end[n][n]
      /\ queue'[o] = Tail(queue[o]) /\ queue'[n] = queue[n] /\ deposit' = deposit
      /\ msg.bp.transferAmount >= end[n][o].bp.transferAmount
  BY <1>1 DEF Receive, CanReceive, RegisterTransferOK, PreCheckReceivedTransfer, TypeOK, chainVars
<1>4. end'[n][o].bp = msg.bp /\ end'[n][o].contractBalance = end[n][o].contractBalance
  BY <1>2, <1>3, RegisterTransferType
<1>5. Limit(o)' = Limit(o)
  BY <1>1, <1>3 DEF Limit
<1>6. Limit(n) \in Nat /\ Limit(n)' \in Nat /\ Limit(n) <= Limit(n)'
  <2>1. msg.bp.transferAmount \in Nat /\ end[n][o].bp.transferAmount \in Nat
    BY <1>2 DEF EndState, EnvelopMessage, BalanceProofState
  <2>2. Limit(n)' = deposit[n] + msg.bp.transferAmount
    BY <1>3, <1>4 DEF Limit
  <2>3. Limit(n) = deposit[n] + end[n][o].bp.transferAmount
    BY DEF Limit
  <2> QED BY <1>2, <1>3, <2>1, <2>2, <2>3
<1>7. ASSUME NEW bp \in BalanceProofState, Owed(bp) <= Limit(n) PROVE Owed(bp) <= Limit(n)'
  <2>1. Owed(bp) \in Nat
    BY OwedType
  <2> QED BY <1>6, <1>7, <2>1
<1>8. /\ end[n][n].bp \in BalanceProofState /\ end[o][n].bp \in BalanceProofState
      /\ \A i \in 1..Len(queue[n]) : queue[n][i].bp \in BalanceProofState
  <2>1. \A i \in 1..Len(queue[n]) : queue[n][i] \in EnvelopMessage
    BY <1>2
  <2> QED BY <1>2, <2>1 DEF EndState, EnvelopMessage
<1>9. /\ Owed(end'[n][n].bp) <= Limit(n)' /\ Owed(end'[o][n].bp) <= Limit(n)'
      /\ \A i \in 1..Len(queue'[n]) : Owed(queue'[n][i].bp) <= Limit(n)'
  BY <1>1, <1>3, <1>7, <1>8 DEF FundedInv
<1>10. Owed(end'[o][o].bp) <= Limit(o)' /\ Owed(end'[n][o].bp) <= Limit(o)'
  BY <1>1, <1>2, <1>3, <1>4, <1>5 DEF FundedInv
<1>11. ASSUME NEW i \in 1..Len(queue'[o]) PROVE Owed(queue'[o][i].bp) <= Limit(o)'
  <2>1. i + 1 \in 1..Len(queue[o]) /\ queue'[o][i] = queue[o][i + 1]
    BY <1>2, <1>3, TailElements
  <2> QED BY <1>1, <1>5, <2>1 DEF FundedInv
<1>12. \A s, k \in Nodes : end'[k][s].contractBalance <= deposit'[s]
  BY <1>1, <1>3, <1>4 DEF FundedInv
<1> QED BY <1>1, <1>9, <1>10, <1>11, <1>12 DEF FundedInv, Owed

\* Every step keeps the bounds.
LEMMA FundedStep ==
    ASSUME TypeOK, BooksMatchProof, FundedInv, [Next]_vars
    PROVE  FundedInv'
<1>0. TypeOK' /\ (\A m \in Nodes : deposit[m] \in Nat)
      /\ (\A n, m \in Nodes : end[n][m] \in EndState /\ end[n][m].contractBalance \in Nat
                              /\ end[n][m].contractBalance <= deposit[m])
  <2>1. TypeOK'
    BY TypeStep
  <2>2. \A n, m \in Nodes : end[n][m] \in EndState /\ deposit[m] \in Nat
    BY DEF TypeOK
  <2>3. \A n, m \in Nodes : /\ end[n][m].contractBalance \in Nat
                            /\ end[n][m].contractBalance <= deposit[m]
    BY <2>2 DEF EndState, FundedInv
  <2> QED BY <2>1, <2>2, <2>3
<1>1. ASSUME UNCHANGED <<queue, deposit>>,
             \A n, m \in Nodes : /\ end'[n][m].bp = end[n][m].bp
                                 /\ end'[n][m].contractBalance <= deposit[m]
      PROVE  FundedInv'
  <2>1. \A m \in Nodes : deposit[m] <= deposit'[m]
    BY <1>0, <1>1
  <2> QED BY <1>0, <1>1, <2>1, OthersKeepFunds
<1>2. ASSUME NEW n \in Nodes, NEW msg \in EnvelopMessage, SendStep(n, msg)
      PROVE  FundedInv'
  BY <1>2, SendKeepsFunds
<1>3. ASSUME NEW n \in Nodes, NEW type, Receive(n, type)
      PROVE  FundedInv'
  BY <1>3, ReceiveKeepsFunds
<1>4. ASSUME NEW n \in Nodes, NEW l \in Locks,
             registerSecret(n, l) \/ handleSecretRegisteredOnChain(n, l)
      PROVE  FundedInv'
  <2> DEFINE s == LockSender[l]
             e == end[n][s]
  <2>1. s \in Nodes /\ e \in EndState
    BY LocksAssumption DEF TypeOK
  <2>2. PICK f : /\ end' = [end EXCEPT ![n][s] = f]
                 /\ \/ f = RegisterSecret(e, l)
                    \/ f = RegisterRevealedSecretHash(e, l, registeredAt[l])
    BY <1>4 DEF registerSecret, handleSecretRegisteredOnChain
  <2>3. f.bp = e.bp /\ f.contractBalance = e.contractBalance
    BY <2>1, <2>2, SecretOperators
  <2>4. \A k, m \in Nodes : /\ end'[k][m].bp = end[k][m].bp
                            /\ end'[k][m].contractBalance = end[k][m].contractBalance
    BY <2>1, <2>2, <2>3 DEF TypeOK
  <2>5. UNCHANGED <<queue, deposit>>
    BY <1>4 DEF registerSecret, handleSecretRegisteredOnChain, chainVars
  <2> QED BY <1>0, <1>1, <2>4, <2>5
<1>5. ASSUME NEW n \in Nodes, NEW m \in Nodes, handleBalance(n, m)
      PROVE  FundedInv'
  <2>1. PICK f : /\ end' = [end EXCEPT ![n][m] = f]
                 /\ f = UpdateContractBalance(end[n][m], end[n][m].contractBalance + 1)
    BY <1>5 DEF handleBalance
  <2>2. f.bp = end[n][m].bp /\ f.contractBalance = end[n][m].contractBalance + 1
    BY <1>0, <2>1, BalanceOperator
  <2>3. end[n][m].contractBalance + 1 <= deposit[m]
    BY <1>0, <1>5 DEF handleBalance
  <2>4. \A k, j \in Nodes : /\ end'[k][j].bp = end[k][j].bp
                            /\ end'[k][j].contractBalance <= deposit[j]
    <3> TAKE k, j \in Nodes
    <3>1. end'[k][j] = IF k = n /\ j = m THEN f ELSE end[k][j]
      BY <2>1 DEF TypeOK
    <3> QED BY <1>0, <2>2, <2>3, <3>1
  <2>5. UNCHANGED <<queue, deposit>>
    BY <1>5 DEF handleBalance, chainVars
  <2> QED BY <1>1, <2>4, <2>5
<1>6. ASSUME NEW m \in Nodes, Deposit(m) PROVE FundedInv'
  <2>1. /\ UNCHANGED <<end, queue>>
        /\ \A k \in Nodes : deposit'[k] = IF k = m THEN deposit[k] + 1 ELSE deposit[k]
    BY <1>6 DEF Deposit, TypeOK
  <2>2. \A k \in Nodes : deposit[k] <= deposit'[k]
    BY <1>0, <2>1
  <2>3. \A k, j \in Nodes : end'[k][j].contractBalance <= deposit'[j]
    <3> TAKE k, j \in Nodes
    <3>1. deposit'[j] \in Nat
      BY <1>0, <2>1
    <3> QED BY <1>0, <2>1, <2>2, <3>1
  <2> QED BY <1>0, <2>1, <2>2, <2>3, OthersKeepFunds
<1>7. ASSUME UNCHANGED <<end, queue, deposit>> PROVE FundedInv'
  BY <1>0, <1>1, <1>7
<1> QED BY StepKinds, <1>2, <1>3, <1>4, <1>5, <1>6, <1>7
        DEF AnnounceStep, handleBlockStateChange, NewBlock, vars, chainVars

\* The bounds hold in every reachable state.
LEMMA FundedAlways == Spec => []FundedInv
<1>1. Init => FundedInv
  <2> SUFFICES ASSUME Init, NEW s \in Nodes
               PROVE  /\ Owed(end[s][s].bp) <= Limit(s)
                      /\ Owed(end[Other(s)][s].bp) <= Limit(s)
                      /\ \A i \in 1..Len(queue[s]) : Owed(queue[s][i].bp) <= Limit(s)
                      /\ \A n \in Nodes : end[n][s].contractBalance <= deposit[s]
    BY DEF FundedInv
  <2>1. Other(s) \in Nodes /\ InitDeposit[s] \in Nat
    BY OtherNode, NumbersAssumption
  <2>2. \A n \in Nodes : /\ end[n][s].bp.transferAmount = 0
                         /\ end[n][s].bp.locksRoot = {}
                         /\ end[n][s].contractBalance = InitDeposit[s]
    BY DEF Init, NewChannelEndState
  <2>3. end[s][Other(s)].bp.transferAmount = 0 /\ deposit[s] = InitDeposit[s]
    BY <2>1 DEF Init, NewChannelEndState
  <2>4. \A n \in Nodes : Owed(end[n][s].bp) = 0 + SumOver(LockAmount, {})
    BY <2>2 DEF Owed
  <2>5. SumOver(LockAmount, {}) = 0
    BY LockSums
  <2>6. \A n \in Nodes : Owed(end[n][s].bp) = 0
    BY <2>4, <2>5
  <2>7. Limit(s) = InitDeposit[s] + 0
    BY <2>3 DEF Limit
  <2>8. 0 <= Limit(s)
    BY <2>1, <2>7
  <2>9. Len(queue[s]) = 0
    <3>1. queue[s] = <<>>
      BY DEF Init
    <3> QED BY <3>1
  <2> QED BY <2>1, <2>2, <2>3, <2>6, <2>8, <2>9
<1>2. TypeOK /\ BooksMatchProof /\ FundedInv /\ [Next]_vars => FundedInv'
  BY FundedStep
<1> QED BY <1>1, <1>2, TypeCorrect, BooksTheorem, PTL DEF Spec

\* For every deposit and every set of locks the contract can pay out what the
\* two nodes hold of each other, however far their copies are apart.
THEOREM SolventTheorem == Spec => []Solvent
<1>1. BooksMatchProof /\ FundedInv => Solvent
  <2> SUFFICES ASSUME BooksMatchProof, FundedInv, NEW m \in Nodes
               PROVE  end[Other(m)][m].bp.transferAmount + AmountLocked(end[Other(m)][m])
                         <= deposit[m] + end[m][Other(m)].bp.transferAmount
    BY DEF Solvent
  <2>1. Books(end[Other(m)][m])
    BY OtherNode DEF BooksMatchProof
  <2>2. AmountLocked(end[Other(m)][m]) = SumOver(LockAmount, end[Other(m)][m].bp.locksRoot)
    BY <2>1, AmountLockedIsSum
  <2> QED BY <2>2 DEF FundedInv, Owed, Limit
<1> QED BY <1>1, BooksTheorem, FundedAlways, PTL

(***************************************************************************)
(* Messages are never refused for good.  ReplayInv says that a queue is a  *)
(* replay of what its sender did: each message follows from the balance    *)
(* proof before it, the first one from the proof the receiver holds.       *)
(***************************************************************************)
Follows(bp, msg) ==
    \/ /\ msg.type = "DirectTransfer"
       /\ msg.bp.transferAmount > bp.transferAmount
       /\ msg.bp.locksRoot = bp.locksRoot
    \/ /\ msg.type = "MediatedTransfer"
       /\ msg.bp.transferAmount = bp.transferAmount
       /\ msg.bp.locksRoot = bp.locksRoot \cup {msg.lock}
    \/ /\ msg.type = "UnLock"
       /\ msg.lock \in bp.locksRoot
       /\ msg.bp.transferAmount = bp.transferAmount + LockAmount[msg.lock]
       /\ msg.bp.locksRoot = bp.locksRoot \ {msg.lock}
    \/ /\ msg.type \in {"RemoveExpired", "AnnounceDisposedResponse"}
       /\ msg.lock \in bp.locksRoot
       /\ msg.bp.transferAmount = bp.transferAmount
       /\ msg.bp.locksRoot = bp.locksRoot \ {msg.lock}

Replay(q, mine, theirs) ==
    /\ theirs.transferAmount <= mine.transferAmount
    /\ \A i \in 1..Len(q) : q[i].bp.transferAmount <= mine.transferAmount
    /\ q # <<>> => Follows(theirs, q[1])
    /\ \A i \in 1..(Len(q) - 1) : Follows(q[i].bp, q[i + 1])

ReplayInv ==
    \A s \in Nodes : Replay(queue[s], end[s][s].bp, end[Other(s)][s].bp)

\* A message that a sender registers follows from its balance proof.
LEMMA AcceptedFollows ==
    ASSUME NEW e \in EndState, NEW to, NEW b, NEW msg \in EnvelopMessage, Books(e),
           RegisterTransferOK(e, to, msg, b),
           msg.type = "MediatedTransfer" => msg.bp.transferAmount = e.bp.transferAmount
    PROVE  Follows(e.bp, msg) /\ e.bp.transferAmount <= msg.bp.transferAmount
<1>1. /\ e.bp.transferAmount \in Nat /\ msg.bp.transferAmount \in Nat
      /\ e.bp.locksRoot = e.tree /\ e.bp.transferAmount <= msg.bp.transferAmount
  BY DEF EndState, BalanceProofState, EnvelopMessage, Books, RegisterTransferOK,
         PreCheckReceivedTransfer
<1>2. CASE msg.type = "DirectTransfer"
  <2>1. /\ msg.bp.transferAmount - e.bp.transferAmount > 0
        /\ msg.bp.locksRoot = e.tree
    BY <1>2 DEF RegisterTransferOK, RegisterDirectTransferOK
  <2>2. msg.bp.transferAmount > e.bp.transferAmount
    BY <1>1, <2>1
  <2> QED BY <1>1, <1>2, <2>1, <2>2 DEF Follows
<1>3. CASE msg.type = "MediatedTransfer"
  <2>1. msg.bp.locksRoot = e.tree \cup {msg.lock}
    BY <1>3 DEF RegisterTransferOK, RegisterMediatedTransferOK
  <2> QED BY <1>1, <1>3, <2>1 DEF Follows
<1>4. CASE msg.type = "UnLock"
  BY <1>1, <1>4 DEF RegisterTransferOK, RegisterUnlockOK, Follows
<1>5. CASE msg.type \in {"RemoveExpired", "AnnounceDisposedResponse"}
  BY <1>1, <1>5 DEF RegisterTransferOK, RegisterRemoveLockOK, TryRemoveHashLock, Follows
<1> QED BY <1>2, <1>3, <1>4, <1>5 DEF EnvelopMessage, LockMessages

\* A message that follows from the sender's newest proof extends the replay.
LEMMA ReplayAppend ==
    ASSUME NEW q \in Seq(EnvelopMessage), NEW msg \in EnvelopMessage,
           NEW mine \in BalanceProofState, NEW theirs \in BalanceProofState,
           Lane(q, mine, theirs), Replay(q, mine, theirs), Follows(mine, msg),
           mine.transferAmount <= msg.bp.transferAmount
    PROVE  Replay(Append(q, msg), msg.bp, theirs)
<1> DEFINE r == Append(q, msg)
<1>1. /\ Len(r) = Len(q) + 1 /\ r[Len(q) + 1] = msg
      /\ \A i \in 1..Len(q) : r[i] = q[i] /\ q[i] \in EnvelopMessage
      /\ Len(q) \in Nat /\ r # <<>>
  BY AppendElements
<1>2. q = <<>> <=> Len(q) = 0
  OBVIOUS
<1> HIDE DEF r
<1>3. /\ mine.transferAmount \in Nat /\ theirs.transferAmount \in Nat
      /\ msg.bp.transferAmount \in Nat
      /\ \A i \in 1..Len(q) : q[i].bp.transferAmount \in Nat
  BY <1>1 DEF BalanceProofState, EnvelopMessage
<1>4. theirs.transferAmount <= msg.bp.transferAmount
  BY <1>3 DEF Replay
<1>5. ASSUME NEW i \in 1..Len(r) PROVE r[i].bp.transferAmount <= msg.bp.transferAmount
  <2>1. CASE i \in 1..Len(q)
    BY <1>1, <1>3, <2>1 DEF Replay
  <2>2. CASE i = Len(q) + 1
    BY <1>1, <1>3, <2>2
  <2> QED BY <1>1, <2>1, <2>2
<1>6. Follows(theirs, r[1])
  <2>1. CASE q = <<>>
    BY <1>1, <1>2, <2>1 DEF Lane
  <2>2. CASE q # <<>>
    <3>1. 1 \in 1..Len(q)
      BY <1>1, <1>2, <2>2
    <3> QED BY <1>1, <2>2, <3>1 DEF Replay
  <2> QED BY <2>1, <2>2
<1>7. ASSUME NEW i \in 1..(Len(r) - 1) PROVE Follows(r[i].bp, r[i + 1])
  <2>1. i \in 1..Len(q) /\ q # <<>>
    BY <1>1, <1>2
  <2>2. CASE i = Len(q)
    BY <1>1, <2>1, <2>2 DEF Lane
  <2>3. CASE i # Len(q)
    <3>1. i \in 1..(Len(q) - 1) /\ i + 1 \in 1..Len(q)
      BY <1>1, <2>1, <2>3
    <3> QED BY <1>1, <2>1, <3>1 DEF Replay
  <2> QED BY <2>2, <2>3
<1>8. Replay(r, msg.bp, theirs)
  BY <1>4, <1>5, <1>6, <1>7 DEF Replay
<1> QED BY <1>8 DEF r

\* Registering the head leaves a replay from its balance proof.
LEMMA ReplayTail ==
    ASSUME NEW q \in Seq(EnvelopMessage), q # <<>>, NEW mine, NEW theirs,
           Replay(q, mine, theirs)
    PROVE  Replay(Tail(q), mine, Head(q).bp)
<1> DEFINE r == Tail(q)
<1>1. /\ Len(q) \in Nat \ {0} /\ Len(r) = Len(q) - 1 /\ Head(q) = q[1]
      /\ \A i \in 1..Len(r) : i + 1 \in 2..Len(q) /\ r[i] = q[i + 1]
  BY TailElements
<1>2. r # <<>> => Len(r) # 0
  BY TailElements
<1> HIDE DEF r
<1>3. Head(q).bp.transferAmount <= mine.transferAmount
  BY <1>1 DEF Replay
<1>4. ASSUME NEW i \in 1..Len(r) PROVE r[i].bp.transferAmount <= mine.transferAmount
  BY <1>1 DEF Replay
<1>5. ASSUME r # <<>> PROVE Follows(Head(q).bp, r[1])
  <2>1. 1 \in 1..Len(r) /\ 1 \in 1..(Len(q) - 1)
    BY <1>1, <1>2, <1>5
  <2>2. Follows(q[1].bp, q[1 + 1]) /\ r[1] = q[1 + 1]
    BY <1>1, <2>1 DEF Replay
  <2> QED BY <1>1, <2>2
<1>6. ASSUME NEW i \in 1..(Len(r) - 1) PROVE Follows(r[i].bp, r[i + 1])
  <2>1. /\ i \in 1..Len(r) /\ i + 1 \in 1..Len(r) /\ i + 1 \in 1..(Len(q) - 1)
    BY <1>1
  <2>2. r[i] = q[i + 1] /\ r[i + 1] = q[(i + 1) + 1]
    BY <1>1, <2>1
  <2> QED BY <2>1, <2>2 DEF Replay
<1>7. Replay(r, mine, Head(q).bp)
  BY <1>3, <1>4, <1>5, <1>6 DEF Replay
<1> QED BY <1>7 DEF r

\* Every step keeps both queues replays.
LEMMA ReplayStep ==
    ASSUME TypeOK, BooksMatchProof, LanesInv, ReplayInv, [Next]_vars
    PROVE  ReplayInv'
<1>1. ASSUME NEW n \in Nodes, NEW msg \in EnvelopMessage, SendStep(n, msg)
      PROVE  ReplayInv'
  <2> DEFINE o == Other(n)
  <2>1. o \in Nodes /\ o # n /\ Other(o) = n /\ (\A s \in Nodes : s = n \/ s = o)
    BY OtherNode, NodesAssumption DEF Nodes, Other
  <2>2. /\ end[n][n] \in EndState /\ end[n][n].bp \in BalanceProofState
        /\ end[o][n].bp \in BalanceProofState /\ queue[n] \in Seq(EnvelopMessage)
        /\ Books(end[n][n])
    BY <2>1 DEF TypeOK, EndState, BooksMatchProof
  <2>3. /\ end'[n][n] = RegisterTransfer(end[n][n], msg)
        /\ end'[o][n] = end[o][n] /\ end'[o][o] = end[o][o] /\ end'[n][o] = end[n][o]
        /\ queue'[n] = Append(queue[n], msg) /\ queue'[o] = queue[o]
        /\ RegisterTransferOK(end[n][n], end[n][o], msg, blk[n])
        /\ msg.type = "MediatedTransfer" => msg.bp.transferAmount = end[n][n].bp.transferAmount
    BY <1>1, <2>1 DEF SendStep, Send, TypeOK
  <2>4. end'[n][n].bp = msg.bp
    BY <2>2, <2>3, RegisterTransferType
  <2>5. Follows(end[n][n].bp, msg) /\ end[n][n].bp.transferAmount <= msg.bp.transferAmount
    BY <2>2, <2>3, AcceptedFollows
  <2>6. /\ Lane(queue[n], end[n][n].bp, end[o][n].bp)
        /\ Replay(queue[n], end[n][n].bp, end[o][n].bp)
    BY DEF LanesInv, ReplayInv
  <2>7. Replay(queue'[n], end'[n][n].bp, end'[o][n].bp)
    BY <2>2, <2>3, <2>4, <2>5, <2>6, ReplayAppend
  <2>8. Replay(queue'[o], end'[o][o].bp, end'[n][o].bp)
    BY <2>1, <2>3 DEF ReplayInv
  <2> QED BY <2>1, <2>7, <2>8 DEF ReplayInv
<1>2. ASSUME NEW n \in Nodes, NEW type, Receive(n, type)
      PROVE  ReplayInv'
  <2> DEFINE o == Other(n)
             msg == Head(queue[o])
  <2>1. o \in Nodes /\ o # n /\ Other(o) = n /\ (\A s \in Nodes : s = n \/ s = o)
    BY OtherNode, NodesAssumption DEF Nodes, Other
  <2>2. /\ end[n][o] \in EndState /\ queue[o] \in Seq(EnvelopMessage)
        /\ queue[o] # <<>> /\ msg \in EnvelopMessage
    BY <1>2, <2>1 DEF TypeOK, EndState, Receive
  <2>3. /\ end'[n][o] = RegisterTransfer(end[n][o], msg)
        /\ end'[o][n] = end[o][n] /\ end'[o][o] = end[o][o] /\ end'[n][n] = end[n][n]
        /\ queue'[o] = Tail(queue[o]) /\ queue'[n] = queue[n]
    BY <1>2, <2>1 DEF Receive, TypeOK
  <2>4. end'[n][o].bp = msg.bp
    BY <2>2, <2>3, RegisterTransferType
  <2>5. Replay(queue[o], end[o][o].bp, end[n][o].bp)
    BY <2>1 DEF ReplayInv
  <2>6. Replay(queue'[o], end'[o][o].bp, end'[n][o].bp)
    BY <2>2, <2>3, <2>4, <2>5, ReplayTail
  <2>7. Replay(queue'[n], end'[n][n].bp, end'[o][n].bp)
    BY <2>1, <2>3 DEF ReplayInv
  <2> QED BY <2>1, <2>6, <2>7 DEF ReplayInv
<1>3. ASSUME UNCHANGED queue, \A n, m \in Nodes : end'[n][m].bp = end[n][m].bp
      PROVE  ReplayInv'
  BY <1>3, OtherNode DEF ReplayInv
<1> QED BY ProofSteps, <1>1, <1>2, <1>3

\* Both queues are replays in every reachable state.
LEMMA ReplayAlways == Spec => []ReplayInv
<1>1. Init => ReplayInv
  <2> SUFFICES ASSUME Init, NEW s \in Nodes
               PROVE  Replay(queue[s], end[s][s].bp, end[Other(s)][s].bp)
    BY DEF ReplayInv
  <2>1. queue[s] = <<>> /\ end[s][s].bp.transferAmount = 0
        /\ end[Other(s)][s].bp.transferAmount = 0
    BY OtherNode DEF Init, NewChannelEndState
  <2>2. Len(queue[s]) = 0
    BY <2>1
  <2> QED BY <2>1, <2>2 DEF Replay
<1>2. TypeOK /\ BooksMatchProof /\ LanesInv /\ ReplayInv /\ [Next]_vars => ReplayInv'
  BY ReplayStep
<1> QED BY <1>1, <1>2, TypeCorrect, BooksTheorem, LanesAlways, PTL DEF Spec

\* A node that has caught up with the chain accepts the head of its partner's
\* queue.
LEMMA CaughtUpAccepts ==
    ASSUME TypeOK, BooksMatchProof, LanesInv, LockInv, QueueInv, FundedInv, ReplayInv,
           Disposable \cap Registrable = {},
           NEW n \in Nodes, CaughtUp(n), queue[Other(n)] # <<>>
    PROVE  CanReceive(n, Head(queue[Other(n)]))
<1> DEFINE o == Other(n)
<1>0. PICK msg, e, to : msg = Head(queue[o]) /\ e = end[n][o] /\ to = end[n][n]
  OBVIOUS
<1>1. o \in Nodes /\ o # n /\ Other(o) = n
  BY OtherNode
<1>2. /\ msg \in EnvelopMessage /\ msg = queue[o][1] /\ 1 \in 1..Len(queue[o])
      /\ e \in EndState /\ to \in EndState /\ Books(e)
  <2>1. queue[o] \in Seq(EnvelopMessage)
    BY <1>1 DEF TypeOK
  <2>2. msg \in EnvelopMessage /\ msg = queue[o][1] /\ 1 \in 1..Len(queue[o])
    BY <1>0, <2>1
  <2> QED BY <1>0, <1>1, <2>2 DEF TypeOK, BooksMatchProof
<1>3. /\ msg.bp.nonce = e.bp.nonce + 1
      /\ Follows(e.bp, msg)
      /\ Expected(o, msg)
      /\ Owed(msg.bp) <= Limit(o)
      /\ end[o][n].bp.transferAmount <= to.bp.transferAmount
  BY <1>0, <1>1, <1>2 DEF LanesInv, Lane, ReplayInv, Replay, QueueInv, FundedInv
<1>4. e.contractBalance = deposit[o] /\ blk[n] = height
  BY <1>0, <1>1 DEF CaughtUp
<1> DEFINE T == e.bp.locksRoot
           ta == e.bp.transferAmount
           new == msg.bp.transferAmount
           back == to.bp.transferAmount
           older == end[o][n].bp.transferAmount
           sum == SumOver(LockAmount, T)
           dep == deposit[o]
<1>5. /\ T \in SUBSET Locks /\ T = e.tree /\ T = e.pending \cup e.unclaimed
      /\ ta \in Nat /\ new \in Nat /\ back \in Nat /\ older \in Nat /\ dep \in Nat
      /\ sum \in Nat /\ e.onChain \subseteq T /\ e.pending \cap e.onChain = {}
  <2>1. /\ T \in SUBSET Locks /\ ta \in Nat /\ new \in Nat /\ back \in Nat
    BY <1>2 DEF EndState, BalanceProofState, EnvelopMessage
  <2>2. end[o][n] \in EndState /\ dep \in Nat
    BY <1>1 DEF TypeOK
  <2>3. older \in Nat
    BY <2>2 DEF EndState, BalanceProofState
  <2>4. sum \in Nat
    BY <2>1, LockSums
  <2> QED BY <1>2, <2>1, <2>2, <2>3, <2>4 DEF Books
<1>6. Distributable(e, to) = dep - ta + back - sum
  <2>1. AmountLocked(e) = sum
    BY <1>2, AmountLockedIsSum
  <2>2. Distributable(e, to) = (dep - ta + back) - AmountLocked(e)
    BY <1>4 DEF Distributable, Balance
  <2> HIDE DEF sum, ta, back, dep
  <2> QED BY <1>5, <2>1, <2>2
<1>7. new + SumOver(LockAmount, msg.bp.locksRoot) <= dep + older /\ older <= back
  BY <1>1, <1>3 DEF Owed, Limit
<1>8. ASSUME msg.type \in LockMessages
      PROVE  /\ msg.lock \in Locks /\ LockAmount[msg.lock] \in Nat
             /\ LockBooks(n, msg.lock) /\ LockReach(msg.lock)
  <2>1. msg.lock \in Locks
    BY <1>2, <1>8 DEF EnvelopMessage, LockMessages
  <2> QED BY <2>1, LocksAssumption DEF LockInv
<1>9. PreCheckReceivedTransfer(e, msg)
  <2>1. CASE msg.type = "UnLock"
    <3>1. new = ta + LockAmount[msg.lock] /\ LockAmount[msg.lock] \in Nat
      BY <1>3, <1>8, <2>1 DEF Follows, LockMessages
    <3>2. new >= ta
      BY <1>5, <3>1
    <3> QED BY <1>3, <3>2 DEF PreCheckReceivedTransfer
  <2>2. CASE msg.type # "UnLock"
    <3>1. new > ta \/ new = ta
      BY <1>3, <2>2 DEF Follows
    <3>2. new >= ta
      BY <1>5, <3>1
    <3> QED BY <1>3, <3>2 DEF PreCheckReceivedTransfer
  <2> QED BY <2>1, <2>2
<1>10. ASSUME NEW l \in T, l \notin e.onChain PROVE IsUnknownSecretLock(e, l)
  BY <1>5, <1>10 DEF IsUnknownSecretLock
<1>11. CASE msg.type = "DirectTransfer"
  <2>1. new > ta /\ msg.bp.locksRoot = T
    BY <1>3, <1>11 DEF Follows
  <2>2. new + sum <= dep + older /\ older <= back
    BY <1>7, <2>1
  <2>3. new - ta > 0 /\ new - ta <= dep - ta + back - sum
    <3> HIDE DEF sum, ta, new, back, older, dep
    <3> QED BY <1>5, <2>1, <2>2
  <2>4. RegisterDirectTransferOK(e, to, msg)
    BY <1>5, <1>6, <2>1, <2>3 DEF RegisterDirectTransferOK
  <2>5. RegisterTransferOK(e, to, msg, blk[n])
    BY <1>9, <1>11, <2>4 DEF RegisterTransferOK
  <2> QED BY <1>0, <1>11, <2>5 DEF CanReceive
<1>12. CASE msg.type = "MediatedTransfer"
  <2> DEFINE l == msg.lock
             a == LockAmount[l]
             U == msg.bp.locksRoot
  <2>1. /\ l \in Locks /\ a \in Nat /\ LockBooks(n, l)
        /\ new = ta /\ U = T \cup {l}
        /\ fate[n][l] = "none" /\ Expiration[l] <= height + SettleTimeout
    BY <1>1, <1>3, <1>8, <1>12 DEF Follows, Expected, LockMessages
  <2>2. l \notin T
    BY <1>0, <1>1, <1>5, <2>1 DEF LockBooks
  <2>3. SumOver(LockAmount, U) = a + SumOver(LockAmount, U \ {l})
    BY <1>5, <2>1, LockSums
  <2>4. U \ {l} = T
    BY <2>1, <2>2
  <2>5. new + (a + sum) <= dep + older
    BY <1>7, <2>3, <2>4
  <2>6. a <= dep - ta + back - sum
    <3>1. new = ta /\ a \in Nat /\ older <= back
      BY <1>7, <2>1
    <3> HIDE DEF sum, ta, new, back, older, dep, a
    <3> QED BY <1>5, <2>5, <3>1
  <2>7. RegisterMediatedTransferOK(e, to, msg, blk[n])
    BY <1>4, <1>5, <1>6, <2>1, <2>2, <2>6 DEF RegisterMediatedTransferOK, IsKnown
  <2>8. RegisterTransferOK(e, to, msg, blk[n])
    BY <1>9, <1>12, <2>7 DEF RegisterTransferOK
  <2> QED BY <1>0, <1>12, <2>8 DEF CanReceive
<1>13. CASE msg.type = "UnLock"
  <2>1. RegisterUnlockOK(e, msg)
    BY <1>3, <1>5, <1>13 DEF Follows, RegisterUnlockOK, IsKnown
  <2>2. RegisterTransferOK(e, to, msg, blk[n])
    BY <1>9, <1>13, <2>1 DEF RegisterTransferOK
  <2> QED BY <1>0, <1>13, <2>2 DEF CanReceive
<1>14. CASE msg.type = "RemoveExpired"
  <2> DEFINE l == msg.lock
  <2>1. /\ l \in T /\ new = ta /\ msg.bp.locksRoot = T \ {l} /\ LockBooks(n, l)
        /\ Expiration[l] <= height - ForkConfirmNumber /\ ~ Timely(l)
    BY <1>3, <1>8, <1>14 DEF Follows, Expected, LockMessages
  <2>2. l \notin e.onChain
    <3>1. LockSender[l] = o
      BY <1>0, <1>1, <1>5, <2>1 DEF LockBooks
    <3> QED BY <1>0, <2>1, <3>1 DEF LockBooks
  <2>3. TryRemoveHashLock(e, l, blk[n], TRUE)
    BY <1>4, <1>5, <1>10, <2>1, <2>2 DEF TryRemoveHashLock
  <2>4. RegisterRemoveLockOK(e, msg, blk[n], TRUE)
    BY <1>5, <2>1, <2>3 DEF RegisterRemoveLockOK
  <2>5. RegisterTransferOK(e, to, msg, blk[n])
    BY <1>9, <1>14, <2>4 DEF RegisterTransferOK
  <2> QED BY <1>0, <1>14, <2>5 DEF CanReceive
<1>15. CASE msg.type = "AnnounceDisposedResponse"
  <2> DEFINE l == msg.lock
  <2>1. /\ l \in T /\ new = ta /\ msg.bp.locksRoot = T \ {l} /\ LockBooks(n, l)
        /\ LockReach(l) /\ l \in disposed[n] /\ l \in Locks
    BY <1>1, <1>3, <1>8, <1>15 DEF Follows, Expected, LockMessages
  <2>2. l \notin e.onChain
    <3>1. LockSender[l] = o
      BY <1>0, <1>1, <1>5, <2>1 DEF LockBooks
    <3>2. l \notin Registrable
      BY <2>1 DEF QueueInv
    <3>3. registeredAt[l] = 0
      BY <2>1, <3>2 DEF LockReach
    <3>4. ~ Timely(l)
      BY <3>3 DEF Timely
    <3> QED BY <1>0, <2>1, <3>1, <3>4 DEF LockBooks
  <2>3. TryRemoveHashLock(e, l, blk[n], FALSE)
    BY <1>5, <1>10, <2>1, <2>2 DEF TryRemoveHashLock
  <2>4. RegisterRemoveLockOK(e, msg, blk[n], FALSE)
    BY <1>5, <2>1, <2>3 DEF RegisterRemoveLockOK
  <2>5. RegisterTransferOK(e, to, msg, blk[n])
    BY <1>9, <1>15, <2>4 DEF RegisterTransferOK
  <2> QED BY <1>0, <1>15, <2>1, <2>5 DEF CanReceive
<1> QED BY <1>2, <1>11, <1>12, <1>13, <1>14, <1>15 DEF EnvelopMessage, LockMessages

\* A message is never refused for good, if no lock is both given up by its
\* receiver and registered on chain: a node that has caught up with the chain
\* registers whatever its partner has signed.  Without the hypothesis the
\* answer to AnnounceDisposed may reach a node that has seen the secret on
\* chain meanwhile.
THEOREM HeadTheorem ==
    ASSUME Disposable \cap Registrable = {}
    PROVE  Spec => []HeadAcceptable
<1>1. TypeOK /\ BooksMatchProof /\ LanesInv /\ (LockInv /\ QueueInv) /\ FundedInv /\ ReplayInv
         => HeadAcceptable
  BY CaughtUpAccepts DEF HeadAcceptable
<1> QED BY <1>1, TypeCorrect, BooksTheorem, LanesAlways, LocksAlways, FundedAlways,
           ReplayAlways, PTL
=============================================================================
