------------------------------ MODULE Protocol ------------------------------
(***************************************************************************)
(* Delivery of the messages of one channel from a node to its partner:     *)
(* network/protocol.go (the sending queue, its goroutine, acks), sendAsync *)
(* and handleSentMessage of photonService.go, the two orders in which      *)
(* eventhandler.go and directTransferAsync save the channel and the        *)
(* message, restore.go after a crash, and the partner's receiveInternal    *)
(* with the handlers that register, and do or do not save, a message.      *)
(*                                                                         *)
(* The sending node runs two threads on this channel: the event loop of    *)
(* Service, whose remaining steps are todo, and the goroutine of the       *)
(* channel's queue, at gpc.  The network loses, duplicates and reorders.   *)
(* A message is its nonce and an identity (its signed content).            *)
(***************************************************************************)
EXTENDS Integers, Sequences, FiniteSets, Functions

CONSTANTS
    Environments,  \* what may happen to the channel: one of these records
    MaxMessages    \* bound: messages the node creates

Orders == {"channelFirst", "envelopFirst"}

\* orders: the orders of saving the node uses; remove: the channel may be
\* settled and removed; stop: the partner's channel may stop transferring;
\* crashes, peerCrashes: bounds on the crashes of the node and of its partner
ASSUME ProtocolAssumption ==
    /\ Environments \subseteq [orders : SUBSET Orders,
                              remove : BOOLEAN, stop : BOOLEAN,
                              crashes : Nat, peerCrashes : Nat]
    /\ MaxMessages \in Nat

\* a nonce used again after a crash leaves nonces behind the identities
Messages == {m \in [nonce : 1..MaxMessages, id : 1..MaxMessages] : m.nonce <= m.id}

VARIABLES
    \* the sender's database
    savedNonce,  \* OurState's nonce in the saved channel
    envelopes,   \* SentEnvelopMessager: messages without an Ack
    \* the sender's memory
    nonce,       \* OurState's nonce
    todo,        \* the steps left to the event loop in its current handler
    hashes,      \* keys of SentHashesToChannel
    acked,       \* SentMessageStates with Success, their AckChannel filled
    ql,          \* queueMessagesAndLock.messages
    gpc, cur,    \* the queue's goroutine and the message it is sending
    results,     \* AsyncResults the event loop has not handled yet
    receiving,   \* StartReceive was called
    \* the partner
    delivered,   \* the messages the partner has registered, in order
    saved,       \* how many of them are in its saved channel
    savedAcks,   \* Acks in its database
    pending,     \* the message whose Ack is sent and not saved yet
    stopped,     \* its channel is in a state of TransferCannotBeContinuedMap
    \* the rest of the world
    net,         \* packets in flight
    removed,     \* the nodes that have removed the channel
    \* history and bounds
    sent,        \* the messages saved as envelopes, in order
    created,     \* messages created so far
    crashes,     \* crashes so far
    lapsed,      \* messages the partner acknowledged and skipped or forgot
    peerCrashes, \* crashes of the partner so far
    env          \* the environment of this behaviour; it never changes

senderDB  == <<savedNonce, envelopes>>
loopVars  == <<nonce, todo>>
queueVars == <<hashes, acked, ql, gpc, cur, results>>
peerVars  == <<delivered, saved, savedAcks, pending, stopped>>
worldVars == <<lapsed, peerCrashes, env>>
histVars  == <<sent, created, crashes, worldVars>>
vars == <<senderDB, loopVars, queueVars, receiving, net, peerVars, removed,
          histVars>>

NoMessage == [nonce |-> 0, id |-> 0]

Data(m) == [type |-> "data", msg |-> m]
Ack(m)  == [type |-> "ack", msg |-> m]

partnerNonce == IF delivered = <<>> THEN 0 ELSE delivered[Len(delivered)].nonce

-----------------------------------------------------------------------------
(***************************************************************************)
(* The event loop.  A handler that sends creates and registers the message *)
(* in memory, then saves the channel and calls sendAsync, which saves the  *)
(* message, registers its hash and queues it.  directTransferAsync calls   *)
(* sendAsync first and saves the channel last.                             *)
(***************************************************************************)
Ops == {"UpdateChannel", "NewSentEnvelopMessager", "sendWithResult",
        "processSentMessageState"}

Steps(m, ops) == [i \in 1..Len(ops) |-> [op |-> ops[i], msg |-> m]]

sendAsyncOps == <<"NewSentEnvelopMessager", "sendWithResult",
                  "processSentMessageState">>

Program(m, order) ==
    IF order = "channelFirst"
    THEN Steps(m, <<"UpdateChannel">> \o sendAsyncOps)
    ELSE Steps(m, sendAsyncOps \o <<"UpdateChannel">>)

CreateMessage(order) ==
    LET m == [nonce |-> nonce + 1, id |-> created + 1]
    IN  /\ todo = <<>> /\ removed = {}
        /\ created < MaxMessages
        /\ nonce' = nonce + 1
        /\ created' = created + 1
        /\ todo' = Program(m, order)
        /\ UNCHANGED <<senderDB, queueVars, receiving, net, peerVars, removed,
                       sent, crashes, worldVars>>

NextStepIs(op) == todo # <<>> /\ todo[1].op = op

UpdateChannel ==
    /\ NextStepIs("UpdateChannel")
    /\ savedNonce' = nonce
    /\ todo' = Tail(todo)
    /\ UNCHANGED <<envelopes, nonce, queueVars, receiving, net, peerVars,
                   removed, histVars>>

NewSentEnvelopMessager ==
    LET m == todo[1].msg
    IN  /\ NextStepIs("NewSentEnvelopMessager")
        /\ envelopes' = envelopes \cup {m}
        /\ sent' = IF m \in Range(sent) THEN sent ELSE Append(sent, m)
        /\ todo' = Tail(todo)
        /\ UNCHANGED <<savedNonce, nonce, queueVars, receiving, net, peerVars,
                       removed, created, crashes, worldVars>>

\* A message whose hash is still registered is not queued again.
sendWithResult ==
    LET m == todo[1].msg
    IN  /\ NextStepIs("sendWithResult")
        /\ hashes' = hashes \cup {m}
        /\ todo' = IF m \in hashes THEN Tail(Tail(todo)) ELSE Tail(todo)
        /\ UNCHANGED <<senderDB, nonce, acked, ql, gpc, cur, results, receiving,
                       net, peerVars, removed, histVars>>

\* Under mapLock: append, and wake the goroutine if it is waiting at the
\* channel right now (the send on the unbuffered channel never blocks); the
\* first message starts the goroutine.
processSentMessageState ==
    /\ NextStepIs("processSentMessageState")
    /\ ql' = Append(ql, todo[1].msg)
    /\ gpc' = IF gpc \in {"none", "waiting"} THEN "loop" ELSE gpc
    /\ todo' = Tail(todo)
    /\ UNCHANGED <<senderDB, nonce, hashes, acked, cur, results, receiving, net,
                   peerVars, removed, histVars>>

\* handleSentMessage, when the loop is between two handlers
handleSentMessage(m) ==
    /\ todo = <<>>
    /\ m \in results
    /\ results' = results \ {m}
    /\ envelopes' = envelopes \ {m}
    /\ UNCHANGED <<savedNonce, loopVars, hashes, acked, ql, gpc, cur, receiving,
                   net, peerVars, removed, histVars>>

-----------------------------------------------------------------------------
(***************************************************************************)
(* The goroutine of the queue.                                             *)
(***************************************************************************)
takeMessage ==
    /\ gpc = "loop"
    /\ ql # <<>>
    /\ cur' = Head(ql)
    /\ ql' = Tail(ql)
    /\ gpc' = "sending"
    /\ UNCHANGED <<senderDB, loopVars, hashes, acked, results, receiving, net,
                   peerVars, removed, histVars>>

\* Finds the queue empty and releases mapLock ...
foundEmpty ==
    /\ gpc = "loop"
    /\ ql = <<>>
    /\ gpc' = "empty"
    /\ UNCHANGED <<senderDB, loopVars, hashes, acked, ql, cur, results,
                   receiving, net, peerVars, removed, histVars>>

\* ... and only then waits on wakeUpChan.
waitForWakeUp ==
    /\ gpc = "empty"
    /\ gpc' = "waiting"
    /\ UNCHANGED <<senderDB, loopVars, hashes, acked, ql, cur, results,
                   receiving, net, peerVars, removed, histVars>>

\* One round of sendMessage's loop.
sendRaw ==
    /\ gpc = "sending"
    /\ "sender" \notin removed
    /\ net' = net \cup {Data(cur)}
    /\ gpc' = "awaitAck"
    /\ UNCHANGED <<senderDB, loopVars, hashes, acked, ql, cur, results,
                   receiving, peerVars, removed, histVars>>

\* Mutant: only the hash is forgotten.
sendExpiredKeepsAck ==
    /\ gpc = "sending"
    /\ "sender" \in removed
    /\ hashes' = hashes \ {cur}
    /\ cur' = NoMessage
    /\ gpc' = "loop"
    /\ UNCHANGED <<senderDB, loopVars, acked, ql, results, receiving, net,
                   peerVars, removed, histVars>>

\* Mutant: giving up is reported as success.
sendExpiredAsSuccess ==
    /\ gpc = "sending"
    /\ "sender" \in removed
    /\ results' = results \cup {cur}
    /\ hashes' = hashes \ {cur}
    /\ acked' = acked \ {cur}
    /\ cur' = NoMessage
    /\ gpc' = "loop"
    /\ UNCHANGED <<senderDB, loopVars, ql, receiving, net, peerVars, removed,
                   histVars>>

\* messageCanBeSent is false: give up with errExpired; the envelope stays.
sendExpired ==
    /\ gpc = "sending"
    /\ "sender" \in removed
    /\ hashes' = hashes \ {cur}
    /\ acked' = acked \ {cur}
    /\ cur' = NoMessage
    /\ gpc' = "loop"
    /\ UNCHANGED <<senderDB, loopVars, ql, results, receiving, net, peerVars,
                   removed, histVars>>

sendSuccess ==
    /\ gpc = "awaitAck"
    /\ cur \in acked
    /\ results' = results \cup {cur}
    /\ hashes' = hashes \ {cur}
    /\ acked' = acked \ {cur}
    /\ cur' = NoMessage
    /\ gpc' = "loop"
    /\ UNCHANGED <<senderDB, loopVars, ql, receiving, net, peerVars, removed,
                   histVars>>

resendTimeout ==
    /\ gpc = "awaitAck"
    /\ gpc' = "sending"
    /\ UNCHANGED <<senderDB, loopVars, hashes, acked, ql, cur, results,
                   receiving, net, peerVars, removed, histVars>>

-----------------------------------------------------------------------------
(***************************************************************************)
(* receiveInternal, at both ends.                                          *)
(***************************************************************************)
receiveAck(m) ==
    /\ receiving
    /\ Ack(m) \in net
    /\ acked' = IF m \in hashes THEN acked \cup {m} ELSE acked
    /\ net' = net \ {Ack(m)}
    /\ UNCHANGED <<senderDB, loopVars, hashes, ql, gpc, cur, results, receiving,
                   peerVars, removed, histVars>>

\* Mutant: a message that was handled before is dropped.
resendAckNever(m) ==
    /\ Data(m) \in net /\ pending = NoMessage
    /\ m \in savedAcks
    /\ net' = net \ {Data(m)}
    /\ UNCHANGED <<senderDB, loopVars, queueVars, receiving, peerVars, removed,
                   histVars>>

\* A message that was acknowledged before gets the saved Ack (GetAck).
resendAck(m) ==
    /\ Data(m) \in net /\ pending = NoMessage
    /\ m \in savedAcks
    /\ net' = (net \ {Data(m)}) \cup {Ack(m)}
    /\ UNCHANGED <<senderDB, loopVars, queueVars, receiving, peerVars, removed,
                   histVars>>

\* RegisterTransfer takes the next nonce only.
CanRegister(m) ==
    /\ pending = NoMessage /\ m \notin savedAcks
    /\ m.nonce = partnerNonce + 1 /\ "receiver" \notin removed

\* Mutant: neither the saved Acks nor the exact nonce are checked.
receiveAtLeast(m) ==
    /\ Data(m) \in net /\ pending = NoMessage
    /\ m.nonce >= partnerNonce /\ "receiver" \notin removed
    /\ Len(delivered) < MaxMessages
    /\ delivered' = Append(delivered, m)
    /\ saved' = Len(delivered')
    /\ savedAcks' = savedAcks \cup {m}
    /\ net' = (net \ {Data(m)}) \cup {Ack(m)}
    /\ UNCHANGED <<senderDB, loopVars, queueVars, receiving, pending, stopped,
                   removed, histVars>>

\* The handler registers the message and saves the channel and the Ack in one
\* transaction (UpdateChannelAndSaveAck), before the Ack is sent.
receiveMessage(m) ==
    /\ Data(m) \in net /\ CanRegister(m)
    /\ delivered' = Append(delivered, m)
    /\ saved' = Len(delivered')
    /\ savedAcks' = savedAcks \cup {m}
    /\ net' = (net \ {Data(m)}) \cup {Ack(m)}
    /\ UNCHANGED <<senderDB, loopVars, queueVars, receiving, pending, stopped,
                   removed, histVars>>

\* A lock that is too late for its target, was disposed of before, or comes to
\* a transfer that runs already is registered, and the handler returns without
\* an error and without saving the channel.  The Ack is sent; saving it is the
\* next thing receiveInternal does.
receiveUnsaved(m) ==
    /\ Data(m) \in net /\ CanRegister(m)
    /\ delivered' = Append(delivered, m)
    /\ pending' = m
    /\ net' = (net \ {Data(m)}) \cup {Ack(m)}
    /\ UNCHANGED <<senderDB, loopVars, queueVars, receiving, saved, savedAcks,
                   stopped, removed, histVars>>

\* A RemoveExpiredHashlockTransfer for a channel that cannot continue is
\* acknowledged and not registered, whatever its nonce.
receiveSkipped(m) ==
    /\ Data(m) \in net /\ pending = NoMessage
    /\ m \notin savedAcks
    /\ stopped /\ "receiver" \notin removed
    /\ pending' = m
    /\ lapsed' = lapsed \cup {m}
    /\ net' = (net \ {Data(m)}) \cup {Ack(m)}
    /\ UNCHANGED <<senderDB, loopVars, queueVars, receiving, delivered, saved,
                   savedAcks, stopped, removed, sent, created, crashes,
                   peerCrashes, env>>

\* SaveAck, after sendAck
saveAck ==
    /\ pending # NoMessage
    /\ savedAcks' = savedAcks \cup {pending}
    /\ pending' = NoMessage
    /\ UNCHANGED <<senderDB, loopVars, queueVars, receiving, net, delivered, saved,
                   stopped, removed, histVars>>

\* The partner saves its channel for a reason of its own: it sends on it, or
\* learns a secret.
savePartnerChannel ==
    /\ saved < Len(delivered)
    /\ saved' = Len(delivered)
    /\ UNCHANGED <<senderDB, loopVars, queueVars, receiving, net, delivered,
                   savedAcks, pending, stopped, removed, histVars>>

\* The partner dies and starts again with the channel and the Acks it has saved.
crashPartner ==
    /\ peerCrashes < env.peerCrashes
    /\ peerCrashes' = peerCrashes + 1
    /\ delivered' = SubSeq(delivered, 1, saved)
    /\ pending' = NoMessage
    /\ lapsed' = lapsed \cup {delivered[i] : i \in (saved + 1)..Len(delivered)}
    /\ UNCHANGED <<senderDB, loopVars, queueVars, receiving, net, saved, savedAcks,
                   stopped, removed, sent, created, crashes, env>>

\* The partner's channel is withdrawn from or settled.
stopChannel ==
    /\ env.stop /\ ~ stopped
    /\ stopped' = TRUE
    /\ UNCHANGED <<senderDB, loopVars, queueVars, receiving, net, delivered, saved,
                   savedAcks, pending, removed, histVars>>

\* The network loses a packet, or a handler returns an error.
lose(p) ==
    /\ p \in net
    /\ net' = net \ {p}
    /\ UNCHANGED <<senderDB, loopVars, queueVars, receiving, peerVars, removed,
                   histVars>>

\* A transport delivers a packet twice.
duplicate(m) ==
    /\ m \in savedAcks \cup lapsed
    /\ Data(m) \notin net
    /\ net' = net \cup {Data(m)}
    /\ UNCHANGED <<senderDB, loopVars, queueVars, receiving, peerVars, removed,
                   histVars>>

-----------------------------------------------------------------------------
(***************************************************************************)
(* Settlement, crash and restart.                                          *)
(***************************************************************************)
removeChannel(side) ==
    /\ env.remove
    /\ side \notin removed
    /\ removed' = removed \cup {side}
    /\ UNCHANGED <<senderDB, loopVars, queueVars, receiving, net, peerVars,
                   histVars>>

\* GetAllOrderedSentEnvelopMessager: by nonce; equal nonces in any order
Ordered(S) ==
    {s \in [1..Cardinality(S) -> S] :
        \A i, j \in 1..Cardinality(S) :
            i < j => s[i] # s[j] /\ s[i].nonce <= s[j].nonce}

\* reSendEnvelopMessage: sendAsync for each saved message
Resend(s) ==
    [i \in 1..(3 * Len(s)) |->
        [op |-> sendAsyncOps[((i - 1) % 3) + 1], msg |-> s[((i - 1) \div 3) + 1]]]

\* The process dies, and starts again with what its database holds.
CrashAndRestart ==
    /\ crashes < env.crashes
    /\ crashes' = crashes + 1
    /\ nonce' = savedNonce
    /\ \E s \in Ordered(envelopes) : todo' = Resend(s)
    /\ hashes' = {} /\ acked' = {} /\ results' = {}
    /\ ql' = <<>> /\ gpc' = "none" /\ cur' = NoMessage
    /\ receiving' = FALSE
    /\ UNCHANGED <<senderDB, net, peerVars, removed, sent, created, worldVars>>

\* Protocol.StartReceive, after restore
StartReceive ==
    /\ ~receiving
    /\ todo = <<>>
    /\ receiving' = TRUE
    /\ UNCHANGED <<senderDB, loopVars, queueVars, net, peerVars, removed,
                   histVars>>

-----------------------------------------------------------------------------
Init ==
    /\ savedNonce = 0 /\ envelopes = {}
    /\ nonce = 0 /\ todo = <<>>
    /\ hashes = {} /\ acked = {} /\ results = {}
    /\ ql = <<>> /\ gpc = "none" /\ cur = NoMessage
    /\ receiving = TRUE
    /\ delivered = <<>> /\ saved = 0 /\ savedAcks = {}
    /\ pending = NoMessage /\ stopped = FALSE
    /\ net = {} /\ removed = {}
    /\ sent = <<>> /\ created = 0 /\ crashes = 0
    /\ lapsed = {} /\ peerCrashes = 0
    /\ env \in Environments

eventLoop ==
    \/ UpdateChannel
    \/ NewSentEnvelopMessager
    \/ sendWithResult
    \/ processSentMessageState

goroutine ==
    \/ takeMessage \/ foundEmpty \/ waitForWakeUp
    \/ sendRaw \/ sendExpired \/ sendSuccess \/ resendTimeout

receiveInternal(m) ==
    \/ resendAck(m) \/ receiveMessage(m) \/ receiveUnsaved(m) \/ receiveSkipped(m)

partner ==
    \/ saveAck \/ savePartnerChannel \/ crashPartner \/ stopChannel

Next ==
    \/ \E order \in env.orders : CreateMessage(order)
    \/ eventLoop
    \/ goroutine
    \/ StartReceive
    \/ CrashAndRestart
    \/ partner
    \/ \E m \in Messages :
          \/ handleSentMessage(m)
          \/ receiveAck(m)
          \/ receiveInternal(m)
          \/ duplicate(m)
    \/ \E p \in net : lose(p)
    \/ \E side \in {"sender", "receiver"} : removeChannel(side)

Spec == Init /\ [][Next]_vars

(***************************************************************************)
(* Threads that can run do run; a packet that is sent again and again      *)
(* arrives at last.                                                        *)
(***************************************************************************)
Fairness ==
    /\ WF_vars(eventLoop \/ StartReceive \/ \E m \in Messages : handleSentMessage(m))
    /\ WF_vars(takeMessage \/ foundEmpty \/ waitForWakeUp \/ sendRaw \/ sendExpired
                 \/ resendTimeout)
    /\ SF_vars(sendSuccess)
    /\ WF_vars(saveAck)
    /\ \A m \in Messages : SF_vars(receiveInternal(m)) /\ SF_vars(receiveAck(m))

FairSpec == Spec /\ Fairness

-----------------------------------------------------------------------------
\* Every variable has its type, and only messages whose hash is registered in
\* SentHashesToChannel can have a filled AckChannel (receiveInternal).
TypeOK ==
    /\ savedNonce \in 0..MaxMessages /\ nonce \in 0..MaxMessages
    /\ envelopes \subseteq Messages
    /\ todo \in Seq([op : Ops, msg : Messages])
    /\ hashes \subseteq Messages /\ acked \subseteq hashes
    /\ results \subseteq Messages
    /\ ql \in Seq(Messages)
    /\ gpc \in {"none", "loop", "empty", "waiting", "sending", "awaitAck"}
    /\ cur \in Messages \cup {NoMessage}
    /\ receiving \in BOOLEAN
    /\ net \subseteq [type : {"data", "ack"}, msg : Messages]
    /\ delivered \in Seq(Messages) /\ saved \in 0..Len(delivered)
    /\ savedAcks \subseteq Messages /\ pending \in Messages \cup {NoMessage}
    /\ stopped \in BOOLEAN
    /\ removed \subseteq {"sender", "receiver"}
    /\ sent \in Seq(Messages)
    /\ env \in Environments
    /\ created \in 0..MaxMessages /\ crashes \in 0..env.crashes
    /\ lapsed \subseteq Messages /\ peerCrashes \in 0..env.peerCrashes

\* A node that does not send direct transfers saves its channel first.
ChannelFirst == env.orders \subseteq {"channelFirst"}

\* What the layer promises a node that saves its channel before its messages:
\* the saved messages are registered by the partner in the order in which they
\* were saved, none twice and none left out, through losses, duplicates,
\* retries, crashes and restarts of both ends; a crash of the partner takes back
\* at most what its channel was not saved with.  It promises nothing of the
\* kind with the other order, where a crash lets a nonce be signed twice.
Abstract == INSTANCE ReliableDelivery
                WITH Messages <- Messages,
                     sent <- IF ChannelFirst THEN sent ELSE <<>>,
                     delivered <- IF ChannelFirst THEN delivered ELSE <<>>,
                     saved <- IF ChannelFirst THEN saved ELSE 0
Delivery == Abstract!Spec

\* A message is kept in the database until the partner has registered it, or
\* has itself skipped or forgotten it: handleSentMessage deletes it on an Ack
\* only, and an Ack, saved or fresh, is issued by the handlers only.
KeptUnlessLapsed ==
    \A m \in Range(sent) : m \in envelopes \/ m \in Range(delivered) \/ m \in lapsed

\* The partner will never acknowledge m: a crash between the two saves of a
\* handler has left a nonce below m's without a message to resend (channel
\* saved first), or m's nonce was signed twice and the other message was
\* registered (message saved first), or a crash of the partner has lost a
\* message below m that it had acknowledged, or the Ack of m but not m.
NeverNext(m) ==
    /\ m \notin savedAcks \cup {pending}
    /\ \/ m.nonce <= partnerNonce
       \/ \E n \in (partnerNonce + 1)..(m.nonce - 1) :
             ~ \E e \in envelopes : e.nonce = n

\* A message that the goroutine has begun to send, in this life of the process
\* or after a restart, is acknowledged in the end and forgotten, however often
\* packets and Acks are lost (the retry loop of sendMessage, the saved Acks of
\* receiveInternal).  The exceptions are a channel that is removed or stopped,
\* another crash, which ends the goroutine, and what an earlier crash of either
\* end has lost or doubled (NeverNext).
BegunIsAcknowledged ==
    \A m \in Messages :
        (gpc = "sending" /\ cur = m)
            ~> (\/ m \notin envelopes \/ removed # {} \/ stopped
                \/ gpc = "none" \/ NeverNext(m))

\* "msg must be sent success" (sendWithResult): a message that was handed to
\* the protocol reaches the partner.
EverySentDelivered ==
    \A m \in Messages : (m \in Range(sent)) ~> (m \in Range(delivered))
=============================================================================
