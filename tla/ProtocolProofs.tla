--------------------------- MODULE ProtocolProofs ---------------------------
(***************************************************************************)
(* Proofs about Protocol, for every number of messages and crashes.        *)
(***************************************************************************)
EXTENDS Protocol, FiniteSetTheorems, TLAPS

(***************************************************************************)
(* Facts about sequences and the programs of the event loop.               *)
(***************************************************************************)

\* Appending adds one element to the range of a sequence.
LEMMA RangeAppend ==
    ASSUME NEW S, NEW s \in Seq(S), NEW e \in S
    PROVE  /\ Range(Append(s, e)) = Range(s) \cup {e}
           /\ Append(s, e) \in Seq(S)
<1>1. /\ Append(s, e) \in Seq(S) /\ Len(Append(s, e)) = Len(s) + 1
      /\ \A i \in 1..Len(s) : Append(s, e)[i] = s[i]
      /\ Append(s, e)[Len(s) + 1] = e
      /\ Len(s) \in Nat
  OBVIOUS
<1>2. DOMAIN s = 1..Len(s) /\ DOMAIN Append(s, e) = 1..(Len(s) + 1)
  BY <1>1
<1> DEFINE t == Append(s, e)
<1> HIDE DEF t
<1>3. t \in Seq(S) /\ DOMAIN t = 1..(Len(s) + 1) /\ (\A i \in 1..Len(s) : t[i] = s[i])
      /\ t[Len(s) + 1] = e
  BY <1>1, <1>2 DEF t
<1>4. ASSUME NEW x \in Range(t) PROVE x \in Range(s) \cup {e}
  BY <1>1, <1>2, <1>3 DEF Range
<1>5. ASSUME NEW x \in Range(s) \cup {e} PROVE x \in Range(t)
  <2>1. CASE x = e
    BY <1>1, <1>3, <2>1 DEF Range
  <2>2. CASE x \in Range(s)
    BY <1>1, <1>2, <1>3, <2>2 DEF Range
  <2> QED BY <2>1, <2>2
<1>6. Range(t) = Range(s) \cup {e}
  BY <1>4, <1>5
<1> QED BY <1>1, <1>6 DEF t

\* The elements of a nonempty sequence are its head and those of its tail.
LEMMA TailFacts ==
    ASSUME NEW S, NEW s \in Seq(S), s # <<>>
    PROVE  /\ Tail(s) \in Seq(S) /\ Head(s) = s[1] /\ s[1] \in S
           /\ Len(s) \in Nat \ {0} /\ Len(Tail(s)) = Len(s) - 1
           /\ \A i \in 1..Len(Tail(s)) : i + 1 \in 1..Len(s) /\ Tail(s)[i] = s[i + 1]
           /\ Tail(s) = <<>> <=> Len(s) = 1
<1>1. Len(s) \in Nat \ {0} /\ Tail(s) \in Seq(S) /\ Head(s) = s[1]
  OBVIOUS
<1>2. s[1] \in S
  BY <1>1
<1>3. Len(Tail(s)) = Len(s) - 1
  BY <1>1
<1>4. ASSUME NEW i \in 1..Len(Tail(s)) PROVE i + 1 \in 1..Len(s) /\ Tail(s)[i] = s[i + 1]
  BY <1>1, <1>3
<1>5. ASSUME NEW t \in Seq(S) PROVE t = <<>> <=> Len(t) = 0
  OBVIOUS
<1>6. Tail(s) = <<>> <=> Len(Tail(s)) = 0
  BY <1>1, <1>5
<1>7. Tail(s) = <<>> <=> Len(s) = 1
  BY <1>1, <1>3, <1>6
<1> QED BY <1>1, <1>2, <1>3, <1>4, <1>7

\* Taking the head of a sequence adds nothing to its range.
LEMMA TailRange ==
    ASSUME NEW S, NEW s \in Seq(S), s # <<>>
    PROVE  Head(s) \in Range(s) /\ Range(Tail(s)) \subseteq Range(s)
<1>1. /\ Tail(s) \in Seq(S) /\ Head(s) = s[1] /\ Len(s) \in Nat \ {0}
      /\ \A i \in 1..Len(Tail(s)) : i + 1 \in 1..Len(s) /\ Tail(s)[i] = s[i + 1]
  BY TailFacts
<1>2. DOMAIN s = 1..Len(s) /\ DOMAIN Tail(s) = 1..Len(Tail(s))
  BY <1>1
<1>3. 1 \in DOMAIN s
  BY <1>1, <1>2
<1> QED BY <1>1, <1>2, <1>3 DEF Range

\* A prefix of a sequence keeps its elements.
LEMMA PrefixFacts ==
    ASSUME NEW S, NEW s \in Seq(S), NEW n \in 0..Len(s)
    PROVE  /\ SubSeq(s, 1, n) \in Seq(S) /\ Len(SubSeq(s, 1, n)) = n
           /\ \A i \in 1..n : SubSeq(s, 1, n)[i] = s[i]
           /\ Range(s) = Range(SubSeq(s, 1, n)) \cup {s[i] : i \in (n + 1)..Len(s)}
<1> DEFINE t == SubSeq(s, 1, n)
<1>1. /\ t \in Seq(S) /\ Len(t) = n /\ Len(s) \in Nat /\ n \in Nat
      /\ \A i \in 1..n : t[i] = s[i]
  OBVIOUS
<1> HIDE DEF t
<1>2. DOMAIN s = 1..Len(s) /\ DOMAIN t = 1..n
  BY <1>1
<1>3. 1..Len(s) = (1..n) \cup ((n + 1)..Len(s))
  BY <1>1
<1>4. Range(s) = Range(t) \cup {s[i] : i \in (n + 1)..Len(s)}
  BY <1>1, <1>2, <1>3 DEF Range
<1> QED BY <1>1, <1>4 DEF t

TodoType == Seq([op : Ops, msg : Messages])

\* sendWithResult is never the last step of a handler.
EndsWell(t) == t # <<>> => t[Len(t)].op # "sendWithResult"

\* sendAsync runs three of the operations.
LEMMA AsyncOps ==
    /\ sendAsyncOps \in Seq(Ops) /\ Len(sendAsyncOps) = 3
    /\ sendAsyncOps[1] = "NewSentEnvelopMessager"
    /\ sendAsyncOps[2] = "sendWithResult"
    /\ sendAsyncOps[3] = "processSentMessageState"
BY DEF sendAsyncOps, Ops

\* The program of a handler that sends: its four steps, in either order.
LEMMA ProgramSteps ==
    ASSUME NEW m \in Messages
    PROVE  /\ LET p == Program(m, "channelFirst")
              IN  /\ Len(p) = 4
                  /\ p[1] = [op |-> "UpdateChannel", msg |-> m]
                  /\ p[2] = [op |-> "NewSentEnvelopMessager", msg |-> m]
                  /\ p[3] = [op |-> "sendWithResult", msg |-> m]
                  /\ p[4] = [op |-> "processSentMessageState", msg |-> m]
           /\ \A order \in Orders : Program(m, order) \in TodoType /\ EndsWell(Program(m, order))
<1> DEFINE first  == <<"UpdateChannel">> \o sendAsyncOps
           second == sendAsyncOps \o <<"UpdateChannel">>
<1>1. /\ first \in Seq(Ops) /\ Len(first) = 4
      /\ first[1] = "UpdateChannel" /\ first[2] = "NewSentEnvelopMessager"
      /\ first[3] = "sendWithResult" /\ first[4] = "processSentMessageState"
  BY DEF sendAsyncOps, Ops
<1>2. /\ second \in Seq(Ops) /\ Len(second) = 4
      /\ second[4] = "UpdateChannel"
  BY DEF sendAsyncOps, Ops
<1> HIDE DEF first, second
<1>3. ASSUME NEW ops \in Seq(Ops), Len(ops) = 4
      PROVE  /\ Steps(m, ops) \in TodoType /\ Len(Steps(m, ops)) = 4
             /\ \A i \in 1..4 : Steps(m, ops)[i] = [op |-> ops[i], msg |-> m]
  BY <1>3 DEF Steps, TodoType
<1>4. /\ Program(m, "channelFirst") = Steps(m, first)
      /\ \A order \in Orders : Program(m, order) \in {Steps(m, first), Steps(m, second)}
  BY DEF Program, Orders, first, second
<1>5. /\ Steps(m, first) \in TodoType /\ Len(Steps(m, first)) = 4
      /\ \A i \in 1..4 : Steps(m, first)[i] = [op |-> first[i], msg |-> m]
      /\ Steps(m, second) \in TodoType /\ Len(Steps(m, second)) = 4
      /\ \A i \in 1..4 : Steps(m, second)[i] = [op |-> second[i], msg |-> m]
  BY <1>1, <1>2, <1>3
<1>6. /\ Steps(m, first)[1] = [op |-> "UpdateChannel", msg |-> m]
      /\ Steps(m, first)[2] = [op |-> "NewSentEnvelopMessager", msg |-> m]
      /\ Steps(m, first)[3] = [op |-> "sendWithResult", msg |-> m]
      /\ Steps(m, first)[4] = [op |-> "processSentMessageState", msg |-> m]
      /\ Steps(m, second)[4] = [op |-> "UpdateChannel", msg |-> m]
  <2>1. 1 \in 1..4 /\ 2 \in 1..4 /\ 3 \in 1..4 /\ 4 \in 1..4
    OBVIOUS
  <2> QED BY <1>1, <1>2, <1>5, <2>1
<1>7. EndsWell(Steps(m, first)) /\ EndsWell(Steps(m, second))
  BY <1>5, <1>6 DEF EndsWell
<1> QED BY <1>4, <1>5, <1>6, <1>7

\* There are finitely many messages.
LEMMA MessagesFinite ==
    ASSUME NEW S \in SUBSET Messages
    PROVE  Cardinality(S) \in Nat
<1> DEFINE N == 1..MaxMessages
           f == [m \in Messages |-> <<m.nonce, m.id>>]
<1>1. IsFiniteSet(N \X N)
  <2>1. 1 \in Int /\ MaxMessages \in Int
    BY ProtocolAssumption
  <2>2. IsFiniteSet(N)
    BY <2>1, FS_Interval
  <2> HIDE DEF N
  <2> QED BY <2>2, FS_Product
<1>2. f \in Injection(Messages, N \X N)
  <2>1. f \in [Messages -> N \X N]
    BY DEF Messages
  <2>2. ASSUME NEW a \in Messages, NEW b \in Messages, f[a] = f[b] PROVE a = b
    BY <2>2 DEF Messages
  <2> QED BY <2>1, <2>2 DEF Injection, IsInjective
<1>3. IsFiniteSet(Messages)
  BY <1>1, <1>2, FS_Injection
<1> QED BY <1>3, FS_Subset, FS_CardinalityType

\* What is resent after a crash are the saved messages, three steps each.
LEMMA ResendSteps ==
    ASSUME NEW S \in SUBSET Messages, NEW s \in Ordered(S)
    PROVE  /\ Resend(s) \in TodoType /\ EndsWell(Resend(s))
           /\ \A i \in 1..Len(Resend(s)) :
                 Resend(s)[i].msg \in S /\ Resend(s)[i].op # "UpdateChannel"
<1>1. s \in [1..Cardinality(S) -> S] /\ Cardinality(S) \in Nat
  BY MessagesFinite DEF Ordered
<1>2. s \in Seq(S) /\ Len(s) \in Nat
  BY <1>1
<1> DEFINE n == Len(s)
<1>3. ASSUME NEW i \in 1..(3 * n)
      PROVE  /\ ((i - 1) % 3) + 1 \in 1..3
             /\ ((i - 1) \div 3) + 1 \in 1..n
  BY <1>2
<1>4. ASSUME NEW i \in 1..(3 * n)
      PROVE  /\ sendAsyncOps[((i - 1) % 3) + 1] \in Ops \ {"UpdateChannel"}
             /\ s[((i - 1) \div 3) + 1] \in S
  <2>1. \A k \in 1..3 : sendAsyncOps[k] \in Ops \ {"UpdateChannel"}
    BY AsyncOps DEF Ops
  <2>2. \A k \in 1..n : s[k] \in S
    BY <1>2
  <2> QED BY <1>3, <2>1, <2>2
<1>5. /\ Resend(s) \in TodoType /\ Len(Resend(s)) = 3 * n
      /\ \A i \in 1..(3 * n) :
            Resend(s)[i].msg \in S /\ Resend(s)[i].op # "UpdateChannel"
  BY <1>2, <1>4 DEF Resend, TodoType
<1>6. ASSUME Resend(s) # <<>>
      PROVE  Resend(s)[3 * n].op # "sendWithResult"
  <2>1. 3 * n \in 1..(3 * n) /\ (3 * n - 1) % 3 = 2
    BY <1>2, <1>5, <1>6
  <2>2. Resend(s)[3 * n].op = sendAsyncOps[3]
    BY <2>1 DEF Resend
  <2> QED BY <2>2, AsyncOps
<1> QED BY <1>5, <1>6 DEF EndsWell

(***************************************************************************)
(* Type correctness.  TypeOK is not inductive: the step after              *)
(* sendWithResult is dropped when the hash is known, so it must be there,  *)
(* and what sendSuccess reports must be a message.                         *)
(***************************************************************************)
TypeInv ==
    /\ TypeOK
    /\ EndsWell(todo)
    /\ savedNonce <= nonce /\ nonce <= created
    /\ gpc \in {"sending", "awaitAck"} => cur \in Messages

\* A handler's step leaves a program that still ends well.
LEMMA TailTyped ==
    ASSUME NEW t \in TodoType, EndsWell(t), t # <<>>
    PROVE  /\ t[1] \in [op : Ops, msg : Messages]
           /\ Tail(t) \in TodoType /\ EndsWell(Tail(t))
           /\ t[1].op = "sendWithResult" => Tail(t) # <<>>
<1>1. /\ Tail(t) \in TodoType /\ t[1] \in [op : Ops, msg : Messages]
      /\ Len(t) \in Nat \ {0} /\ Len(Tail(t)) = Len(t) - 1
      /\ \A i \in 1..Len(Tail(t)) : i + 1 \in 1..Len(t) /\ Tail(t)[i] = t[i + 1]
  BY TailFacts DEF TodoType
<1>2. Tail(t) = <<>> <=> Len(t) = 1
  BY TailFacts DEF TodoType
<1>3. ASSUME Tail(t) # <<>> PROVE Tail(t)[Len(Tail(t))] = t[Len(t)]
  <2>1. Len(Tail(t)) \in 1..Len(Tail(t))
    BY <1>1, <1>2, <1>3
  <2>2. Tail(t)[Len(Tail(t))] = t[Len(Tail(t)) + 1]
    BY <1>1, <2>1
  <2>3. Len(Tail(t)) + 1 = Len(t)
    BY <1>1
  <2> QED BY <2>2, <2>3
<1> QED BY <1>1, <1>2, <1>3 DEF EndsWell

\* The step the event loop is at is one of its operations on a message.
LEMMA NextStepTyped ==
    ASSUME TypeInv, NEW op, NextStepIs(op)
    PROVE  /\ todo # <<>> /\ todo[1] \in [op : Ops, msg : Messages]
           /\ todo[1].msg \in Messages
           /\ Tail(todo) \in TodoType /\ EndsWell(Tail(todo))
           /\ op = "sendWithResult" => Tail(todo) # <<>>
<1>1. todo \in TodoType /\ EndsWell(todo)
  BY DEF TypeInv, TypeOK, TodoType
<1> QED BY <1>1, TailTyped DEF NextStepIs

\* What an environment allows.
LEMMA EnvTyped ==
    ASSUME NEW e \in Environments
    PROVE  e.orders \subseteq Orders /\ e.crashes \in Nat /\ e.peerCrashes \in Nat
BY ProtocolAssumption

\* Every step keeps the types.
LEMMA TypeStep ==
    ASSUME TypeInv, [Next]_vars
    PROVE  TypeInv'
<1> USE DEF senderDB, loopVars, queueVars, peerVars, worldVars, histVars
<1>1. ASSUME NEW order \in env.orders, CreateMessage(order)
      PROVE  TypeInv'
  <2> DEFINE m == [nonce |-> nonce + 1, id |-> created + 1]
  <2>1. m \in Messages
    BY <1>1, ProtocolAssumption DEF CreateMessage, TypeInv, TypeOK, Messages
  <2>0. order \in Orders
    BY <1>1, EnvTyped DEF TypeInv, TypeOK
  <2>2. Program(m, order) \in TodoType /\ EndsWell(Program(m, order))
    BY <2>0, <2>1, ProgramSteps
  <2>3. todo' = Program(m, order)
    BY <1>1 DEF CreateMessage
  <2> HIDE DEF m
  <2> QED BY <1>1, <2>2, <2>3, ProtocolAssumption DEF CreateMessage, TypeInv, TypeOK, TodoType
<1>2. CASE UpdateChannel
  <2>1. todo' \in TodoType /\ EndsWell(todo')
    BY <1>2, NextStepTyped DEF UpdateChannel
  <2> QED BY <1>2, <2>1 DEF UpdateChannel, TypeInv, TypeOK, TodoType
<1>3. CASE NewSentEnvelopMessager
  <2>1. todo' \in TodoType /\ EndsWell(todo') /\ todo[1].msg \in Messages
    BY <1>3, NextStepTyped DEF NewSentEnvelopMessager
  <2>2. sent' \in Seq(Messages)
    BY <1>3, <2>1, RangeAppend DEF NewSentEnvelopMessager, TypeInv, TypeOK
  <2> QED BY <1>3, <2>1, <2>2 DEF NewSentEnvelopMessager, TypeInv, TypeOK, TodoType
<1>4. CASE sendWithResult
  <2>1. /\ Tail(todo) \in TodoType /\ EndsWell(Tail(todo)) /\ Tail(todo) # <<>>
        /\ todo[1].msg \in Messages
    BY <1>4, NextStepTyped DEF sendWithResult
  <2>2. Tail(Tail(todo)) \in TodoType /\ EndsWell(Tail(Tail(todo)))
    BY <2>1, TailTyped
  <2>3. todo' \in TodoType /\ EndsWell(todo')
    BY <1>4, <2>1, <2>2 DEF sendWithResult
  <2> QED BY <1>4, <2>1, <2>3 DEF sendWithResult, TypeInv, TypeOK, TodoType
<1>5. CASE processSentMessageState
  <2>1. todo' \in TodoType /\ EndsWell(todo') /\ todo[1].msg \in Messages
    BY <1>5, NextStepTyped DEF processSentMessageState
  <2>2. ql' \in Seq(Messages)
    BY <1>5, <2>1, RangeAppend DEF processSentMessageState, TypeInv, TypeOK
  <2> QED BY <1>5, <2>1, <2>2 DEF processSentMessageState, TypeInv, TypeOK, TodoType
<1>6. ASSUME NEW m \in Messages, handleSentMessage(m)
      PROVE  TypeInv'
  BY <1>6 DEF handleSentMessage, TypeInv, TypeOK
<1>7. CASE takeMessage
  <2>1. cur' \in Messages /\ ql' \in Seq(Messages)
    BY <1>7, TailFacts DEF takeMessage, TypeInv, TypeOK
  <2> QED BY <1>7, <2>1 DEF takeMessage, TypeInv, TypeOK
<1>8. CASE foundEmpty \/ waitForWakeUp \/ resendTimeout
  BY <1>8 DEF foundEmpty, waitForWakeUp, resendTimeout, TypeInv, TypeOK
<1>9. CASE sendRaw
  <2>1. net' \subseteq [type : {"data", "ack"}, msg : Messages]
    BY <1>9 DEF sendRaw, Data, TypeInv, TypeOK
  <2> QED BY <1>9, <2>1 DEF sendRaw, TypeInv, TypeOK
<1>10. CASE sendExpired \/ sendSuccess
  BY <1>10 DEF sendExpired, sendSuccess, TypeInv, TypeOK
<1>11. ASSUME NEW m \in Messages, receiveAck(m)
       PROVE  TypeInv'
  <2>1. acked' \subseteq hashes
    BY <1>11 DEF receiveAck, TypeInv, TypeOK
  <2> QED BY <1>11, <2>1 DEF receiveAck, TypeInv, TypeOK
<1>12. ASSUME NEW m \in Messages, receiveInternal(m)
       PROVE  TypeInv'
  <2>1. net' \subseteq [type : {"data", "ack"}, msg : Messages]
    <3>1. Ack(m) \in [type : {"data", "ack"}, msg : Messages]
      BY DEF Ack
    <3>2. net' \subseteq net \cup {Ack(m)}
      BY <1>12 DEF receiveInternal, resendAck, receiveMessage, receiveUnsaved, receiveSkipped
    <3> QED BY <3>1, <3>2 DEF TypeInv, TypeOK
  <2>2. Append(delivered, m) \in Seq(Messages) /\ Len(Append(delivered, m)) = Len(delivered) + 1
        /\ Len(delivered) \in Nat
    BY DEF TypeInv, TypeOK
  <2>3. /\ delivered' \in Seq(Messages) /\ saved' \in 0..Len(delivered')
        /\ savedAcks' \subseteq Messages /\ pending' \in Messages \cup {NoMessage}
        /\ lapsed' \subseteq Messages
    <3>1. CASE resendAck(m) \/ receiveSkipped(m)
      BY <3>1 DEF resendAck, receiveSkipped, TypeInv, TypeOK
    <3>2. CASE receiveMessage(m)
      BY <2>2, <3>2 DEF receiveMessage, TypeInv, TypeOK
    <3>3. CASE receiveUnsaved(m)
      BY <2>2, <3>3 DEF receiveUnsaved, TypeInv, TypeOK
    <3> QED BY <1>12, <3>1, <3>2, <3>3 DEF receiveInternal
  <2>4. UNCHANGED <<senderDB, loopVars, queueVars, receiving, stopped, removed, sent,
                    created, crashes, peerCrashes, env>>
    BY <1>12 DEF receiveInternal, resendAck, receiveMessage, receiveUnsaved, receiveSkipped
  <2> QED BY <2>1, <2>3, <2>4 DEF TypeInv, TypeOK
<1>13. ASSUME NEW m \in Messages, duplicate(m)
       PROVE  TypeInv'
  <2>1. net' \subseteq [type : {"data", "ack"}, msg : Messages]
    BY <1>13 DEF duplicate, Data, TypeInv, TypeOK
  <2> QED BY <1>13, <2>1 DEF duplicate, TypeInv, TypeOK
<1>14. ASSUME NEW p \in net, lose(p)
       PROVE  TypeInv'
  BY <1>14 DEF lose, TypeInv, TypeOK
<1>15. ASSUME NEW side \in {"sender", "receiver"}, removeChannel(side)
       PROVE  TypeInv'
  BY <1>15 DEF removeChannel, TypeInv, TypeOK
<1>16. CASE CrashAndRestart
  <2>1. todo' \in TodoType /\ EndsWell(todo')
    BY <1>16, ResendSteps DEF CrashAndRestart, TypeInv, TypeOK
  <2>2. <<>> \in Seq(Messages)
    OBVIOUS
  <2>3. /\ crashes' \in 0..env.crashes /\ nonce' = savedNonce
        /\ hashes' = {} /\ acked' = {} /\ results' = {} /\ ql' = <<>>
        /\ gpc' = "none" /\ cur' = NoMessage
        /\ UNCHANGED <<senderDB, net, peerVars, removed, sent, created, worldVars>>
    BY <1>16, ProtocolAssumption DEF CrashAndRestart, TypeInv, TypeOK
  <2>4. receiving' \in BOOLEAN
    BY <1>16 DEF CrashAndRestart
  <2> QED BY <2>1, <2>2, <2>3, <2>4 DEF TypeInv, TypeOK, TodoType
<1>17. CASE StartReceive
  BY <1>17 DEF StartReceive, TypeInv, TypeOK
<1>18. CASE UNCHANGED vars
  BY <1>18 DEF vars, TypeInv, TypeOK
<1>19. CASE saveAck \/ savePartnerChannel \/ stopChannel
  <2>1. Len(delivered) \in Nat
    BY DEF TypeInv, TypeOK
  <2>2. CASE saveAck
    BY <2>2 DEF saveAck, TypeInv, TypeOK
  <2>3. CASE savePartnerChannel
    BY <2>1, <2>3 DEF savePartnerChannel, TypeInv, TypeOK
  <2>4. CASE stopChannel
    BY <2>4 DEF stopChannel, TypeInv, TypeOK
  <2> QED BY <1>19, <2>2, <2>3, <2>4
<1>20. CASE crashPartner
  <2>1. /\ delivered' \in Seq(Messages) /\ Len(delivered') = saved
        /\ saved \in Nat
        /\ {delivered[i] : i \in (saved + 1)..Len(delivered)} \subseteq Messages
    BY <1>20, PrefixFacts DEF crashPartner, TypeInv, TypeOK
  <2>2. lapsed' \subseteq Messages /\ peerCrashes' \in 0..env.peerCrashes
    BY <1>20, <2>1, ProtocolAssumption DEF crashPartner, TypeInv, TypeOK
  <2> QED BY <1>20, <2>1, <2>2 DEF crashPartner, TypeInv, TypeOK
<1> QED BY <1>1, <1>2, <1>3, <1>4, <1>5, <1>6, <1>7, <1>8, <1>9, <1>10, <1>11,
           <1>12, <1>13, <1>14, <1>15, <1>16, <1>17, <1>18, <1>19, <1>20
        DEF Next, eventLoop, goroutine, partner

\* The strengthened type invariant holds.
LEMMA TypeInvariant == Spec => []TypeInv
<1>1. Init => TypeInv
  <2>1. Len(<<>>) = 0 /\ <<>> \in Seq(Messages) /\ <<>> \in Seq([op : Ops, msg : Messages])
    OBVIOUS
  <2>2. ASSUME Init PROVE saved \in 0..Len(delivered) /\ delivered \in Seq(Messages)
    BY <2>1, <2>2 DEF Init
  <2>3. ASSUME Init
        PROVE  /\ todo \in Seq([op : Ops, msg : Messages]) /\ ql \in Seq(Messages)
               /\ sent \in Seq(Messages) /\ EndsWell(todo)
    BY <2>1, <2>3 DEF Init, EndsWell
  <2>4. ASSUME Init PROVE receiving \in BOOLEAN /\ stopped \in BOOLEAN
    BY <2>4 DEF Init
  <2>5. ASSUME Init
        PROVE  0 \in 0..MaxMessages /\ 0 \in 0..env.crashes /\ 0 \in 0..env.peerCrashes
    BY <2>5, EnvTyped, ProtocolAssumption DEF Init
  <2>6. ASSUME Init PROVE TypeOK
    BY <2>2, <2>3, <2>4, <2>5, <2>6 DEF Init, TypeOK
  <2>7. ASSUME Init PROVE savedNonce <= nonce /\ nonce <= created /\ gpc = "none"
    BY <2>7 DEF Init
  <2> QED BY <2>3, <2>6, <2>7 DEF TypeInv
<1>2. TypeInv /\ [Next]_vars => TypeInv'
  BY TypeStep
<1> QED BY <1>1, <1>2, PTL DEF Spec

\* The state of the message layer always has its type, and an Ack is noted only
\* for a message whose hash is registered.
THEOREM TypeCorrect == Spec => []TypeOK
<1>1. TypeInv => TypeOK
  BY DEF TypeInv
<1> QED BY <1>1, TypeInvariant, PTL

(***************************************************************************)
(* Keeping a message until it is registered.  An Ack, wherever it is       *)
(* noted, is for a message that the partner has registered, or has itself  *)
(* skipped or forgotten.                                                   *)
(***************************************************************************)
Handled == Range(delivered) \cup lapsed

AckInv ==
    /\ savedAcks \subseteq Handled
    /\ pending # NoMessage => pending \in Handled
    /\ \A p \in net : p.type = "ack" => p.msg \in Handled
    /\ acked \subseteq Handled
    /\ results \subseteq Handled

\* What the partner has handled stays handled: a message that its crash takes
\* away is then one it has forgotten.
LEMMA HandledGrows ==
    ASSUME TypeInv, [Next]_vars
    PROVE  /\ Handled \subseteq Handled'
           /\ \A m \in Messages :
                 receiveMessage(m) \/ receiveUnsaved(m) \/ receiveSkipped(m) => m \in Handled'
<1> USE DEF senderDB, loopVars, queueVars, peerVars, worldVars, histVars
<1>1. ASSUME UNCHANGED <<delivered, lapsed>> PROVE Handled \subseteq Handled'
  BY <1>1 DEF Handled
<1>2. ASSUME NEW m \in Messages, receiveMessage(m) \/ receiveUnsaved(m)
      PROVE  Handled \subseteq Handled' /\ m \in Handled'
  <2>1. Range(Append(delivered, m)) = Range(delivered) \cup {m}
    BY RangeAppend DEF TypeInv, TypeOK
  <2> QED BY <1>2, <2>1 DEF receiveMessage, receiveUnsaved, Handled
<1>3. ASSUME NEW m \in Messages, receiveSkipped(m)
      PROVE  Handled \subseteq Handled' /\ m \in Handled'
  BY <1>3 DEF receiveSkipped, Handled
<1>4. ASSUME crashPartner PROVE Handled \subseteq Handled'
  <2>1. Range(delivered) = Range(delivered')
                             \cup {delivered[i] : i \in (saved + 1)..Len(delivered)}
    BY <1>4, PrefixFacts DEF crashPartner, TypeInv, TypeOK
  <2>2. lapsed' = lapsed \cup {delivered[i] : i \in (saved + 1)..Len(delivered)}
    BY <1>4 DEF crashPartner
  <2> QED BY <2>1, <2>2 DEF Handled
<1>5. Handled \subseteq Handled'
  BY <1>1, <1>2, <1>3, <1>4
     DEF Next, eventLoop, goroutine, partner, receiveInternal, CreateMessage,
         UpdateChannel, NewSentEnvelopMessager, sendWithResult,
         processSentMessageState, handleSentMessage, takeMessage, foundEmpty,
         waitForWakeUp, sendRaw, sendExpired, sendSuccess, resendTimeout,
         receiveAck, resendAck, duplicate, lose, removeChannel, CrashAndRestart,
         StartReceive, saveAck, savePartnerChannel, stopChannel, vars
<1> QED BY <1>2, <1>3, <1>5

\* Every step keeps both.
LEMMA AckStep ==
    ASSUME TypeInv, AckInv, KeptUnlessLapsed, [Next]_vars
    PROVE  AckInv' /\ KeptUnlessLapsed'
<1> USE DEF senderDB, loopVars, queueVars, peerVars, worldVars, histVars
<1>0. /\ Handled \subseteq Handled'
      /\ \A m \in Messages :
            receiveMessage(m) \/ receiveUnsaved(m) \/ receiveSkipped(m) => m \in Handled'
  BY HandledGrows
<1>k. KeptUnlessLapsed <=> \A m \in Range(sent) : m \in envelopes \/ m \in Handled
  BY DEF KeptUnlessLapsed, Handled
<1>l. KeptUnlessLapsed' <=> \A m \in Range(sent') : m \in envelopes' \/ m \in Handled'
  BY DEF KeptUnlessLapsed, Handled
<1>1. ASSUME UNCHANGED <<sent, envelopes, net, acked, results, savedAcks, pending>>
      PROVE  AckInv' /\ KeptUnlessLapsed'
  BY <1>0, <1>1, <1>k, <1>l DEF AckInv
<1>2. CASE NewSentEnvelopMessager
  <2>1. todo[1].msg \in Messages
    BY <1>2, NextStepTyped DEF NewSentEnvelopMessager
  <2>2. Range(sent') \subseteq Range(sent) \cup {todo[1].msg}
    <3>1. Range(Append(sent, todo[1].msg)) = Range(sent) \cup {todo[1].msg}
      BY <2>1, RangeAppend DEF TypeInv, TypeOK
    <3> QED BY <1>2, <3>1 DEF NewSentEnvelopMessager
  <2>3. AckInv'
    BY <1>0, <1>2 DEF NewSentEnvelopMessager, AckInv
  <2> QED BY <1>0, <1>2, <1>k, <1>l, <2>2, <2>3 DEF NewSentEnvelopMessager
<1>3. ASSUME NEW m \in Messages, handleSentMessage(m)
      PROVE  AckInv' /\ KeptUnlessLapsed'
  BY <1>0, <1>3, <1>k, <1>l DEF handleSentMessage, AckInv
<1>4. CASE sendRaw
  BY <1>0, <1>4, <1>k, <1>l DEF sendRaw, Data, AckInv
<1>5. CASE sendExpired \/ sendSuccess
  BY <1>0, <1>5, <1>k, <1>l DEF sendExpired, sendSuccess, AckInv
<1>6. ASSUME NEW m \in Messages, receiveAck(m)
      PROVE  AckInv' /\ KeptUnlessLapsed'
  <2>1. m \in Handled
    BY <1>6 DEF receiveAck, Ack, AckInv
  <2> QED BY <1>0, <1>6, <1>k, <1>l, <2>1 DEF receiveAck, AckInv
<1>7. ASSUME NEW m \in Messages, receiveInternal(m)
      PROVE  AckInv' /\ KeptUnlessLapsed'
  <2>1. m \in Handled'
    <3>1. CASE resendAck(m)
      BY <1>0, <3>1 DEF resendAck, AckInv
    <3> QED BY <1>0, <1>7, <3>1 DEF receiveInternal
  <2>2. /\ net' \subseteq net \cup {Ack(m)} /\ Ack(m).msg = m
        /\ savedAcks' \subseteq savedAcks \cup {m} /\ pending' \in {pending, m}
        /\ UNCHANGED <<acked, results, sent, envelopes>>
    BY <1>7 DEF receiveInternal, resendAck, receiveMessage, receiveUnsaved, receiveSkipped, Ack
  <2> QED BY <1>0, <1>k, <1>l, <2>1, <2>2 DEF AckInv
<1>8. ASSUME NEW m \in Messages, duplicate(m)
      PROVE  AckInv' /\ KeptUnlessLapsed'
  BY <1>0, <1>8, <1>k, <1>l DEF duplicate, Data, AckInv
<1>9. ASSUME NEW p \in net, lose(p)
      PROVE  AckInv' /\ KeptUnlessLapsed'
  BY <1>0, <1>9, <1>k, <1>l DEF lose, AckInv
<1>10. CASE CrashAndRestart
  <2>1. /\ acked' = {} /\ results' = {}
        /\ UNCHANGED <<peerVars, net, sent, envelopes>>
    BY <1>10 DEF CrashAndRestart
  <2> QED BY <1>0, <1>k, <1>l, <2>1 DEF AckInv
<1>11. CASE saveAck \/ crashPartner
  <2>1. /\ savedAcks' \subseteq savedAcks \cup ({pending} \ {NoMessage})
        /\ pending' = NoMessage
        /\ UNCHANGED <<acked, results, sent, envelopes, net>>
    BY <1>11 DEF saveAck, crashPartner
  <2> QED BY <1>0, <1>k, <1>l, <2>1 DEF AckInv
<1> QED
  BY <1>1, <1>2, <1>3, <1>4, <1>5, <1>6, <1>7, <1>8, <1>9, <1>10, <1>11
     DEF Next, eventLoop, goroutine, partner, CreateMessage, UpdateChannel, sendWithResult,
         processSentMessageState, takeMessage, foundEmpty, waitForWakeUp,
         resendTimeout, removeChannel, StartReceive, savePartnerChannel, stopChannel, vars

\* Through any number of losses, duplicates, retries, crashes and restarts of
\* both ends, and with either order of saving, the sender deletes no message
\* that the partner has neither registered nor itself skipped or forgotten.
THEOREM KeptTheorem == Spec => []KeptUnlessLapsed
<1>1. Init => AckInv /\ KeptUnlessLapsed
  BY DEF Init, AckInv, KeptUnlessLapsed, Range
<1>2. /\ TypeInv /\ AckInv /\ KeptUnlessLapsed /\ [Next]_vars
      => AckInv' /\ KeptUnlessLapsed'
  BY AckStep
<1> QED BY <1>1, <1>2, TypeInvariant, PTL DEF Spec

(***************************************************************************)
(* Delivery in order, when the channel is saved before the message.  The   *)
(* saved messages have growing nonces up to the saved one, the registered  *)
(* ones are the first of them, and everything that is queued or in flight  *)
(* was saved before.  What the event loop still has to do is either to     *)
(* send what was saved, or begins with a message newer than all of them.   *)
(***************************************************************************)
Fresh(m) ==
    /\ m.nonce = nonce
    /\ \A i \in 1..Len(sent) : sent[i].nonce < m.nonce
    /\ \A i \in 1..Len(todo) :
          todo[i].msg = m /\ (todo[i].op = "UpdateChannel" => i = 1)
    /\ \/ /\ Len(todo) >= 2
          /\ todo[1].op = "UpdateChannel"
          /\ todo[2].op = "NewSentEnvelopMessager"
       \/ /\ Len(todo) >= 1
          /\ todo[1].op = "NewSentEnvelopMessager"
          /\ savedNonce = nonce

Resending ==
    \A i \in 1..Len(todo) :
        todo[i].msg \in Range(sent) /\ todo[i].op # "UpdateChannel"

SentInv ==
    /\ \A i, j \in 1..Len(sent) : i < j => sent[i].nonce < sent[j].nonce
    /\ \A i \in 1..Len(sent) : sent[i].nonce <= savedNonce

PrefixInv ==
    /\ Len(delivered) <= Len(sent)
    /\ \A i \in 1..Len(delivered) : delivered[i] = sent[i]

FlightInv ==
    /\ envelopes \subseteq Range(sent)
    /\ Range(ql) \subseteq Range(sent)
    /\ gpc \in {"sending", "awaitAck"} => cur \in Range(sent)
    /\ \A p \in net : p.msg \in Range(sent)
    /\ savedAcks \subseteq Range(sent) /\ lapsed \subseteq Range(sent)
    /\ pending # NoMessage => pending \in Range(sent)

LoopInv == Resending \/ \E m \in Messages : Fresh(m)

OrderInv == SentInv /\ PrefixInv /\ FlightInv /\ LoopInv

\* A saved message with the nonce the partner expects is the first one that it
\* has not registered.
LEMMA NextIsFirstMissing ==
    ASSUME TypeInv, SentInv, PrefixInv,
           NEW m \in Range(sent), m.nonce = partnerNonce + 1
    PROVE  Len(delivered) < Len(sent) /\ m = sent[Len(delivered) + 1]
<1>1. /\ sent \in Seq(Messages) /\ delivered \in Seq(Messages)
      /\ Len(sent) \in Nat /\ Len(delivered) \in Nat
  BY DEF TypeInv, TypeOK
<1>2. \A i \in 1..Len(sent) : sent[i].nonce \in Nat \ {0}
  <2>1. \A i \in 1..Len(sent) : sent[i] \in Messages
    BY <1>1
  <2> QED BY <2>1 DEF Messages
<1>3. PICK k \in 1..Len(sent) : sent[k] = m
  BY <1>1 DEF Range
<1> DEFINE d == Len(delivered)
<1>4. CASE d = 0
  <2>1. delivered = <<>>
    BY <1>1, <1>4
  <2>2. sent[k].nonce = 1
    BY <1>3, <2>1 DEF partnerNonce
  <2>3. 1 \in 1..Len(sent) /\ sent[1].nonce >= 1
    BY <1>1, <1>2, <1>3
  <2>4. k = 1
    BY <1>1, <1>2, <1>3, <2>2, <2>3 DEF SentInv
  <2> QED BY <1>1, <1>3, <1>4, <2>4
<1>5. CASE d # 0
  <2>1. delivered # <<>>
    BY <1>1, <1>5
  <2>2. d \in 1..d /\ d \in 1..Len(sent) /\ d \in Nat
    BY <1>1, <1>5 DEF PrefixInv
  <2>3. sent[k].nonce = sent[d].nonce + 1
    BY <1>3, <2>1, <2>2 DEF partnerNonce, PrefixInv
  <2>4. k > d
    BY <1>1, <1>2, <1>3, <2>2, <2>3 DEF SentInv
  <2>5. d + 1 \in 1..Len(sent) /\ sent[d].nonce < sent[d + 1].nonce
    BY <1>1, <2>2, <2>4 DEF SentInv
  <2>6. sent[d + 1].nonce >= sent[k].nonce
    BY <1>2, <2>2, <2>3, <2>5
  <2>7. k = d + 1
    BY <1>1, <1>2, <2>2, <2>4, <2>5, <2>6 DEF SentInv
  <2> QED BY <1>1, <1>3, <2>5, <2>7
<1> QED BY <1>4, <1>5

\* Only NewSentEnvelopMessager, the partner's handler, a crash, the creation of
\* a message and the saving of the channel can disturb the order; the others
\* move messages that were saved before.
LEMMA OrderStep ==
    ASSUME TypeInv, OrderInv, [Next]_vars, ChannelFirst
    PROVE  OrderInv'
<1> USE DEF senderDB, loopVars, queueVars, peerVars, worldVars, histVars
<1>0. /\ sent \in Seq(Messages) /\ delivered \in Seq(Messages)
      /\ ql \in Seq(Messages) /\ todo \in TodoType
      /\ Len(sent) \in Nat /\ Len(delivered) \in Nat /\ Len(todo) \in Nat
      /\ savedNonce \in Nat /\ nonce \in Nat /\ created \in Nat
      /\ savedNonce <= nonce
      /\ SentInv /\ PrefixInv /\ FlightInv /\ LoopInv
  BY DEF TypeInv, TypeOK, TodoType, OrderInv
<1>s. ASSUME UNCHANGED <<sent, savedNonce>> PROVE SentInv'
  BY <1>0, <1>s DEF SentInv
<1>p. ASSUME UNCHANGED <<sent, delivered>> PROVE PrefixInv'
  BY <1>0, <1>p DEF PrefixInv
<1>l. ASSUME UNCHANGED <<sent, nonce, savedNonce, todo>> PROVE LoopInv'
  BY <1>0, <1>l DEF LoopInv, Resending, Fresh
<1>t. ASSUME NEW op, NextStepIs(op)
      PROVE  /\ todo[1].msg \in Messages /\ Len(todo) >= 1 /\ 1 \in 1..Len(todo)
             /\ todo[1].op = op
             /\ Tail(todo) \in TodoType /\ Len(Tail(todo)) = Len(todo) - 1
             /\ \A i \in 1..Len(Tail(todo)) :
                    i + 1 \in 1..Len(todo) /\ Tail(todo)[i] = todo[i + 1]
  <2>1. todo \in Seq([op : Ops, msg : Messages]) /\ todo # <<>>
    BY <1>0, <1>t DEF TodoType, NextStepIs
  <2>2. /\ Len(todo) \in Nat \ {0} /\ Len(Tail(todo)) = Len(todo) - 1
        /\ \A i \in 1..Len(Tail(todo)) :
               i + 1 \in 1..Len(todo) /\ Tail(todo)[i] = todo[i + 1]
    BY <2>1, TailFacts
  <2>3. todo[1].msg \in Messages /\ Tail(todo) \in TodoType
    BY <1>t, NextStepTyped
  <2> QED BY <1>t, <2>2, <2>3 DEF NextStepIs
<1>1. ASSUME NEW order \in env.orders, CreateMessage(order)
      PROVE  OrderInv'
  <2>0. PICK m \in Messages : m = [nonce |-> nonce + 1, id |-> created + 1]
    <3>1. [nonce |-> nonce + 1, id |-> created + 1] \in Messages
      BY <1>1, ProtocolAssumption DEF CreateMessage, TypeInv, TypeOK, Messages
    <3> QED BY <3>1
  <2> DEFINE p == Program(m, "channelFirst")
  <2>1. m.nonce = nonce + 1
    BY <2>0
  <2>2. todo' = p /\ nonce' = nonce + 1 /\ UNCHANGED <<senderDB, queueVars, net, peerVars, sent, worldVars>>
    <3>1. order = "channelFirst"
      BY <1>1 DEF ChannelFirst
    <3> QED BY <1>1, <2>0, <3>1 DEF CreateMessage
  <2>3. /\ Len(p) = 4
        /\ p[1] = [op |-> "UpdateChannel", msg |-> m]
        /\ p[2] = [op |-> "NewSentEnvelopMessager", msg |-> m]
        /\ p[3] = [op |-> "sendWithResult", msg |-> m]
        /\ p[4] = [op |-> "processSentMessageState", msg |-> m]
    BY <2>1, ProgramSteps
  <2> HIDE DEF p
  <2>4. \A i \in 1..Len(sent) : sent[i].nonce < m.nonce
    <3>1. \A i \in 1..Len(sent) : sent[i] \in Messages
      BY <1>0
    <3> QED BY <1>0, <2>1, <3>1 DEF SentInv, Messages
  <2>5. ASSUME NEW i \in 1..Len(todo')
        PROVE  todo'[i].msg = m /\ (todo'[i].op = "UpdateChannel" => i = 1)
    <3>1. i \in {1, 2, 3, 4}
      BY <2>2, <2>3
    <3> QED BY <2>2, <2>3, <3>1
  <2>6. Fresh(m)'
    BY <2>1, <2>2, <2>3, <2>4, <2>5 DEF Fresh
  <2>7. FlightInv'
    BY <1>0, <2>2 DEF FlightInv
  <2> QED BY <1>s, <1>p, <2>1, <2>2, <2>6, <2>7 DEF OrderInv, LoopInv
<1>2. CASE UpdateChannel
  <2>1. PICK m \in Messages : Fresh(m)
    BY <1>0, <1>2, <1>t DEF UpdateChannel, LoopInv, Resending
  <2>2. todo' = Tail(todo) /\ savedNonce' = nonce
        /\ UNCHANGED <<envelopes, nonce, queueVars, net, peerVars, sent, worldVars>>
    BY <1>2 DEF UpdateChannel
  <2>3. todo[1].op = "UpdateChannel" /\ Len(todo) >= 2
        /\ todo[2].op = "NewSentEnvelopMessager"
    BY <1>2, <1>t, <2>1 DEF UpdateChannel, Fresh
  <2>4. /\ Len(todo') = Len(todo) - 1
        /\ \A i \in 1..Len(todo') : i + 1 \in 1..Len(todo) /\ todo'[i] = todo[i + 1]
    BY <1>2, <1>t, <2>2 DEF UpdateChannel
  <2>5. Fresh(m)'
    <3>1. todo'[1] = todo[2] /\ Len(todo') >= 1
      BY <1>0, <2>3, <2>4
    <3>2. ASSUME NEW i \in 1..Len(todo')
          PROVE  todo'[i].msg = m /\ (todo'[i].op = "UpdateChannel" => i = 1)
      <4>1. i + 1 \in 1..Len(todo) /\ todo'[i] = todo[i + 1] /\ i + 1 # 1
        BY <1>0, <2>4
      <4> QED BY <2>1, <4>1 DEF Fresh
    <3> QED BY <2>1, <2>2, <2>3, <3>1, <3>2 DEF Fresh
  <2>6. SentInv' /\ PrefixInv' /\ FlightInv'
    <3>1. \A i \in 1..Len(sent) : sent[i] \in Messages
      BY <1>0
    <3>2. ASSUME NEW i \in 1..Len(sent) PROVE sent[i].nonce <= nonce
      <4>1. sent[i].nonce \in Nat /\ sent[i].nonce <= savedNonce
        BY <1>0, <3>1 DEF SentInv, Messages
      <4> QED BY <1>0, <4>1
    <3> QED BY <1>0, <2>2, <3>2 DEF SentInv, PrefixInv, FlightInv
  <2> QED BY <2>5, <2>6 DEF OrderInv, LoopInv
<1>3. CASE NewSentEnvelopMessager
  <2> DEFINE m == todo[1].msg
  <2>0. /\ m \in Messages /\ todo' = Tail(todo) /\ envelopes' = envelopes \cup {m}
        /\ sent' = IF m \in Range(sent) THEN sent ELSE Append(sent, m)
        /\ UNCHANGED <<savedNonce, nonce, queueVars, net, peerVars, worldVars>>
    BY <1>3, <1>t DEF NewSentEnvelopMessager
  <2>1. /\ Len(todo') = Len(todo) - 1
        /\ \A i \in 1..Len(todo') : i + 1 \in 1..Len(todo) /\ todo'[i] = todo[i + 1]
    BY <1>3, <1>t, <2>0 DEF NewSentEnvelopMessager
  <2>2. CASE Resending
    <3>1. m \in Range(sent)
      BY <1>3, <1>t, <2>2 DEF NewSentEnvelopMessager, Resending
    <3>2. sent' = sent
      BY <2>0, <3>1
    <3>3. Resending'
      BY <2>1, <2>2, <3>2 DEF Resending
    <3>4. FlightInv'
      BY <1>0, <2>0, <3>1, <3>2 DEF FlightInv
    <3> QED BY <1>s, <1>p, <2>0, <3>2, <3>3, <3>4 DEF OrderInv, LoopInv
  <2>3. CASE \E f \in Messages : Fresh(f)
    <3>1. PICK f \in Messages : Fresh(f)
      BY <2>3
    <3>2. f = m
      BY <1>3, <1>t, <3>1 DEF NewSentEnvelopMessager, Fresh
    <3>3. savedNonce = nonce /\ todo[1].op = "NewSentEnvelopMessager"
      BY <1>3, <1>t, <3>1 DEF NewSentEnvelopMessager, Fresh
    <3>4. m.nonce = nonce /\ \A i \in 1..Len(sent) : sent[i].nonce < m.nonce
      BY <3>1, <3>2 DEF Fresh
    <3>5. m \notin Range(sent)
      <4>1. \A i \in 1..Len(sent) : sent[i] # m
        BY <1>0, <3>4
      <4> QED BY <1>0, <4>1 DEF Range
    <3>6. sent' = Append(sent, m)
      BY <2>0, <3>5
    <3> HIDE DEF m
    <3>7. /\ sent' \in Seq(Messages) /\ Len(sent') = Len(sent) + 1
          /\ \A i \in 1..Len(sent) : sent'[i] = sent[i]
          /\ sent'[Len(sent) + 1] = m
      <4>1. /\ Append(sent, m) \in Seq(Messages)
            /\ Len(Append(sent, m)) = Len(sent) + 1
            /\ \A i \in 1..Len(sent) : Append(sent, m)[i] = sent[i]
            /\ Append(sent, m)[Len(sent) + 1] = m
        BY <1>0, <2>0
      <4> QED BY <3>6, <4>1
    <3>8. Range(sent') = Range(sent) \cup {m}
      BY <1>0, <2>0, <3>6, RangeAppend
    <3>9. SentInv'
      <4>1. ASSUME NEW i \in 1..Len(sent'), NEW j \in 1..Len(sent'), i < j
            PROVE  sent'[i].nonce < sent'[j].nonce
        <5>1. i \in 1..Len(sent) /\ sent'[i] = sent[i]
          BY <1>0, <3>7, <4>1
        <5>2. CASE j = Len(sent) + 1
          BY <3>4, <3>7, <5>1, <5>2
        <5>3. CASE j # Len(sent) + 1
          <6>1. j \in 1..Len(sent) /\ sent'[j] = sent[j]
            BY <1>0, <3>7, <5>3
          <6> QED BY <1>0, <4>1, <5>1, <6>1 DEF SentInv
        <5> QED BY <5>2, <5>3
      <4>2. ASSUME NEW i \in 1..Len(sent')
            PROVE  sent'[i].nonce <= savedNonce
        <5>1. CASE i = Len(sent) + 1
          BY <1>0, <3>3, <3>4, <3>7, <5>1
        <5>2. CASE i # Len(sent) + 1
          <6>1. i \in 1..Len(sent) /\ sent'[i] = sent[i]
            BY <1>0, <3>7, <5>2
          <6> QED BY <1>0, <6>1 DEF SentInv
        <5> QED BY <5>1, <5>2
      <4> QED BY <2>0, <4>1, <4>2 DEF SentInv
    <3>10. PrefixInv'
      BY <1>0, <2>0, <3>7 DEF PrefixInv
    <3>11. FlightInv'
      BY <1>0, <2>0, <3>8 DEF FlightInv
    <3>12. Resending'
      <4>1. ASSUME NEW i \in 1..Len(todo')
            PROVE  todo'[i].msg = m /\ todo'[i].op # "UpdateChannel"
        <5>1. i + 1 \in 1..Len(todo) /\ todo'[i] = todo[i + 1] /\ i + 1 # 1
          BY <1>0, <2>1
        <5> QED BY <3>1, <3>2, <5>1 DEF Fresh
      <4> QED BY <3>8, <4>1 DEF Resending
    <3> QED BY <3>9, <3>10, <3>11, <3>12 DEF OrderInv, LoopInv
  <2> QED BY <1>0, <2>2, <2>3 DEF LoopInv
<1>4. CASE sendWithResult
  <2>1. Resending
    BY <1>0, <1>4, <1>t DEF sendWithResult, LoopInv, Fresh
  <2>2. UNCHANGED <<senderDB, nonce, ql, gpc, cur, net, peerVars, sent, worldVars>>
    BY <1>4 DEF sendWithResult
  <2>3. Tail(todo) # <<>> /\ Tail(todo) \in Seq([op : Ops, msg : Messages])
    BY <1>4, NextStepTyped DEF sendWithResult, TodoType
  <2>4. /\ \A i \in 1..Len(Tail(todo)) :
               i + 1 \in 1..Len(todo) /\ Tail(todo)[i] = todo[i + 1]
        /\ \A i \in 1..Len(Tail(Tail(todo))) :
               i + 1 \in 1..Len(Tail(todo)) /\ Tail(Tail(todo))[i] = Tail(todo)[i + 1]
    BY <1>4, <1>t, <2>3, TailFacts DEF sendWithResult
  <2>5. /\ \A i \in 1..Len(Tail(todo)) :
              Tail(todo)[i].msg \in Range(sent) /\ Tail(todo)[i].op # "UpdateChannel"
    BY <2>1, <2>4 DEF Resending
  <2>6. /\ \A i \in 1..Len(Tail(Tail(todo))) :
              /\ Tail(Tail(todo))[i].msg \in Range(sent)
              /\ Tail(Tail(todo))[i].op # "UpdateChannel"
    BY <2>4, <2>5
  <2>7. todo' = Tail(todo) \/ todo' = Tail(Tail(todo))
    BY <1>4 DEF sendWithResult
  <2>8. Resending'
    BY <2>2, <2>5, <2>6, <2>7 DEF Resending
  <2>9. FlightInv'
    BY <1>0, <2>2 DEF FlightInv
  <2> QED BY <1>s, <1>p, <2>2, <2>8, <2>9 DEF OrderInv, LoopInv
<1>5. CASE processSentMessageState
  <2>1. Resending
    BY <1>0, <1>5, <1>t DEF processSentMessageState, LoopInv, Fresh
  <2>2. /\ todo' = Tail(todo) /\ ql' = Append(ql, todo[1].msg)
        /\ gpc' = IF gpc \in {"none", "waiting"} THEN "loop" ELSE gpc
        /\ UNCHANGED <<senderDB, nonce, cur, net, peerVars, sent, worldVars>>
    BY <1>5 DEF processSentMessageState
  <2>3. todo[1].msg \in Messages /\ todo[1].msg \in Range(sent)
    BY <1>5, <1>t, <2>1 DEF processSentMessageState, Resending
  <2>4. Range(ql') = Range(ql) \cup {todo[1].msg}
    BY <1>0, <2>2, <2>3, RangeAppend
  <2>5. FlightInv'
    BY <1>0, <2>2, <2>3, <2>4 DEF FlightInv
  <2>6. Resending'
    BY <1>5, <1>t, <2>1, <2>2 DEF processSentMessageState, Resending
  <2> QED BY <1>s, <1>p, <2>2, <2>5, <2>6 DEF OrderInv, LoopInv
<1>6. ASSUME NEW m \in Messages, handleSentMessage(m)
      PROVE  OrderInv'
  <2>1. FlightInv'
    BY <1>0, <1>6 DEF handleSentMessage, FlightInv
  <2> QED BY <1>s, <1>p, <1>l, <1>6, <2>1 DEF handleSentMessage, OrderInv
<1>7. CASE takeMessage
  <2>1. /\ Head(ql) \in Range(ql) /\ Range(Tail(ql)) \subseteq Range(ql)
    <3>1. ql # <<>>
      BY <1>7 DEF takeMessage
    <3> QED BY <1>0, <3>1, TailRange
  <2>2. FlightInv'
    BY <1>0, <1>7, <2>1 DEF takeMessage, FlightInv
  <2> QED BY <1>s, <1>p, <1>l, <1>7, <2>2 DEF takeMessage, OrderInv
<1>8. CASE foundEmpty \/ waitForWakeUp \/ resendTimeout \/ sendExpired \/ sendSuccess
  <2>1. FlightInv'
    BY <1>0, <1>8 DEF foundEmpty, waitForWakeUp, resendTimeout, sendExpired, sendSuccess, FlightInv
  <2> QED BY <1>s, <1>p, <1>l, <1>8, <2>1
          DEF foundEmpty, waitForWakeUp, resendTimeout, sendExpired, sendSuccess, OrderInv
<1>9. CASE sendRaw
  <2>1. FlightInv'
    BY <1>0, <1>9 DEF sendRaw, Data, FlightInv
  <2> QED BY <1>s, <1>p, <1>l, <1>9, <2>1 DEF sendRaw, OrderInv
<1>10. ASSUME NEW m \in Messages, receiveAck(m)
       PROVE  OrderInv'
  <2>1. FlightInv'
    BY <1>0, <1>10 DEF receiveAck, FlightInv
  <2> QED BY <1>s, <1>p, <1>l, <1>10, <2>1 DEF receiveAck, OrderInv
<1>11. ASSUME NEW m \in Messages, receiveInternal(m)
       PROVE  OrderInv'
  <2>1. m \in Range(sent)
    BY <1>0, <1>11
       DEF receiveInternal, resendAck, receiveMessage, receiveUnsaved, receiveSkipped, Data, FlightInv
  <2>2. FlightInv'
    <3>1. /\ net' \subseteq net \cup {Ack(m)} /\ Ack(m).msg = m
          /\ savedAcks' \subseteq savedAcks \cup {m} /\ pending' \in {pending, m}
          /\ lapsed' \subseteq lapsed \cup {m}
          /\ UNCHANGED <<senderDB, queueVars, sent>>
      BY <1>11 DEF receiveInternal, resendAck, receiveMessage, receiveUnsaved, receiveSkipped, Ack
    <3> QED BY <1>0, <2>1, <3>1 DEF FlightInv
  <2>3. PrefixInv'
    <3>1. CASE resendAck(m) \/ receiveSkipped(m)
      BY <1>p, <3>1 DEF resendAck, receiveSkipped
    <3>2. CASE receiveMessage(m) \/ receiveUnsaved(m)
      <4>1. Len(delivered) < Len(sent) /\ m = sent[Len(delivered) + 1]
        BY <1>0, <2>1, <3>2, NextIsFirstMissing DEF receiveMessage, receiveUnsaved, CanRegister
      <4>2. /\ Len(Append(delivered, m)) = Len(delivered) + 1
            /\ \A i \in 1..Len(delivered) : Append(delivered, m)[i] = delivered[i]
            /\ Append(delivered, m)[Len(delivered) + 1] = m
        BY <1>0
      <4>3. \A i \in 1..(Len(delivered) + 1) : Append(delivered, m)[i] = sent[i]
        BY <1>0, <4>1, <4>2 DEF PrefixInv
      <4>4. sent' = sent /\ delivered' = Append(delivered, m)
        BY <3>2 DEF receiveMessage, receiveUnsaved
      <4> QED BY <1>0, <4>1, <4>2, <4>3, <4>4 DEF PrefixInv
    <3> QED BY <1>11, <3>1, <3>2 DEF receiveInternal
  <2>4. UNCHANGED <<sent, nonce, savedNonce, todo>>
    BY <1>11 DEF receiveInternal, resendAck, receiveMessage, receiveUnsaved, receiveSkipped
  <2> QED BY <1>s, <1>l, <2>2, <2>3, <2>4 DEF OrderInv
<1>12. ASSUME NEW m \in Messages, duplicate(m)
       PROVE  OrderInv'
  <2>1. FlightInv'
    BY <1>0, <1>12 DEF duplicate, Data, FlightInv
  <2> QED BY <1>s, <1>p, <1>l, <1>12, <2>1 DEF duplicate, OrderInv
<1>13. ASSUME NEW p \in net, lose(p)
       PROVE  OrderInv'
  <2>1. FlightInv'
    BY <1>0, <1>13 DEF lose, FlightInv
  <2> QED BY <1>s, <1>p, <1>l, <1>13, <2>1 DEF lose, OrderInv
<1>14. ASSUME NEW side \in {"sender", "receiver"}, removeChannel(side)
       PROVE  OrderInv'
  <2>1. FlightInv'
    BY <1>0, <1>14 DEF removeChannel, FlightInv
  <2> QED BY <1>s, <1>p, <1>l, <1>14, <2>1 DEF removeChannel, OrderInv
<1>15. CASE CrashAndRestart
  <2>1. PICK s \in Ordered(envelopes) : todo' = Resend(s)
    BY <1>15 DEF CrashAndRestart
  <2>2. envelopes \in SUBSET Messages
    BY DEF TypeInv, TypeOK
  <2>3. \A i \in 1..Len(todo') : todo'[i].msg \in envelopes /\ todo'[i].op # "UpdateChannel"
    BY <2>1, <2>2, ResendSteps
  <2>4. /\ ql' = <<>> /\ gpc' = "none"
        /\ UNCHANGED <<senderDB, net, peerVars, sent, worldVars>>
    BY <1>15 DEF CrashAndRestart
  <2>5. Resending'
    BY <1>0, <2>3, <2>4 DEF Resending, FlightInv
  <2>6. FlightInv'
    <3>1. Range(ql') = {}
      BY <2>4 DEF Range
    <3> QED BY <1>0, <2>4, <3>1 DEF FlightInv
  <2> QED BY <1>s, <1>p, <2>4, <2>5, <2>6 DEF OrderInv, LoopInv
<1>16. CASE StartReceive \/ UNCHANGED vars
  <2>1. FlightInv'
    BY <1>0, <1>16 DEF StartReceive, vars, FlightInv
  <2> QED BY <1>s, <1>p, <1>l, <1>16, <2>1 DEF StartReceive, vars, OrderInv
<1>17. CASE saveAck \/ savePartnerChannel \/ stopChannel
  <2>1. FlightInv'
    BY <1>0, <1>17 DEF saveAck, savePartnerChannel, stopChannel, FlightInv
  <2> QED BY <1>s, <1>p, <1>l, <1>17, <2>1 DEF saveAck, savePartnerChannel, stopChannel, OrderInv
<1>18. CASE crashPartner
  <2>1. /\ Len(delivered') = saved /\ saved \in 0..Len(delivered)
        /\ \A i \in 1..saved : delivered'[i] = delivered[i]
    BY <1>18, PrefixFacts DEF crashPartner, TypeInv, TypeOK
  <2>2. UNCHANGED <<senderDB, loopVars, queueVars, sent, net, savedAcks>>
        /\ pending' = NoMessage
    BY <1>18 DEF crashPartner
  <2>3. PrefixInv'
    BY <1>0, <2>1, <2>2 DEF PrefixInv
  <2>4. lapsed' \subseteq Range(sent)
    <3>1. ASSUME NEW i \in (saved + 1)..Len(delivered) PROVE delivered[i] \in Range(sent)
      <4>1. i \in 1..Len(delivered) /\ i \in 1..Len(sent)
        BY <1>0, <2>1, <3>1 DEF PrefixInv
      <4>2. delivered[i] = sent[i] /\ i \in DOMAIN sent
        BY <1>0, <4>1 DEF PrefixInv
      <4> QED BY <4>2 DEF Range
    <3> QED BY <1>0, <1>18, <3>1 DEF crashPartner, FlightInv
  <2>5. FlightInv'
    BY <1>0, <2>2, <2>4 DEF FlightInv
  <2> QED BY <1>s, <1>l, <2>2, <2>3, <2>5 DEF OrderInv
<1> QED BY <1>1, <1>2, <1>3, <1>4, <1>5, <1>6, <1>7, <1>8, <1>9, <1>10, <1>11,
           <1>12, <1>13, <1>14, <1>15, <1>16, <1>17, <1>18
        DEF Next, eventLoop, goroutine, partner

\* The environment never changes.
LEMMA EnvStep ==
    ASSUME [Next]_vars
    PROVE  env' = env
BY DEF Next, eventLoop, goroutine, partner, receiveInternal, CreateMessage,
       UpdateChannel, NewSentEnvelopMessager, sendWithResult,
       processSentMessageState, handleSentMessage, takeMessage, foundEmpty,
       waitForWakeUp, sendRaw, sendExpired, sendSuccess, resendTimeout,
       receiveAck, resendAck, receiveMessage, receiveUnsaved, receiveSkipped,
       duplicate, lose, removeChannel, CrashAndRestart, StartReceive, saveAck,
       savePartnerChannel, crashPartner, stopChannel, vars, histVars, worldVars

\* The saved messages of a node that saves its channel first keep their order.
OrderWhenChannelFirst == ChannelFirst => OrderInv

LEMMA OrderInvariant == Spec => [](TypeInv /\ OrderWhenChannelFirst)
<1>1. Init => OrderWhenChannelFirst
  BY DEF Init, OrderWhenChannelFirst, OrderInv, SentInv, PrefixInv, FlightInv,
         LoopInv, Resending, Range
<1>2. TypeInv /\ OrderWhenChannelFirst /\ [Next]_vars => OrderWhenChannelFirst'
  <2> SUFFICES ASSUME TypeInv, OrderWhenChannelFirst, [Next]_vars, ChannelFirst'
               PROVE  OrderInv'
    BY DEF OrderWhenChannelFirst
  <2>1. ChannelFirst
    BY EnvStep DEF ChannelFirst
  <2> QED BY <2>1, OrderStep DEF OrderWhenChannelFirst
<1> QED BY <1>1, <1>2, TypeInvariant, PTL DEF Spec

\* Every step of the protocol is a step of the abstract delivery or leaves both
\* of its sequences alone.
LEMMA DeliveryStep ==
    ASSUME TypeInv, OrderInv, [Next]_vars, ChannelFirst
    PROVE  [Abstract!Next]_(Abstract!vars)
<1> USE DEF senderDB, loopVars, queueVars, peerVars, worldVars, histVars
<1>0. ChannelFirst /\ ChannelFirst'
  BY EnvStep DEF ChannelFirst
<1>1. ASSUME UNCHANGED <<sent, delivered, saved>>
      PROVE  [Abstract!Next]_(Abstract!vars)
  BY <1>0, <1>1 DEF Abstract!vars
<1>2. CASE NewSentEnvelopMessager
  <2>1. todo[1].msg \in Messages
    BY <1>2, NextStepTyped DEF NewSentEnvelopMessager
  <2>2. CASE sent' = sent
    BY <1>1, <1>2, <2>2 DEF NewSentEnvelopMessager
  <2>3. CASE sent' = Append(sent, todo[1].msg)
    <3>1. Abstract!Send(todo[1].msg)
      BY <1>0, <1>2, <2>3 DEF NewSentEnvelopMessager, Abstract!Send
    <3> QED BY <2>1, <3>1 DEF Abstract!Next
  <2> QED BY <1>2, <2>2, <2>3 DEF NewSentEnvelopMessager
<1>3. ASSUME NEW m \in Messages, receiveMessage(m) \/ receiveUnsaved(m)
      PROVE  [Abstract!Next]_(Abstract!vars)
  <2>1. m \in Range(sent)
    BY <1>3 DEF receiveMessage, receiveUnsaved, Data, OrderInv, FlightInv
  <2>2. m.nonce = partnerNonce + 1 /\ delivered' = Append(delivered, m)
    BY <1>3 DEF receiveMessage, receiveUnsaved, CanRegister
  <2>3. Len(delivered) < Len(sent) /\ m = sent[Len(delivered) + 1]
    BY <2>1, <2>2, NextIsFirstMissing DEF OrderInv
  <2>4. Len(delivered') = Len(delivered) + 1
    BY <2>2 DEF TypeInv, TypeOK
  <2>5. Abstract!Deliver
    BY <1>0, <1>3, <2>2, <2>3, <2>4 DEF receiveMessage, receiveUnsaved, Abstract!Deliver
  <2> QED BY <2>5 DEF Abstract!Next
<1>5. CASE savePartnerChannel
  BY <1>0, <1>5 DEF savePartnerChannel, Abstract!Save, Abstract!Next
<1>6. CASE crashPartner
  BY <1>0, <1>6 DEF crashPartner, Abstract!Forget, Abstract!Next
<1>4. [Next]_vars
  OBVIOUS
<1> QED
  BY <1>1, <1>2, <1>3, <1>4, <1>5, <1>6
     DEF Next, eventLoop, goroutine, partner, receiveInternal, CreateMessage, UpdateChannel, sendWithResult,
         processSentMessageState, handleSentMessage, takeMessage, foundEmpty,
         waitForWakeUp, sendRaw, sendExpired, sendSuccess, resendTimeout,
         receiveAck, resendAck, receiveSkipped, duplicate, lose, removeChannel,
         CrashAndRestart, StartReceive, saveAck, stopChannel, vars

\* Of a node that does not save its channel first nothing is promised.
LEMMA OtherwiseStep ==
    ASSUME [Next]_vars, ~ ChannelFirst
    PROVE  UNCHANGED Abstract!vars
<1>1. ~ ChannelFirst'
  BY EnvStep DEF ChannelFirst
<1> QED BY <1>1 DEF Abstract!vars

\* A node that saves its channel before its messages implements reliable
\* delivery: however often packets and Acks are lost, repeated or reordered and
\* either end crashes, the partner registers the saved messages in their order,
\* none skipped and none twice except what its own crash took from its channel.
THEOREM DeliveryTheorem == Spec => Delivery
<1>1. Init => Abstract!Init
  BY DEF Init, Abstract!Init
<1>2. TypeInv /\ OrderWhenChannelFirst /\ [Next]_vars => [Abstract!Next]_(Abstract!vars)
  BY DeliveryStep, OtherwiseStep DEF OrderWhenChannelFirst
<1> QED BY <1>1, <1>2, OrderInvariant, PTL DEF Spec, Delivery, Abstract!Spec
=============================================================================
