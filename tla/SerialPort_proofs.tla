------------------------- MODULE SerialPort_proofs -------------------------
(***************************************************************************)
(* Proofs about a serial interface: first the write side, for any callers, *)
(* any request sizes, any capacities and any number of connections, then   *)
(* the receive side and the bounded wait for what it received.             *)
(*                                                                         *)
(* The safety properties of SerialPort are not inductive: they speak of    *)
(* the wire and of the callers, and a step is allowed by what is queued in *)
(* between.  WriteInv adds what ties a queued request to its caller        *)
(* (distinct, still unanswered, bound to this connection) and to the wire  *)
(* (the head has sent exactly `cursor` bytes, the others nothing).         *)
(***************************************************************************)
EXTENDS SerialPort, SerialRx, SerialWait, FiniteSetTheorems, SequenceTheorems, NaturalsInduction,
        WellFoundedInduction, TLAPS

Unsent == {"idle", "queued", "locked", "bounded", "sending", "refused", "busy"}
Served == {"acked", "ok", "replying", "done"}

InChan(c)   == \E k \in 1..Len(chan) : chan[k] = c
InOutbox(c) == \E k \in 1..Len(outbox) : outbox[k] = c

\* No request is queued twice.
Distinct ==
  /\ \A j, k \in 1..Len(chan) : chan[j] = chan[k] => j = k
  /\ \A j, k \in 1..Len(outbox) : outbox[j] = outbox[k] => j = k
  /\ \A j \in 1..Len(chan), k \in 1..Len(outbox) : chan[j] # outbox[k]

\* A queued request has not been answered.
QueuedUnanswered ==
  /\ \A k \in 1..Len(chan) : st[chan[k]] \in {"waiting", "gone"}
  /\ \A k \in 1..Len(outbox) : st[outbox[k]] \in {"waiting", "gone"}

\* The outbox only exists while a port is open, for that connection.
OutboxCurrent ==
  /\ outbox # <<>> => sup \in {"top", "select", "pressing", "lost"}
  /\ \A k \in 1..Len(outbox) : reqGen[outbox[k]] = generation

\* The head of the outbox has sent `cursor` bytes, everything behind it none.
CursorIsSent ==
  /\ outbox = <<>> => cursor = 0
  /\ outbox # <<>> => sent[outbox[1]] = cursor /\ cursor < Size[outbox[1]]
  /\ \A k \in 2..Len(outbox) : sent[outbox[k]] = 0
  /\ \A k \in 1..Len(chan) : sent[chan[k]] = 0

\* What the callers' states say of the wire.
WireAgrees ==
  \A c \in Writers :
    /\ sent[c] = 0 => sentGens[c] = {}
    /\ sent[c] > 0 => sentGens[c] = {reqGen[c]}
    /\ sent[c] <= Size[c]
    /\ st[c] \in Unsent => sent[c] = 0
    /\ st[c] \in Served => sent[c] = Size[c]

\* The callers on the wire are those that sent something, each in one run,
\* and a request in progress is the last of them.
RunsAgree ==
  /\ ContiguousOnWire
  /\ \A k \in 1..Len(runs) : sent[runs[k]] > 0
  /\ cursor > 0 => runs # <<>> /\ outbox # <<>> /\ runs[Len(runs)] = outbox[1]

WriteInv ==
  /\ TypeOK
  /\ Distinct
  /\ QueuedUnanswered
  /\ OutboxCurrent
  /\ CursorIsSent
  /\ WireAgrees
  /\ RunsAgree

-----------------------------------------------------------------------------
(***************************************************************************)
(* Type correctness.                                                       *)
(***************************************************************************)

\* A sequence is empty when its length is zero.
LEMMA LenFacts ==
  ASSUME NEW T, NEW s \in Seq(T)
  PROVE  Len(s) \in Nat /\ (s # <<>> <=> Len(s) > 0)
  OBVIOUS

\* Taking the head off a nonempty queue shifts the rest by one.
LEMMA TailFacts ==
  ASSUME NEW T, NEW s \in Seq(T), s # <<>>
  PROVE  /\ Len(s) \in Nat \ {0}
         /\ Head(s) = s[1]
         /\ s[1] \in T
         /\ Tail(s) \in Seq(T)
         /\ Len(Tail(s)) = Len(s) - 1
         /\ \A k \in 1..Len(Tail(s)) : Tail(s)[k] = s[k + 1]
  OBVIOUS

\* Appending leaves the other positions alone.
LEMMA AppendFacts ==
  ASSUME NEW T, NEW s \in Seq(T), NEW e \in T
  PROVE  /\ Len(s) \in Nat
         /\ Append(s, e) \in Seq(T)
         /\ Len(Append(s, e)) = Len(s) + 1
         /\ \A k \in 1..Len(s) : Append(s, e)[k] = s[k]
         /\ Append(s, e)[Len(s) + 1] = e
  OBVIOUS

\* Removing one position keeps a sequence's type.
LEMMA RemoveType ==
  ASSUME NEW T, NEW s \in Seq(T), NEW k \in 1..Len(s)
  PROVE  SubSeq(s, 1, k - 1) \o SubSeq(s, k + 1, Len(s)) \in Seq(T)
<1>1. Len(s) \in Nat /\ k \in Int /\ \A i \in 1..Len(s) : s[i] \in T
  BY ElementOfSeq
<1>2. SubSeq(s, 1, k - 1) \in Seq(T)
  <2>1. \A i \in 1..(k - 1) : s[i] \in T
    BY <1>1
  <2> QED BY <1>1, <2>1, SubSeqProperties
<1>3. SubSeq(s, k + 1, Len(s)) \in Seq(T)
  <2>1. \A i \in (k + 1)..Len(s) : s[i] \in T
    BY <1>1
  <2> QED BY <1>1, <2>1, SubSeqProperties
<1> QED
  BY <1>2, <1>3, ConcatProperties

\* A reply changes the state of waiting callers only, to the reply.
LEMMA ReplyFacts ==
  ASSUME TypeOK, NEW S, NEW r \in {"acked", "nacked"}, Reply(S, r)
  PROVE  /\ st' \in [Writers -> InputStates \cup TxnStates]
         /\ \A c \in Writers :
              st'[c] = IF c \in S /\ st[c] = "waiting" THEN r ELSE st[c]
  BY DEF TypeOK, Reply, InputStates, TxnStates

\* A caller named by the callers' assumption is a writer with a size.
LEMMA SliceFacts ==
  ASSUME TypeOK, outbox # <<>>
  PROVE  /\ Head(outbox) = outbox[1]
         /\ outbox[1] \in Writers
         /\ Slice \in Int
         /\ Slice <= WriteChunk
         /\ Slice <= Size[outbox[1]] - cursor
<1>1. outbox[1] \in Writers /\ Head(outbox) = outbox[1]
  BY DEF TypeOK
<1>2. Size[outbox[1]] \in Nat \ {0}
  BY <1>1, CallersAssumption
<1>3. Slice \in {1, WriteChunk, Size[outbox[1]] - cursor} /\ cursor \in Int
  BY <1>1 DEF Slice, TypeOK
<1>4. /\ Slice <= WriteChunk
      /\ Slice <= Size[outbox[1]] - cursor
  <2> DEFINE most == IF outbox[1] \in Paced THEN 1 ELSE WriteChunk
             left == Size[outbox[1]] - cursor
  <2>1. most \in Int /\ most <= WriteChunk /\ left \in Int
    BY <1>2, <1>3, BoundsAssumption
  <2>2. Slice = IF most < left THEN most ELSE left
    BY <1>1 DEF Slice
  <2> QED BY <2>1, <2>2, BoundsAssumption
<1> QED
  BY <1>1, <1>2, <1>3, <1>4, BoundsAssumption

\* The supervisor keeps every variable in its type.
LEMMA SupervisorType ==
  ASSUME TypeOK, Supervisor
  PROVE  TypeOK'
<1> USE CallersAssumption, BoundsAssumption
<1>1. CASE OpenOk
  <2>1. generation' \in Nat
    BY <1>1 DEF TypeOK, OpenOk
  <2>2. connected' \in BOOLEAN /\ dtr' \in BOOLEAN
    BY <1>1 DEF OpenOk
  <2> QED
    BY <1>1, <2>1, <2>2 DEF TypeOK, OpenOk, queueVars, callVars, lockVars, wireVars, SupStates
<1>2. CASE OpenFail
  BY <1>2 DEF TypeOK, OpenFail, queueVars, callVars, lockVars, dtrVars, wireVars, SupStates
<1>3. CASE BackoffRefuse
  <2>1. st' \in [Writers -> InputStates \cup TxnStates]
    BY <1>3, ReplyFacts DEF BackoffRefuse
  <2>2. chan' \in Seq(Writers)
    BY <1>3, TailFacts DEF BackoffRefuse, TypeOK
  <2> QED
    BY <1>3, <2>1, <2>2 DEF TypeOK, BackoffRefuse, portVars, lockVars, dtrVars, wireVars
<1>4. CASE BackoffEnd
  BY <1>4 DEF TypeOK, BackoffEnd, queueVars, callVars, lockVars, dtrVars, wireVars, SupStates
<1>5. CASE DiscardCancelled
  <2>1. outbox' \in Seq(Writers) /\ Head(outbox) \in Writers
    BY <1>5, TailFacts DEF DiscardCancelled, TypeOK
  <2>2. pending' \in Int
    BY <1>5, <2>1 DEF DiscardCancelled, TypeOK
  <2> QED
    BY <1>5, <2>1, <2>2 DEF TypeOK, DiscardCancelled, portVars, callVars, lockVars, dtrVars, wireVars
<1>6. CASE EnterSelect
  BY <1>6 DEF TypeOK, EnterSelect, queueVars, callVars, lockVars, dtrVars, wireVars, SupStates
<1>7. CASE ReadArm
  BY <1>7 DEF TypeOK, ReadArm, queueVars, callVars, lockVars, dtrVars, wireVars, SupStates
<1>8. CASE WriteArm
  <2>1. PICK n \in 1..Slice : Consume(n)
    BY <1>8 DEF WriteArm
  <2>2. n \in Nat /\ Head(outbox) \in Writers
    BY <1>8, <2>1, SliceFacts DEF WriteArm
  <2>3. /\ sent' \in [Writers -> Nat]
        /\ sentGens' \in [Writers -> SUBSET Nat]
        /\ intruded' \in [Txns -> Nat]
    <3>1. sent' \in [Writers -> Nat]
      <4>1. sent' = [sent EXCEPT ![Head(outbox)] = @ + n]
        BY <2>1 DEF Consume
      <4>2. sent \in [Writers -> Nat]
        BY DEF TypeOK
      <4> QED BY <2>2, <4>1, <4>2
    <3>2. sentGens' \in [Writers -> SUBSET Nat]
      BY <2>1, <2>2 DEF TypeOK, Consume
    <3>3. intruded' \in [Txns -> Nat]
      <4>1. intruded' \in {intruded, [intruded EXCEPT ![holder] = @ + n]}
        BY <2>1 DEF Consume
      <4>2. intruded \in [Txns -> Nat]
        BY DEF TypeOK
      <4> QED BY <2>2, <4>1, <4>2
    <3> QED BY <3>1, <3>2, <3>3
  <2>4. runs' \in Seq(Writers) /\ outbox' \in Seq(Writers)
    <3>1. Append(runs, Head(outbox)) \in Seq(Writers) /\ Tail(outbox) \in Seq(Writers)
      BY <1>8, <2>2, TailFacts, AppendFacts DEF WriteArm, TypeOK
    <3> QED BY <2>1, <3>1 DEF TypeOK, Consume
  <2>5. cursor' \in Nat /\ pending' \in Int
    <3>1. pending' = pending - n /\ cursor' \in {0, cursor + n}
      BY <2>1 DEF Consume
    <3> QED BY <2>2, <3>1 DEF TypeOK
  <2>6. paceWait' \in BOOLEAN
    BY <2>1 DEF Consume
  <2>7. st' \in [Writers -> InputStates \cup TxnStates]
    BY <2>1, ReplyFacts DEF TypeOK, Consume
  <2> QED
    BY <1>8, <2>3, <2>4, <2>5, <2>6, <2>7 DEF TypeOK, WriteArm, lockVars, dtrVars, SupStates
<1>9. CASE PaceTick
  BY <1>9 DEF TypeOK, PaceTick, callVars, lockVars, dtrVars, wireVars, SupStates
<1>10. CASE RequestArm
  <2>1. chan' \in Seq(Writers) /\ Head(chan) \in Writers
    BY <1>10, TailFacts DEF RequestArm, TypeOK
  <2>2. /\ outbox' \in Seq(Writers)
        /\ pending' \in Int
        /\ st' \in [Writers -> InputStates \cup TxnStates]
    <3>1. CASE Current(Head(chan))
      <4>1. /\ outbox' = Append(outbox, Head(chan))
            /\ pending' = pending + Size[Head(chan)]
            /\ st' = st
        BY <1>10, <3>1 DEF RequestArm, Enqueued
      <4>2. Append(outbox, Head(chan)) \in Seq(Writers)
        BY <2>1, AppendFacts DEF TypeOK
      <4>3. Size[Head(chan)] \in Int
        BY <2>1, CallersAssumption
      <4>4. pending \in Int /\ st \in [Writers -> InputStates \cup TxnStates]
        BY DEF TypeOK
      <4>5. pending' \in Int
        BY <4>1, <4>3, <4>4
      <4> QED BY <4>1, <4>2, <4>4, <4>5
    <3>2. CASE ~Current(Head(chan))
      BY <1>10, <3>2, ReplyFacts DEF RequestArm, TypeOK
    <3> QED BY <3>1, <3>2
  <2> QED
    BY <1>10, <2>1, <2>2 DEF TypeOK, RequestArm, lockVars, dtrVars, wireVars, SupStates
<1>11. CASE PressArm
  <2>1. dtrChan' \in Seq(Pressers) /\ pressing' \in Pressers
    BY <1>11, TailFacts DEF PressArm, TypeOK
  <2> QED
    BY <1>11, <2>1 DEF TypeOK, PressArm, SetDtr, queueVars, callVars, lockVars, wireVars, SupStates
<1>12. CASE PressOk
  BY <1>12 DEF TypeOK, PressOk, AnswerPress, queueVars, callVars, lockVars, wireVars, SupStates, PressStates
<1>13. CASE PressFail
  BY <1>13 DEF TypeOK, PressFail, AnswerPress, SetDtr, queueVars, callVars, lockVars, wireVars, SupStates, PressStates
<1>14. CASE Disconnect
  BY <1>14 DEF TypeOK, Disconnect, queueVars, callVars, lockVars, dtrVars, wireVars, SupStates
<1>15. CASE DropOutbox
  <2>1. st' \in [Writers -> InputStates \cup TxnStates]
    BY <1>15, ReplyFacts DEF DropOutbox
  <2>2. outbox' \in Seq(Writers) /\ cursor' \in Nat /\ pending' \in Int
    BY <1>15 DEF DropOutbox
  <2>3. paceWait' \in BOOLEAN
    BY <1>15 DEF DropOutbox
  <2> QED
    BY <1>15, <2>1, <2>2, <2>3 DEF TypeOK, DropOutbox, lockVars, dtrVars, wireVars, SupStates
<1> QED
  BY <1>1, <1>2, <1>3, <1>4, <1>5, <1>6, <1>7, <1>8, <1>9, <1>10, <1>11,
     <1>12, <1>13, <1>14, <1>15 DEF Supervisor

\* A caller's step does too.
LEMMA CallersType ==
  ASSUME TypeOK, Callers
  PROVE  TypeOK'
<1> USE CallersAssumption DEF TypeOK, portVars, queueVars, callVars, lockVars,
      dtrVars, wireVars, InputStates, TxnStates, PressStates, Writers
<1>1. ASSUME NEW c \in Writers, Enqueue(c) PROVE TypeOK'
  <2>1. chan' \in Seq(Writers)
    BY <1>1, AppendFacts DEF Enqueue
  <2> QED BY <1>1, <2>1 DEF Enqueue
<1>2. ASSUME NEW i \in Inputs, TryInput(i) PROVE TypeOK'
  <2>1. reqGen' \in [Writers -> Nat]
    <3>1. reqGen' \in {reqGen, [reqGen EXCEPT ![i] = generation]}
      BY <1>2 DEF TryInput, BeginWrite
    <3> QED BY <3>1
  <2>2. /\ st' \in [Writers -> InputStates \cup TxnStates]
        /\ readers' \subseteq Inputs
    BY <1>2 DEF TryInput, BeginWrite
  <2> QED BY <1>2, <2>1, <2>2 DEF TryInput
<1>3. ASSUME NEW i \in Inputs, FinishInput(i) \/ HangUp(i) PROVE TypeOK'
  BY <1>3 DEF FinishInput, HangUp
<1>4. ASSUME NEW t \in Txns, QueueTxn(t) PROVE TypeOK'
  <2>1. waiters' \in Seq(Txns)
    BY <1>4, AppendFacts DEF QueueTxn
  <2> QED BY <1>4, <2>1 DEF QueueTxn
<1>5. ASSUME NEW t \in Txns, Grant(t) PROVE TypeOK'
  <2>1. waiters' \in Seq(Txns)
    BY <1>5, TailFacts DEF Grant
  <2> QED BY <1>5, <2>1 DEF Grant
<1>6. ASSUME NEW t \in Txns, Expire(t) PROVE TypeOK'
  BY <1>6 DEF Expire
<1>7. ASSUME NEW t \in Txns, GiveUpQueued(t) PROVE TypeOK'
  <2>1. waiters' \in Seq(Txns)
    <3>1. PICK k \in 1..Len(waiters) :
            waiters' = SubSeq(waiters, 1, k - 1) \o SubSeq(waiters, k + 1, Len(waiters))
      BY <1>7 DEF GiveUpQueued
    <3> QED BY <3>1, RemoveType
  <2> QED BY <1>7, <2>1 DEF GiveUpQueued
<1>8. ASSUME NEW t \in Txns, TakeBoundary(t) PROVE TypeOK'
  BY <1>8 DEF TakeBoundary
<1>9. ASSUME NEW t \in Txns, TxnWrite(t) PROVE TypeOK'
  BY <1>9 DEF TxnWrite, BeginWrite
<1>10. ASSUME NEW t \in Txns, AfterWrite(t) PROVE TypeOK'
  BY <1>10 DEF AfterWrite
<1>11. ASSUME NEW t \in Txns, EndTxn(t) PROVE TypeOK'
  BY <1>11 DEF EndTxn
<1>12. ASSUME NEW p \in Pressers, Press(p) \/ QueuePress(p) \/ HangUpPress(p) PROVE TypeOK'
  <2>1. dtrChan' \in Seq(Pressers)
    <3>1. dtrChan' \in {dtrChan, <<p>>}
      BY <1>12 DEF Press, QueuePress, HangUpPress
    <3>2. <<p>> \in Seq(Pressers)
      OBVIOUS
    <3> QED BY <3>1, <3>2
  <2>2. pst' \in [Pressers -> PressStates]
    BY <1>12 DEF Press, QueuePress, HangUpPress
  <2> QED BY <1>12, <2>1, <2>2 DEF Press, QueuePress, HangUpPress
<1> QED
  BY <1>1, <1>2, <1>3, <1>4, <1>5, <1>6, <1>7, <1>8, <1>9, <1>10, <1>11, <1>12
  DEF Callers

\* The initial state is type correct.
LEMMA TypeInit == Init => TypeOK
<1> SUFFICES ASSUME Init PROVE TypeOK
  OBVIOUS
<1>1. connected \in BOOLEAN /\ paceWait \in BOOLEAN /\ dtr \in BOOLEAN
  BY DEF Init
<1>2. /\ chan \in Seq(Writers) /\ outbox \in Seq(Writers) /\ waiters \in Seq(Txns)
      /\ dtrChan \in Seq(Pressers) /\ runs \in Seq(Writers)
  BY DEF Init
<1> QED
  BY <1>1, <1>2 DEF Init, TypeOK, SupStates, InputStates, TxnStates, PressStates

\* Every variable keeps its type, for any callers, sizes and capacities
\* (the supervisor's state, its queues, the lock and the callers' states).
THEOREM TypeCorrect == Spec => []TypeOK
<1>1. Init => TypeOK
  BY TypeInit
<1>2. TypeOK /\ [Next]_vars => TypeOK'
  <2>1. CASE UNCHANGED vars
    BY <2>1 DEF TypeOK, vars, portVars, queueVars, callVars, lockVars, dtrVars, wireVars
  <2> QED
    BY <2>1, SupervisorType, CallersType DEF Next
<1> QED
  BY <1>1, <1>2, PTL DEF Spec

-----------------------------------------------------------------------------
(***************************************************************************)
(* The requests, the queues and the wire.                                  *)
(***************************************************************************)

Open == {"top", "select", "pressing", "lost"}

\* A step that moves no request and puts nothing on the wire keeps WriteInv
\* as long as queued callers stay unanswered, nobody who sent something is
\* bound to another connection, and the callers' new states fit the wire.
LEMMA QuietStep ==
  ASSUME WriteInv, TypeOK',
         UNCHANGED <<chan, outbox, cursor, sent, sentGens, runs>>,
         outbox # <<>> => sup' \in Open /\ generation' = generation,
         \A c \in Writers :
           /\ InChan(c) \/ InOutbox(c) => st'[c] \in {"waiting", "gone"}
           /\ InOutbox(c) \/ sent[c] > 0 => reqGen'[c] = reqGen[c]
           /\ st'[c] \in Unsent => sent[c] = 0
           /\ st'[c] \in Served => sent[c] = Size[c]
  PROVE  WriteInv'
<1>1. /\ \A k \in 1..Len(chan) : chan[k] \in Writers /\ InChan(chan[k])
      /\ \A k \in 1..Len(outbox) : outbox[k] \in Writers /\ InOutbox(outbox[k])
  BY ElementOfSeq DEF WriteInv, TypeOK, InChan, InOutbox
<1>2. Distinct' /\ CursorIsSent' /\ RunsAgree'
  BY DEF WriteInv, Distinct, CursorIsSent, RunsAgree, ContiguousOnWire
<1>3. QueuedUnanswered'
  BY <1>1 DEF QueuedUnanswered
<1>4. OutboxCurrent'
  <2>1. \A k \in 1..Len(outbox) : outbox # <<>>
    BY DEF WriteInv, TypeOK
  <2> QED BY <1>1, <2>1 DEF WriteInv, OutboxCurrent, Open
<1>5. WireAgrees'
  BY DEF WriteInv, WireAgrees
<1> QED BY <1>2, <1>3, <1>4, <1>5 DEF WriteInv

\* What WriteInv says of one writer, in the form QuietStep asks for.
LEMMA WriterFacts ==
  ASSUME WriteInv, NEW c \in Writers
  PROVE  /\ InChan(c) \/ InOutbox(c) => st[c] \in {"waiting", "gone"}
         /\ InOutbox(c) => reqGen[c] = generation
         /\ InChan(c) => sent[c] = 0
         /\ st[c] \in Unsent => sent[c] = 0
         /\ st[c] \in Served => sent[c] = Size[c]
         /\ sent[c] \in Nat /\ sent[c] <= Size[c] /\ Size[c] \in Nat \ {0}
  BY CallersAssumption
  DEF WriteInv, TypeOK, InChan, InOutbox, QueuedUnanswered, OutboxCurrent,
      CursorIsSent, WireAgrees

\* The callers' steps, none of which touches the wire.
LEMMA CallersWrite ==
  ASSUME WriteInv, Callers
  PROVE  WriteInv'
<1> TypeOK /\ TypeOK'
  BY CallersType DEF WriteInv
<1> USE DEF portVars, queueVars, callVars, lockVars, dtrVars, wireVars, Unsent, Served
<1>1. ASSUME NEW c \in Writers, Enqueue(c) PROVE WriteInv'
  <2> DEFINE L == Len(chan)
  <2>1. /\ L \in Nat /\ Len(chan') = L + 1 /\ chan'[L + 1] = c
        /\ \A k \in 1..L : chan'[k] = chan[k]
    BY <1>1, AppendFacts DEF Enqueue, TypeOK
  <2>2. /\ UNCHANGED <<sup, generation, outbox, cursor, sent, sentGens, runs, reqGen>>
        /\ st[c] = "sending"
        /\ st' = [st EXCEPT ![c] = "waiting"]
    BY <1>1 DEF Enqueue
  <2>3. ~InChan(c) /\ ~InOutbox(c) /\ sent[c] = 0
    BY <2>2, WriterFacts
  <2>4. Distinct'
    BY <2>1, <2>2, <2>3 DEF WriteInv, Distinct, InChan, InOutbox
  <2>5. QueuedUnanswered'
    <3>1. /\ \A k \in 1..Len(chan) : chan[k] \in Writers
          /\ \A k \in 1..Len(outbox) : outbox[k] \in Writers
      BY ElementOfSeq DEF TypeOK
    <3>2. st'[c] = "waiting" /\ \A d \in Writers \ {c} : st'[d] = st[d]
      BY <2>2 DEF TypeOK
    <3> QED BY <2>1, <2>2, <3>1, <3>2 DEF WriteInv, QueuedUnanswered
  <2>6. OutboxCurrent'
    BY <2>2 DEF WriteInv, OutboxCurrent
  <2>7. CursorIsSent'
    BY <2>1, <2>2, <2>3 DEF WriteInv, CursorIsSent
  <2>8. WireAgrees'
    BY <2>2, <2>3 DEF WriteInv, WireAgrees, TypeOK
  <2>9. RunsAgree'
    BY <2>2 DEF WriteInv, RunsAgree, ContiguousOnWire
  <2> QED BY <2>4, <2>5, <2>6, <2>7, <2>8, <2>9 DEF WriteInv
<1> DEFINE Quiet == UNCHANGED <<sup, generation, chan, outbox, cursor, sent, sentGens, runs>>
\* One caller c moves to state x, and is bound to connection g.
<1>2. ASSUME NEW c \in Writers, NEW x, NEW g, Quiet,
             st' = [st EXCEPT ![c] = x], reqGen' = [reqGen EXCEPT ![c] = g],
             InChan(c) \/ InOutbox(c) => x \in {"waiting", "gone"},
             InOutbox(c) \/ sent[c] > 0 => g = reqGen[c],
             x \in Unsent => sent[c] = 0,
             x \in Served => sent[c] = Size[c]
      PROVE  WriteInv'
  <2>1. \A d \in Writers :
           /\ InChan(d) \/ InOutbox(d) => st'[d] \in {"waiting", "gone"}
           /\ InOutbox(d) \/ sent[d] > 0 => reqGen'[d] = reqGen[d]
           /\ st'[d] \in Unsent => sent[d] = 0
           /\ st'[d] \in Served => sent[d] = Size[d]
    BY <1>2, WriterFacts DEF TypeOK
  <2>2. outbox # <<>> => sup' \in Open /\ generation' = generation
    BY <1>2 DEF WriteInv, OutboxCurrent, Open
  <2> QED BY <1>2, <2>1, <2>2, QuietStep
\* One caller c moves to state x and keeps its connection.
<1>3. ASSUME NEW c \in Writers, NEW x, Quiet,
             st' = [st EXCEPT ![c] = x], UNCHANGED reqGen,
             st[c] \notin {"waiting", "gone"} \/ x = "gone",
             x \in Unsent => st[c] \in Unsent,
             x \in Served => st[c] \in Served
      PROVE  WriteInv'
  <2>1. reqGen' = [reqGen EXCEPT ![c] = reqGen[c]]
    BY <1>3 DEF TypeOK
  <2>2. /\ InChan(c) \/ InOutbox(c) => x \in {"waiting", "gone"}
        /\ x \in Unsent => sent[c] = 0
        /\ x \in Served => sent[c] = Size[c]
    BY <1>3, WriterFacts
  <2> QED BY <1>2, <1>3, <2>1, <2>2
<1>4. ASSUME NEW i \in Inputs, TryInput(i) PROVE WriteInv'
  <2>1. i \in Writers /\ ~InChan(i) /\ ~InOutbox(i) /\ sent[i] = 0 /\ Size[i] # 0
    BY <1>4, WriterFacts DEF TryInput, Writers
  <2>2. Quiet
    BY <1>4 DEF TryInput
  <2>3. CASE LockFree
    BY <1>2, <1>4, <2>1, <2>2, <2>3 DEF TryInput, BeginWrite
  <2>4. CASE ~LockFree
    BY <1>3, <1>4, <2>1, <2>2, <2>4 DEF TryInput
  <2> QED BY <2>3, <2>4
<1>5. ASSUME NEW i \in Inputs, FinishInput(i) PROVE WriteInv'
  <2>1. i \in Writers /\ Quiet /\ UNCHANGED reqGen
    BY <1>5 DEF FinishInput, Writers
  <2> QED BY <1>3, <1>5, <2>1 DEF FinishInput
<1>6. ASSUME NEW i \in Inputs, HangUp(i) PROVE WriteInv'
  <2>1. i \in Writers /\ Quiet /\ UNCHANGED reqGen
    BY <1>6 DEF HangUp, Writers
  <2> QED BY <1>3, <1>6, <2>1 DEF HangUp
<1>7. ASSUME NEW t \in Txns, QueueTxn(t) PROVE WriteInv'
  <2>1. t \in Writers /\ Quiet /\ UNCHANGED reqGen
    BY <1>7 DEF QueueTxn, Writers
  <2> QED BY <1>3, <1>7, <2>1 DEF QueueTxn
<1>8. ASSUME NEW t \in Txns, Grant(t) PROVE WriteInv'
  <2>1. t \in Writers /\ Quiet /\ UNCHANGED reqGen
    BY <1>8 DEF Grant, Writers
  <2> QED BY <1>3, <1>8, <2>1 DEF Grant
<1>9. ASSUME NEW t \in Txns, Expire(t) PROVE WriteInv'
  <2>1. Quiet /\ UNCHANGED <<st, reqGen>>
    BY <1>9 DEF Expire
  <2> QED BY <2>1, QuietStep, WriterFacts DEF Expire, WriteInv, OutboxCurrent, Open
<1>10. ASSUME NEW t \in Txns, GiveUpQueued(t) PROVE WriteInv'
  <2>1. t \in Writers /\ Quiet /\ UNCHANGED reqGen
    BY <1>10 DEF GiveUpQueued, Writers
  <2> QED BY <1>3, <1>10, <2>1 DEF GiveUpQueued
<1>11. ASSUME NEW t \in Txns, TakeBoundary(t) PROVE WriteInv'
  <2>1. t \in Writers /\ Quiet /\ UNCHANGED reqGen
    BY <1>11 DEF TakeBoundary, Writers
  <2> QED BY <1>3, <1>11, <2>1 DEF TakeBoundary
<1>12. ASSUME NEW t \in Txns, TxnWrite(t) PROVE WriteInv'
  <2>1. t \in Writers /\ Quiet
    BY <1>12 DEF TxnWrite, Writers
  <2>2. ~InChan(t) /\ ~InOutbox(t) /\ sent[t] = 0 /\ Size[t] # 0
    BY <1>12, <2>1, WriterFacts DEF TxnWrite
  <2>3. reqGen' = [reqGen EXCEPT ![t] = generation]
    BY <1>12 DEF TxnWrite, BeginWrite
  <2>4. CASE connected
    <3>1. st' = [st EXCEPT ![t] = "sending"]
      BY <1>12, <2>4 DEF TxnWrite, BeginWrite
    <3>2. /\ InChan(t) \/ InOutbox(t) => "sending" \in {"waiting", "gone"}
          /\ InOutbox(t) \/ sent[t] > 0 => generation = reqGen[t]
          /\ "sending" \in Unsent => sent[t] = 0
          /\ "sending" \in Served => sent[t] = Size[t]
      BY <2>2
    <3> HIDE DEF Unsent, Served, Quiet
    <3> QED BY <1>2, <2>1, <2>3, <3>1, <3>2
  <2>5. CASE ~connected
    <3>1. st' = [st EXCEPT ![t] = "nacked"]
      BY <1>12, <2>5 DEF TxnWrite, BeginWrite
    <3>2. /\ InChan(t) \/ InOutbox(t) => "nacked" \in {"waiting", "gone"}
          /\ InOutbox(t) \/ sent[t] > 0 => generation = reqGen[t]
          /\ "nacked" \in Unsent => sent[t] = 0
          /\ "nacked" \in Served => sent[t] = Size[t]
      BY <2>2
    <3> HIDE DEF Unsent, Served, Quiet
    <3> QED BY <1>2, <2>1, <2>3, <3>1, <3>2
  <2> QED BY <2>4, <2>5
<1>13. ASSUME NEW t \in Txns, AfterWrite(t) PROVE WriteInv'
  <2>1. t \in Writers /\ Quiet /\ UNCHANGED reqGen
    BY <1>13 DEF AfterWrite, Writers
  <2> QED BY <1>3, <1>13, <2>1 DEF AfterWrite
<1>14. ASSUME NEW t \in Txns, EndTxn(t) PROVE WriteInv'
  <2>1. t \in Writers /\ Quiet /\ UNCHANGED reqGen
    BY <1>14 DEF EndTxn, Writers
  <2> QED BY <1>3, <1>14, <2>1 DEF EndTxn
<1>15. ASSUME NEW p \in Pressers, Press(p) \/ QueuePress(p) \/ HangUpPress(p) PROVE WriteInv'
  <2>1. Quiet /\ UNCHANGED <<st, reqGen>>
    BY <1>15 DEF Press, QueuePress, HangUpPress
  <2> QED BY <2>1, QuietStep, WriterFacts DEF Expire, WriteInv, OutboxCurrent, Open
<1> QED
  BY <1>1, <1>4, <1>5, <1>6, <1>7, <1>8, <1>9, <1>10, <1>11, <1>12, <1>13,
     <1>14, <1>15
  DEF Callers

\* The supervisor's steps.
LEMMA SupervisorWrite ==
  ASSUME WriteInv, Supervisor
  PROVE  WriteInv'
<1> TypeOK /\ TypeOK'
  BY SupervisorType DEF WriteInv
<1> USE DEF portVars, queueVars, callVars, lockVars, dtrVars, wireVars, Unsent, Served, Open
<1>0. /\ \A k \in 1..Len(chan) : chan[k] \in Writers /\ InChan(chan[k])
      /\ \A k \in 1..Len(outbox) : outbox[k] \in Writers /\ InOutbox(outbox[k])
      /\ Len(chan) \in Nat /\ Len(outbox) \in Nat
      /\ outbox # <<>> <=> Len(outbox) > 0
      /\ outbox' # <<>> <=> Len(outbox') > 0
  <2>1. chan \in Seq(Writers) /\ outbox \in Seq(Writers) /\ outbox' \in Seq(Writers)
    BY DEF TypeOK
  <2>2. \A k \in 1..Len(chan) : chan[k] \in Writers /\ InChan(chan[k])
    BY <2>1, ElementOfSeq DEF InChan
  <2>3. \A k \in 1..Len(outbox) : outbox[k] \in Writers /\ InOutbox(outbox[k])
    BY <2>1, ElementOfSeq DEF InOutbox
  <2> QED BY <2>1, <2>2, <2>3, LenFacts
<1> DEFINE Still == UNCHANGED <<chan, outbox, cursor, sent, sentGens, runs, st, reqGen>>
\* Steps that only move the supervisor within an open port, or while closed.
<1>1. ASSUME Still, outbox # <<>> => sup' \in Open /\ generation' = generation
      PROVE  WriteInv'
  BY <1>1, QuietStep, WriterFacts
<1>2. CASE OpenOk
  BY <1>1, <1>2 DEF OpenOk, WriteInv, OutboxCurrent
<1>3. CASE OpenFail \/ BackoffEnd
  BY <1>1, <1>3 DEF OpenFail, BackoffEnd, WriteInv, OutboxCurrent
<1>4. CASE EnterSelect \/ ReadArm \/ PaceTick
  BY <1>1, <1>4 DEF EnterSelect, ReadArm, PaceTick, WriteInv, OutboxCurrent
<1>5. CASE PressArm \/ PressOk \/ PressFail \/ Disconnect
  BY <1>1, <1>5 DEF PressArm, PressOk, PressFail, Disconnect, WriteInv, OutboxCurrent
<1>6. CASE BackoffRefuse
  <2> DEFINE c == Head(chan)
  <2>1. /\ c = chan[1] /\ c \in Writers /\ Len(chan') = Len(chan) - 1
        /\ \A k \in 1..Len(chan') : chan'[k] = chan[k + 1]
        /\ Len(chan) > 0
    BY <1>6, TailFacts DEF BackoffRefuse, TypeOK
  <2>2. UNCHANGED <<sup, generation, outbox, cursor, sent, sentGens, runs, reqGen>>
    BY <1>6 DEF BackoffRefuse
  <2>3. /\ \A d \in Writers \ {c} : st'[d] = st[d]
        /\ st'[c] \in {st[c], "nacked"}
    BY <1>6, <2>1, ReplyFacts DEF BackoffRefuse
  <2>4. Distinct'
    <3>1. \A k \in 1..Len(chan') : chan'[k] = chan[k + 1] /\ k + 1 \in 1..Len(chan) /\ k \in Int
      BY <1>0, <2>1
    <3>2. \A j, k \in 1..Len(chan') : chan'[j] = chan'[k] => j = k
      BY <3>1 DEF WriteInv, Distinct
    <3>3. \A j \in 1..Len(chan'), k \in 1..Len(outbox) : chan'[j] # outbox[k]
      BY <3>1 DEF WriteInv, Distinct
    <3> QED BY <2>2, <3>2, <3>3 DEF WriteInv, Distinct
  <2>5. QueuedUnanswered'
    <3>1. \A k \in 1..Len(chan') : chan'[k] \in Writers \ {c} /\ k + 1 \in 1..Len(chan)
      BY <1>0, <2>1 DEF WriteInv, Distinct
    <3>2. \A k \in 1..Len(outbox) : outbox[k] \in Writers \ {c}
      BY <1>0, <2>1 DEF WriteInv, Distinct
    <3> QED BY <2>1, <2>2, <2>3, <3>1, <3>2 DEF WriteInv, QueuedUnanswered
  <2>6. OutboxCurrent'
    BY <2>2 DEF WriteInv, OutboxCurrent
  <2>7. CursorIsSent'
    BY <1>0, <2>1, <2>2 DEF WriteInv, CursorIsSent
  <2>8. WireAgrees'
    BY <2>2, <2>3 DEF WriteInv, WireAgrees
  <2>9. RunsAgree'
    BY <2>2 DEF WriteInv, RunsAgree, ContiguousOnWire
  <2> QED BY <2>4, <2>5, <2>6, <2>7, <2>8, <2>9 DEF WriteInv
<1>7. CASE DiscardCancelled
  <2>1. /\ Len(outbox) > 0 /\ Len(outbox') = Len(outbox) - 1
        /\ \A k \in 1..Len(outbox') : outbox'[k] = outbox[k + 1]
    BY <1>7, TailFacts DEF DiscardCancelled, TypeOK
  <2>2. /\ UNCHANGED <<sup, generation, chan, sent, sentGens, runs, st, reqGen>>
        /\ cursor' = 0 /\ sup = "top"
    BY <1>7 DEF DiscardCancelled
  <2>3. \A k \in 1..Len(outbox') : k + 1 \in 2..Len(outbox)
    BY <1>0, <2>1
  <2>4. Distinct'
    <3>1. \A k \in 1..Len(outbox') : outbox'[k] = outbox[k + 1] /\ k + 1 \in 1..Len(outbox) /\ k \in Int
      BY <1>0, <2>1
    <3>2. \A j, k \in 1..Len(outbox') : outbox'[j] = outbox'[k] => j = k
      BY <3>1 DEF WriteInv, Distinct
    <3>3. \A j \in 1..Len(chan), k \in 1..Len(outbox') : chan[j] # outbox'[k]
      BY <3>1 DEF WriteInv, Distinct
    <3> QED BY <2>2, <3>2, <3>3 DEF WriteInv, Distinct
  <2>5. QueuedUnanswered'
    BY <1>0, <2>1, <2>2, <2>3 DEF WriteInv, QueuedUnanswered
  <2>6. OutboxCurrent'
    BY <1>0, <2>1, <2>2, <2>3 DEF WriteInv, OutboxCurrent
  <2>7. CursorIsSent'
    <3>1. outbox' # <<>> => 1 \in 1..Len(outbox') /\ outbox'[1] = outbox[2] /\ 2 \in 2..Len(outbox)
      BY <1>0, <2>1
    <3>2. outbox' # <<>> => Size[outbox'[1]] > 0
      BY <1>0, <3>1, CallersAssumption
    <3>3. outbox' # <<>> => sent'[outbox'[1]] = 0
      BY <2>2, <3>1 DEF WriteInv, CursorIsSent
    <3> QED BY <1>0, <2>1, <2>2, <2>3, <3>2, <3>3 DEF WriteInv, CursorIsSent
  <2>8. WireAgrees'
    BY <2>2 DEF WriteInv, WireAgrees
  <2>9. RunsAgree'
    BY <2>2 DEF WriteInv, RunsAgree, ContiguousOnWire
  <2> QED BY <2>4, <2>5, <2>6, <2>7, <2>8, <2>9 DEF WriteInv
<1>8. CASE RequestArm
  <2> DEFINE c == Head(chan)
             L == Len(outbox)
  <2>1. /\ c = chan[1] /\ c \in Writers /\ Len(chan') = Len(chan) - 1
        /\ \A k \in 1..Len(chan') : chan'[k] = chan[k + 1]
        /\ Len(chan) > 0
    BY <1>8, TailFacts DEF RequestArm, TypeOK
  <2>2. UNCHANGED <<generation, cursor, sent, sentGens, runs, reqGen>> /\ sup' = "top"
    BY <1>8 DEF RequestArm
  <2>3. \A k \in 1..Len(chan') : k + 1 \in 2..Len(chan)
    BY <1>0, <2>1
  <2>4. CASE ~Current(c)
    <3>0. outbox' = outbox
      BY <1>8, <2>4 DEF RequestArm
    <3>1. /\ \A d \in Writers \ {c} : st'[d] = st[d]
          /\ st'[c] \in {st[c], "nacked"}
          /\ UNCHANGED outbox
      BY <1>8, <2>1, <2>4, ReplyFacts DEF RequestArm
    <3>2. Distinct'
      <4>1. \A k \in 1..Len(chan') : chan'[k] = chan[k + 1] /\ k + 1 \in 1..Len(chan) /\ k \in Int
        BY <1>0, <2>1
      <4>2. \A j, k \in 1..Len(chan') : chan'[j] = chan'[k] => j = k
        BY <4>1 DEF WriteInv, Distinct
      <4>3. \A j \in 1..Len(chan'), k \in 1..Len(outbox) : chan'[j] # outbox[k]
        BY <4>1 DEF WriteInv, Distinct
      <4> QED BY <3>0, <4>2, <4>3 DEF WriteInv, Distinct
    <3>3. QueuedUnanswered'
      <4>1. \A k \in 1..Len(chan') : chan'[k] \in Writers \ {c}
        BY <1>0, <2>1, <2>3 DEF WriteInv, Distinct
      <4>2. \A k \in 1..Len(outbox) : outbox[k] \in Writers \ {c}
        BY <1>0, <2>1 DEF WriteInv, Distinct
      <4> QED BY <2>1, <2>3, <3>1, <4>1, <4>2 DEF WriteInv, QueuedUnanswered
    <3>4. OutboxCurrent'
      BY <2>2, <3>1 DEF WriteInv, OutboxCurrent
    <3>5. CursorIsSent'
      BY <1>0, <2>1, <2>2, <2>3, <3>1 DEF WriteInv, CursorIsSent
    <3>6. WireAgrees'
      BY <2>2, <3>1 DEF WriteInv, WireAgrees
    <3>7. RunsAgree'
      BY <2>2, <3>1 DEF WriteInv, RunsAgree, ContiguousOnWire
    <3> QED BY <3>2, <3>3, <3>4, <3>5, <3>6, <3>7 DEF WriteInv
  <2>5. CASE Current(c)
    <3>1. /\ Len(outbox') = L + 1 /\ outbox'[L + 1] = c
          /\ \A k \in 1..L : outbox'[k] = outbox[k]
          /\ UNCHANGED st
      <4>1. outbox' = Append(outbox, c) /\ UNCHANGED st
        BY <1>8, <2>5 DEF RequestArm, Enqueued
      <4> QED BY <2>1, <4>1, AppendFacts DEF TypeOK
    <3>2. InChan(c) /\ ~InOutbox(c) /\ \A k \in 1..Len(chan') : chan'[k] # c
      <4>1. 1 \in 1..Len(chan) /\ \A k \in 2..Len(chan) : k \in 1..Len(chan) /\ k # 1
        BY <1>0, <2>1
      <4>2. InChan(c)
        BY <1>0, <2>1, <4>1
      <4>3. ~InOutbox(c)
        BY <2>1, <4>1 DEF WriteInv, Distinct, InOutbox
      <4>4. \A k \in 1..Len(chan') : chan'[k] # c
        BY <2>1, <2>3, <4>1 DEF WriteInv, Distinct
      <4> QED BY <4>2, <4>3, <4>4
    <3>3. sent[c] = 0 /\ Size[c] > 0 /\ reqGen[c] = generation /\ st[c] \in {"waiting", "gone"}
      BY <2>1, <2>5, <3>2, WriterFacts DEF Current
    <3>4. Distinct'
      <4>1. \A j, k \in 1..Len(chan') : chan'[j] = chan'[k] => j = k
        BY <1>0, <2>1 DEF WriteInv, Distinct
      <4>2. \A j, k \in 1..Len(outbox') : outbox'[j] = outbox'[k] => j = k
        BY <1>0, <3>1, <3>2 DEF WriteInv, Distinct, InOutbox
      <4>3. \A j \in 1..Len(chan'), k \in 1..Len(outbox') : chan'[j] # outbox'[k]
        BY <1>0, <2>1, <2>3, <3>1, <3>2 DEF WriteInv, Distinct
      <4> QED BY <4>1, <4>2, <4>3 DEF Distinct
    <3>5. QueuedUnanswered'
      BY <1>0, <2>1, <2>3, <3>1, <3>3 DEF WriteInv, QueuedUnanswered
    <3>6. OutboxCurrent'
      BY <1>0, <2>2, <3>1, <3>3 DEF WriteInv, OutboxCurrent
    <3>7. CursorIsSent'
      <4>1. outbox = <<>> => L = 0 /\ outbox'[1] = c
        BY <3>1, EmptySeq
      <4>2. outbox # <<>> => L > 0 /\ outbox'[1] = outbox[1]
        BY <1>0, <3>1
      <4>3. outbox' # <<>>
        BY <1>0, <3>1, EmptySeq
      <4>4. sent'[outbox'[1]] = cursor' /\ cursor' < Size[outbox'[1]]
        BY <2>2, <3>3, <4>1, <4>2 DEF WriteInv, CursorIsSent
      <4>5. \A k \in 2..Len(outbox') : sent'[outbox'[k]] = 0
        BY <1>0, <2>2, <3>1, <3>3 DEF WriteInv, CursorIsSent
      <4>6. \A k \in 1..Len(chan') : sent'[chan'[k]] = 0
        BY <1>0, <2>1, <2>2, <2>3 DEF WriteInv, CursorIsSent
      <4> QED BY <4>3, <4>4, <4>5, <4>6 DEF CursorIsSent
    <3>8. WireAgrees'
      BY <2>2, <3>1 DEF WriteInv, WireAgrees
    <3>9. RunsAgree'
      <4>1. cursor > 0 => outbox'[1] = outbox[1] /\ outbox' # <<>>
        BY <1>0, <3>1, EmptySeq DEF WriteInv, RunsAgree, TypeOK
      <4> QED BY <2>2, <4>1 DEF WriteInv, RunsAgree, ContiguousOnWire
    <3> QED BY <3>4, <3>5, <3>6, <3>7, <3>8, <3>9 DEF WriteInv
  <2> QED BY <2>4, <2>5
<1>9. CASE WriteArm
  <2> DEFINE h == outbox[1]
  <2>1. PICK n \in 1..Slice : Consume(n)
    BY <1>9 DEF WriteArm
  <2>2. /\ outbox # <<>> /\ Head(outbox) = h /\ h \in Writers /\ Len(outbox) > 0
        /\ n \in Nat \ {0} /\ cursor + n <= Size[h] /\ Size[h] \in Nat
        /\ UNCHANGED <<generation, chan, reqGen>>
        /\ sup' = "top"
    <3>1. /\ outbox # <<>> /\ UNCHANGED <<generation, chan, reqGen>> /\ sup' = "top"
      BY <1>9 DEF WriteArm
    <3>2. /\ Head(outbox) = h /\ h \in Writers /\ Slice \in Int /\ Slice <= Size[h] - cursor
      BY <3>1, SliceFacts
    <3>3. Size[h] \in Nat /\ cursor \in Nat
      BY <3>2, CallersAssumption DEF TypeOK
    <3> QED BY <1>0, <3>1, <3>2, <3>3
  <2>3. /\ sent[h] = cursor /\ cursor \in Nat /\ InOutbox(h) /\ reqGen[h] = generation
        /\ st[h] \in {"waiting", "gone"}
    <3>1. InOutbox(h)
      BY <1>0, <2>2
    <3>2. sent[h] = cursor /\ cursor \in Nat
      BY <2>2 DEF WriteInv, CursorIsSent, TypeOK
    <3> QED BY <2>2, <3>1, <3>2, WriterFacts
  <2>4. /\ sent'[h] = cursor + n
        /\ \A d \in Writers \ {h} : sent'[d] = sent[d]
    <3>1. sent' = [sent EXCEPT ![h] = @ + n]
      BY <2>1, <2>2 DEF Consume
    <3> QED BY <2>2, <2>3, <3>1 DEF TypeOK
  <2>5. /\ sentGens'[h] = {generation}
        /\ \A d \in Writers \ {h} : sentGens'[d] = sentGens[d]
    <3>1. sentGens' = [sentGens EXCEPT ![h] = @ \cup {generation}]
      BY <2>1, <2>2 DEF Consume
    <3>2. sentGens[h] \in {{}, {generation}}
      <4>1. sent[h] = 0 \/ sent[h] > 0
        BY <2>3
      <4> QED BY <2>2, <2>3, <4>1 DEF WriteInv, WireAgrees
    <3> QED BY <2>2, <3>1, <3>2 DEF TypeOK
  <2>6. runs' = IF runs # <<>> /\ runs[Len(runs)] = h THEN runs ELSE Append(runs, h)
    BY <2>1, <2>2 DEF Consume
  <2>7. \A k \in 1..Len(chan) : chan[k] # h
    BY <1>0, <2>2 DEF WriteInv, Distinct
  <2>8. \A k \in 2..Len(outbox) : outbox[k] # h /\ k \in 1..Len(outbox)
    BY <1>0, <2>2 DEF WriteInv, Distinct
  <2>9. /\ ContiguousOnWire'
        /\ \A k \in 1..Len(runs') : sent'[runs'[k]] > 0
        /\ runs' # <<>> /\ runs'[Len(runs')] = h
    <3>1. \A k \in 1..Len(runs) : runs[k] \in Writers
      BY ElementOfSeq DEF TypeOK
    <3>2. CASE runs # <<>> /\ runs[Len(runs)] = h
      <4>1. runs' = runs
        BY <2>6, <3>2
      <4>2. \A k \in 1..Len(runs) : sent'[runs[k]] > 0
        BY <2>2, <2>3, <2>4, <3>1 DEF WriteInv, RunsAgree
      <4> QED BY <3>2, <4>1, <4>2 DEF WriteInv, RunsAgree, ContiguousOnWire
    <3>3. CASE ~(runs # <<>> /\ runs[Len(runs)] = h)
      <4>1. cursor = 0
        BY <2>3, <3>3 DEF WriteInv, RunsAgree
      <4>2. \A k \in 1..Len(runs) : runs[k] # h
        BY <2>3, <4>1 DEF WriteInv, RunsAgree
      <4>3. /\ Len(runs) \in Nat /\ Len(runs') = Len(runs) + 1 /\ runs'[Len(runs) + 1] = h
            /\ \A k \in 1..Len(runs) : runs'[k] = runs[k]
        BY <2>2, <2>6, <3>3, AppendFacts DEF TypeOK
      <4>4. ContiguousOnWire'
        BY <4>2, <4>3 DEF WriteInv, RunsAgree, ContiguousOnWire
      <4>5. \A k \in 1..Len(runs') : sent'[runs'[k]] > 0
        BY <2>2, <2>3, <2>4, <3>1, <4>3 DEF WriteInv, RunsAgree
      <4>6. runs' # <<>>
        BY <4>3, EmptySeq
      <4> QED BY <4>3, <4>4, <4>5, <4>6
    <3> QED BY <3>2, <3>3
  <2>10. CASE Finished(n)
    <3>1. /\ outbox' = Tail(outbox) /\ cursor' = 0 /\ Reply({h}, "acked")
          /\ cursor + n = Size[h]
      BY <2>1, <2>2, <2>10 DEF Consume, Finished
    <3>2. /\ \A d \in Writers \ {h} : st'[d] = st[d]
          /\ st'[h] = IF st[h] = "waiting" THEN "acked" ELSE st[h]
      BY <2>2, <3>1, ReplyFacts
    <3>3. /\ Len(outbox') = Len(outbox) - 1
          /\ \A k \in 1..Len(outbox') : outbox'[k] = outbox[k + 1] /\ k + 1 \in 2..Len(outbox)
      BY <1>0, <2>2, <3>1, TailFacts DEF TypeOK
    <3>4. \A k \in 1..Len(outbox') : outbox'[k] \in Writers \ {h} /\ outbox'[k] = outbox[k + 1]
                                       /\ k + 1 \in 2..Len(outbox) /\ k + 1 \in 1..Len(outbox)
      BY <1>0, <2>8, <3>3
    <3>5. Distinct'
      <4>1. \A j, k \in 1..Len(outbox') : outbox'[j] = outbox'[k] => j = k
        BY <3>4 DEF WriteInv, Distinct
      <4>2. \A j \in 1..Len(chan), k \in 1..Len(outbox') : chan[j] # outbox'[k]
        BY <3>4 DEF WriteInv, Distinct
      <4> QED BY <2>2, <4>1, <4>2 DEF WriteInv, Distinct
    <3>6. QueuedUnanswered'
      <4>1. \A k \in 1..Len(chan) : st'[chan[k]] = st[chan[k]]
        BY <1>0, <2>7, <3>2
      <4>2. \A k \in 1..Len(outbox') : st'[outbox'[k]] = st[outbox[k + 1]] /\ k + 1 \in 1..Len(outbox)
        BY <3>2, <3>4
      <4> QED BY <2>2, <4>1, <4>2 DEF WriteInv, QueuedUnanswered
    <3>7. OutboxCurrent'
      BY <2>2, <3>4 DEF WriteInv, OutboxCurrent
    <3>8. CursorIsSent'
      <4>1. \A k \in 1..Len(outbox') : sent'[outbox'[k]] = 0 /\ Size[outbox'[k]] > 0
        BY <2>4, <3>4, CallersAssumption DEF WriteInv, CursorIsSent
      <4>2. outbox' # <<>> => 1 \in 1..Len(outbox')
        BY EmptySeq DEF TypeOK
      <4>3. \A k \in 1..Len(chan) : sent'[chan[k]] = 0
        BY <1>0, <2>4, <2>7 DEF WriteInv, CursorIsSent
      <4>4. \A k \in 2..Len(outbox') : k \in 1..Len(outbox')
        BY <1>0, <3>3
      <4> QED BY <2>2, <3>1, <4>1, <4>2, <4>3, <4>4 DEF CursorIsSent
    <3>9. WireAgrees'
      <4>1. ASSUME NEW d \in Writers \ {h}
              PROVE  /\ sent'[d] = 0 => sentGens'[d] = {}
                     /\ sent'[d] > 0 => sentGens'[d] = {reqGen'[d]}
                     /\ sent'[d] <= Size[d]
                     /\ st'[d] \in Unsent => sent'[d] = 0
                     /\ st'[d] \in Served => sent'[d] = Size[d]
        BY <2>2, <2>4, <2>5, <3>2 DEF WriteInv, WireAgrees
      <4>2. /\ sent'[h] > 0 /\ sent'[h] <= Size[h]
            /\ sentGens'[h] = {reqGen'[h]}
            /\ st'[h] \notin Unsent
            /\ st'[h] \in Served => sent'[h] = Size[h]
        BY <2>2, <2>3, <2>4, <2>5, <3>1, <3>2
      <4> QED BY <2>2, <4>1, <4>2 DEF WireAgrees
    <3>10. RunsAgree'
      BY <2>9, <3>1 DEF RunsAgree
    <3> QED BY <3>5, <3>6, <3>7, <3>8, <3>9, <3>10 DEF WriteInv
  <2>11. CASE ~Finished(n)
    <3>1. /\ cursor' = cursor + n /\ UNCHANGED <<outbox, st>>
          /\ cursor + n # Size[h]
      BY <2>1, <2>2, <2>11 DEF Consume, Finished
    <3>2. Distinct' /\ QueuedUnanswered' /\ OutboxCurrent'
      BY <2>2, <3>1 DEF WriteInv, Distinct, QueuedUnanswered, OutboxCurrent
    <3>3. CursorIsSent'
      <4>1. \A k \in 2..Len(outbox) : sent'[outbox[k]] = 0
        BY <1>0, <2>4, <2>8 DEF WriteInv, CursorIsSent
      <4>2. \A k \in 1..Len(chan) : sent'[chan[k]] = 0
        BY <1>0, <2>4, <2>7 DEF WriteInv, CursorIsSent
      <4>3. sent'[h] = cursor' /\ cursor' < Size[h]
        BY <2>2, <2>3, <2>4, <3>1
      <4> QED BY <2>2, <3>1, <4>1, <4>2, <4>3 DEF CursorIsSent
    <3>4. WireAgrees'
      <4>1. ASSUME NEW d \in Writers \ {h}
              PROVE  /\ sent'[d] = 0 => sentGens'[d] = {}
                     /\ sent'[d] > 0 => sentGens'[d] = {reqGen'[d]}
                     /\ sent'[d] <= Size[d]
                     /\ st'[d] \in Unsent => sent'[d] = 0
                     /\ st'[d] \in Served => sent'[d] = Size[d]
        BY <2>2, <2>4, <2>5, <3>1 DEF WriteInv, WireAgrees
      <4>2. /\ sent'[h] > 0 /\ sent'[h] <= Size[h]
            /\ sentGens'[h] = {reqGen'[h]}
            /\ st'[h] \notin Unsent
            /\ st'[h] \in Served => sent'[h] = Size[h]
        BY <2>2, <2>3, <2>4, <2>5, <3>1
      <4> QED BY <2>2, <4>1, <4>2 DEF WireAgrees
    <3>5. RunsAgree'
      BY <2>2, <2>9, <3>1 DEF RunsAgree
    <3> QED BY <3>2, <3>3, <3>4, <3>5 DEF WriteInv
  <2> QED BY <2>10, <2>11
<1>10. CASE DropOutbox
  <2>1. /\ outbox' = <<>> /\ cursor' = 0 /\ Reply(QueuedCallers, "nacked")
        /\ UNCHANGED <<generation, chan, reqGen, sent, sentGens, runs>>
    BY <1>10 DEF DropOutbox
  <2>2. \A d \in Writers : st'[d] = IF d \in QueuedCallers /\ st[d] = "waiting" THEN "nacked" ELSE st[d]
    BY <2>1, ReplyFacts
  <2>3. \A k \in 1..Len(chan) : chan[k] \notin QueuedCallers
    BY DEF WriteInv, Distinct, QueuedCallers
  <2>4. Len(outbox') = 0
    BY <2>1, EmptySeq
  <2>5. Distinct' /\ OutboxCurrent'
    BY <2>1, <2>4 DEF WriteInv, Distinct, OutboxCurrent
  <2>6. QueuedUnanswered'
    BY <1>0, <2>1, <2>2, <2>3, <2>4 DEF WriteInv, QueuedUnanswered
  <2>7. CursorIsSent'
    BY <2>1, <2>4 DEF WriteInv, CursorIsSent
  <2>8. WireAgrees'
    BY <2>1, <2>2 DEF WriteInv, WireAgrees
  <2>9. RunsAgree'
    BY <2>1 DEF WriteInv, RunsAgree, ContiguousOnWire
  <2> QED BY <2>5, <2>6, <2>7, <2>8, <2>9 DEF WriteInv
<1> QED
  BY <1>2, <1>3, <1>4, <1>5, <1>6, <1>7, <1>8, <1>9, <1>10 DEF Supervisor

\* WriteInv is an invariant.
LEMMA WriteInvariant == Spec => []WriteInv
<1>1. Init => WriteInv
  <2> SUFFICES ASSUME Init PROVE WriteInv
    OBVIOUS
  <2>1. TypeOK
    BY TypeInit
  <2>2. Len(chan) = 0 /\ Len(outbox) = 0 /\ Len(runs) = 0
    BY EmptySeq DEF Init
  <2> QED
    BY <2>1, <2>2, CallersAssumption DEF Init, WriteInv, Distinct, QueuedUnanswered,
       OutboxCurrent, CursorIsSent, WireAgrees, RunsAgree, ContiguousOnWire, Served
<1>2. WriteInv /\ [Next]_vars => WriteInv'
  <2>1. ASSUME WriteInv, UNCHANGED vars PROVE WriteInv'
    BY <2>1 DEF vars, portVars, queueVars, callVars, lockVars, dtrVars, wireVars,
       WriteInv, TypeOK, Distinct, QueuedUnanswered, OutboxCurrent, CursorIsSent,
       WireAgrees, RunsAgree, ContiguousOnWire
  <2> QED
    BY <2>1, SupervisorWrite, CallersWrite DEF Next
<1> QED
  BY <1>1, <1>2, PTL DEF Spec

\* A write is never replayed on another connection nor written twice, for any
\* callers and sizes (the generation check of the supervisor).
THEOREM NeverReplayed == Spec => []NoReplay
<1>1. WriteInv => NoReplay
  <2> SUFFICES ASSUME WriteInv, NEW c \in Writers
               PROVE  sent[c] <= Size[c] /\ sentGens[c] \subseteq {reqGen[c]}
    BY DEF NoReplay
  <2>1. sent[c] = 0 \/ sent[c] > 0
    BY DEF WriteInv, TypeOK
  <2> QED BY <2>1 DEF WriteInv, WireAgrees
<1> QED BY <1>1, WriteInvariant, PTL

\* An acknowledged write is on the wire, whole and on its own connection; a
\* refused one never touched it.
THEOREM AcknowledgedIsSent == Spec => []AckMeansSent
<1>1. WriteInv => AckMeansSent
  <2> SUFFICES ASSUME WriteInv, NEW c \in Writers
               PROVE  /\ st[c] \in Served => sent[c] = Size[c] /\ sentGens[c] = {reqGen[c]}
                      /\ st[c] \in Unsent => sent[c] = 0
    BY DEF AckMeansSent, Served, Unsent
  <2>1. Size[c] > 0
    BY CallersAssumption
  <2> QED BY <2>1 DEF WriteInv, WireAgrees
<1> QED BY <1>1, WriteInvariant, PTL

\* Whatever is cancelled, lost or reopened, the bytes of one request are
\* contiguous on the wire.
THEOREM WritesContiguous == Spec => []ContiguousOnWire
<1>1. WriteInv => ContiguousOnWire
  BY DEF WriteInv, RunsAgree
<1> QED BY <1>1, WriteInvariant, PTL

-----------------------------------------------------------------------------
(***************************************************************************)
(* The transaction lock.                                                   *)
(***************************************************************************)

Calling == {"sending", "waiting", "acked", "nacked"}

\* The inputs under the shared lock are those with a call in progress, none
\* while a transaction holds it; a transaction not granted yet was not
\* intruded on, nor was the holder as long as an input's slice is on offer.
LockInv ==
  /\ \A i \in Inputs : i \in readers <=> st[i] \in Calling
  /\ holder # Nobody => readers = {} /\ st[holder] \notin {"idle", "queued"}
  /\ \A t \in Txns : intruded[t] <= WriteChunk
  /\ \A t \in Txns : st[t] \in {"idle", "queued"} => intruded[t] = 0
  /\ holder # Nobody /\ sup = "select" /\ outbox # <<>> /\ outbox[1] \in Inputs =>
       intruded[holder] = 0

\* A step that neither moves the lock nor counts an intrusion keeps LockInv
\* when calls in progress stay so and no slice of an input comes on offer.
LEMMA QuietLock ==
  ASSUME LockInv, TypeOK, UNCHANGED <<readers, holder, intruded>>,
         \A i \in Inputs : st'[i] \in Calling <=> st[i] \in Calling,
         \A t \in Txns : st'[t] \in {"idle", "queued"} => st[t] \in {"idle", "queued"},
         sup' = "select" => \/ sup = "select" /\ UNCHANGED outbox
                            \/ outbox' # <<>> /\ holder # Nobody => outbox'[1] \notin Inputs
  PROVE  LockInv'
<1>1. holder # Nobody => holder \in Txns
  BY DEF TypeOK
<1> QED BY <1>1 DEF LockInv

LEMMA SupervisorLock ==
  ASSUME LockInv, WriteInv, Supervisor
  PROVE  LockInv'
<1> TypeOK
  BY DEF WriteInv
<1> USE DEF portVars, queueVars, callVars, lockVars, dtrVars, wireVars
<1>1. ASSUME NEW S, NEW r \in {"acked", "nacked"}, Reply(S, r)
      PROVE  /\ \A i \in Inputs : st'[i] \in Calling <=> st[i] \in Calling
             /\ \A t \in Txns : st'[t] \in {"idle", "queued"} => st[t] \in {"idle", "queued"}
  BY <1>1, ReplyFacts DEF Calling, Writers
<1>2. CASE OpenOk \/ OpenFail \/ BackoffEnd \/ ReadArm \/ PressArm \/ PressOk
           \/ PressFail \/ Disconnect
  BY <1>2, QuietLock DEF OpenOk, OpenFail, BackoffEnd, ReadArm, PressArm, PressOk,
     PressFail, Disconnect
<1>3. CASE BackoffRefuse
  <2>1. UNCHANGED <<readers, holder, intruded>> /\ sup' = sup /\ UNCHANGED outbox
    BY <1>3 DEF BackoffRefuse
  <2> QED BY <1>1, <1>3, <2>1, QuietLock DEF BackoffRefuse
<1>4. CASE DiscardCancelled \/ PaceTick
  BY <1>4, QuietLock DEF DiscardCancelled, PaceTick
<1>5. CASE EnterSelect
  <2>1. ASSUME outbox # <<>>, holder # Nobody PROVE outbox[1] \notin Inputs
    <3>1. outbox[1] \in Writers /\ Head(outbox) = outbox[1] /\ 1 \in 1..Len(outbox)
      BY <2>1, TailFacts DEF TypeOK
    <3>2. st[outbox[1]] = "waiting"
      BY <1>5, <2>1, <3>1 DEF EnterSelect, Cancelled, WriteInv, QueuedUnanswered
    <3> QED BY <2>1, <3>2 DEF LockInv, Calling
  <2> QED BY <1>5, <2>1, QuietLock DEF EnterSelect
<1>6. CASE WriteArm
  <2>1. PICK n \in 1..Slice : Consume(n)
    BY <1>6 DEF WriteArm
  <2>2. /\ outbox # <<>> /\ sup = "select" /\ sup' = "top" /\ UNCHANGED <<readers, holder>>
    BY <1>6 DEF WriteArm
  <2>3. /\ Head(outbox) = outbox[1] /\ n \in Nat /\ n <= WriteChunk
    BY <2>2, SliceFacts, BoundsAssumption
  <2>4. /\ \A i \in Inputs : st'[i] \in Calling <=> st[i] \in Calling
        /\ \A t \in Txns : st'[t] \in {"idle", "queued"} => st[t] \in {"idle", "queued"}
    BY <1>1, <2>1 DEF Consume
  <2>5. CASE outbox[1] \in Inputs /\ holder # Nobody
    <3>1. intruded' = [intruded EXCEPT ![holder] = @ + n] /\ intruded[holder] = 0
      BY <2>1, <2>2, <2>3, <2>5 DEF Consume, LockInv
    <3>2. holder \in Txns
      BY <2>5 DEF TypeOK
    <3>3. intruded'[holder] = n /\ \A t \in Txns \ {holder} : intruded'[t] = intruded[t]
      BY <2>3, <3>1, <3>2 DEF TypeOK
    <3> QED BY <2>2, <2>3, <2>4, <2>5, <3>2, <3>3 DEF LockInv
  <2>6. CASE ~(outbox[1] \in Inputs /\ holder # Nobody)
    <3>1. UNCHANGED intruded
      BY <2>1, <2>3, <2>6 DEF Consume
    <3> QED BY <2>2, <2>4, <3>1, QuietLock
  <2> QED BY <2>5, <2>6
<1>7. CASE RequestArm
  <2>1. UNCHANGED <<readers, holder, intruded>> /\ sup' = "top"
    BY <1>7 DEF RequestArm
  <2>2. /\ \A i \in Inputs : st'[i] \in Calling <=> st[i] \in Calling
        /\ \A t \in Txns : st'[t] \in {"idle", "queued"} => st[t] \in {"idle", "queued"}
    BY <1>1, <1>7 DEF RequestArm
  <2> QED BY <2>1, <2>2, QuietLock
<1>8. CASE DropOutbox
  <2>1. UNCHANGED <<readers, holder, intruded>> /\ sup' = "closed"
    BY <1>8 DEF DropOutbox
  <2> QED BY <1>1, <1>8, <2>1, QuietLock DEF DropOutbox
<1> QED
  BY <1>2, <1>3, <1>4, <1>5, <1>6, <1>7, <1>8 DEF Supervisor

LEMMA CallersLock ==
  ASSUME LockInv, TypeOK, Callers
  PROVE  LockInv'
<1> USE DEF portVars, queueVars, callVars, lockVars, dtrVars, wireVars
<1>0. /\ Inputs \subseteq Writers /\ Txns \subseteq Writers /\ Inputs \cap Txns = {}
      /\ st \in [Writers -> InputStates \cup TxnStates]
      /\ holder # Nobody => holder \in Txns
  BY CallersAssumption DEF TypeOK, Writers
<1> DEFINE Moved(c) == \A d \in Writers \ {c} : st'[d] = st[d]
\* A transaction moves on and keeps or leaves the lock.
<1>1. ASSUME NEW t \in Txns, UNCHANGED <<readers, sup, outbox, intruded>>,
             holder' \in {holder, Nobody}, Moved(t), st'[t] \notin {"idle", "queued"}
      PROVE  LockInv'
  BY <1>0, <1>1 DEF LockInv
<1>2. ASSUME NEW c \in Writers, Enqueue(c) PROVE LockInv'
  <2>1. /\ UNCHANGED <<readers, holder, sup, outbox, intruded>>
        /\ st[c] = "sending" /\ st'[c] = "waiting" /\ Moved(c)
    BY <1>0, <1>2 DEF Enqueue
  <2> QED BY <1>0, <2>1 DEF LockInv, Calling
<1>3. ASSUME NEW i \in Inputs, TryInput(i) PROVE LockInv'
  <2>1. /\ UNCHANGED <<holder, sup, outbox, intruded>> /\ st[i] = "idle" /\ Moved(i)
    BY <1>0, <1>3 DEF TryInput, BeginWrite
  <2>2. CASE LockFree
    <3>1. readers' = readers \cup {i} /\ st'[i] \in {"sending", "nacked"}
      BY <1>0, <1>3, <2>2 DEF TryInput, BeginWrite
    <3>2. holder = Nobody
      BY <2>2 DEF LockFree
    <3> QED BY <1>0, <2>1, <3>1, <3>2 DEF LockInv, Calling
  <2>3. CASE ~LockFree
    <3>1. readers' = readers /\ st'[i] = "refused"
      BY <1>0, <1>3, <2>3 DEF TryInput
    <3> QED BY <1>0, <2>1, <3>1 DEF LockInv, Calling
  <2> QED BY <2>2, <2>3
<1>4. ASSUME NEW i \in Inputs, FinishInput(i) \/ HangUp(i) PROVE LockInv'
  <2>1. /\ UNCHANGED <<holder, sup, outbox, intruded>> /\ Moved(i)
        /\ readers' = readers \ {i} /\ st'[i] \in {"ok", "failed", "gone"}
    BY <1>0, <1>4 DEF FinishInput, HangUp
  <2> QED BY <1>0, <2>1 DEF LockInv, Calling
<1>5. ASSUME NEW t \in Txns, QueueTxn(t) PROVE LockInv'
  <2>1. /\ UNCHANGED <<readers, holder, sup, outbox, intruded>> /\ Moved(t)
        /\ st[t] = "idle" /\ st'[t] = "queued"
    BY <1>0, <1>5 DEF QueueTxn
  <2> QED BY <1>0, <2>1 DEF LockInv
<1>6. ASSUME NEW t \in Txns, Grant(t) PROVE LockInv'
  <2>1. /\ UNCHANGED <<readers, sup, outbox, intruded>> /\ Moved(t) /\ readers = {}
        /\ st[t] = "queued" /\ st'[t] = "locked" /\ holder' = t
    BY <1>0, <1>6 DEF Grant
  <2> QED BY <1>0, <2>1 DEF LockInv
<1>7. ASSUME NEW t \in Txns, Expire(t) PROVE LockInv'
  BY <1>7 DEF Expire, LockInv
<1>8. ASSUME NEW t \in Txns, GiveUpQueued(t) PROVE LockInv'
  BY <1>0, <1>1, <1>8 DEF GiveUpQueued
<1>9. ASSUME NEW t \in Txns, TakeBoundary(t) PROVE LockInv'
  BY <1>0, <1>1, <1>9 DEF TakeBoundary
<1>10. ASSUME NEW t \in Txns, TxnWrite(t) PROVE LockInv'
  BY <1>0, <1>1, <1>10 DEF TxnWrite, BeginWrite
<1>11. ASSUME NEW t \in Txns, AfterWrite(t) PROVE LockInv'
  BY <1>0, <1>1, <1>11 DEF AfterWrite
<1>12. ASSUME NEW t \in Txns, EndTxn(t) PROVE LockInv'
  BY <1>0, <1>1, <1>12 DEF EndTxn
<1>13. ASSUME NEW p \in Pressers, Press(p) \/ QueuePress(p) \/ HangUpPress(p) PROVE LockInv'
  BY <1>13 DEF Press, QueuePress, HangUpPress, LockInv
<1> QED
  BY <1>2, <1>3, <1>4, <1>5, <1>6, <1>7, <1>8, <1>9, <1>10, <1>11, <1>12, <1>13
  DEF Callers

\* While a transaction holds the console no input with a caller writes, and
\* at most one slice of an abandoned input reaches the wire, for any number
\* of inputs and transactions.
THEOREM IntrusionIsBounded == Spec => []IntrusionBounded
<1>1. Init => LockInv
  BY CallersAssumption, BoundsAssumption DEF Init, LockInv, Calling, Writers
<1>2. WriteInv /\ LockInv /\ [Next]_vars => LockInv'
  <2>1. ASSUME WriteInv, LockInv, UNCHANGED vars PROVE LockInv'
    BY <2>1 DEF LockInv, vars, portVars, queueVars, callVars, lockVars, wireVars
  <2> QED
    BY <2>1, SupervisorLock, CallersLock DEF Next, WriteInv
<1>3. LockInv => IntrusionBounded
  BY DEF LockInv, IntrusionBounded, Calling
<1> QED
  BY <1>1, <1>2, <1>3, WriteInvariant, PTL DEF Spec

-----------------------------------------------------------------------------
(***************************************************************************)
(* The DTR line.                                                           *)
(***************************************************************************)

ButtonInv ==
  /\ dtr => sup \notin {"top", "select"}
  /\ connected => sup \in {"top", "select", "pressing"}

\* DTR is never left asserted on a port in service: whatever ioctl fails, the
\* interface is out of service until it is reopened with DTR released.
THEOREM ButtonIsReleased == Spec => []ButtonReleased
<1>1. Init => ButtonInv
  BY DEF Init, ButtonInv
<1>2. ButtonInv /\ [Next]_vars => ButtonInv'
  <2> SUFFICES ASSUME ButtonInv, [Next]_vars PROVE ButtonInv'
    OBVIOUS
  <2> USE DEF portVars, queueVars, callVars, lockVars, dtrVars, wireVars, ButtonInv
  <2>1. CASE Supervisor
    <3>1. CASE OpenOk
      BY <3>1 DEF OpenOk
    <3>2. CASE OpenFail \/ BackoffEnd
      BY <3>2 DEF OpenFail, BackoffEnd
    <3>3. CASE BackoffRefuse \/ DiscardCancelled
      BY <3>3 DEF BackoffRefuse, DiscardCancelled
    <3>4. CASE EnterSelect \/ ReadArm \/ WriteArm \/ PaceTick \/ RequestArm
      <4>1. /\ UNCHANGED <<connected, dtr>>
            /\ \/ sup \in {"top", "select"} /\ sup' \in {"top", "select"}
               \/ sup' = sup
        BY <3>4 DEF EnterSelect, ReadArm, WriteArm, PaceTick, RequestArm
      <4> QED BY <4>1
    <3>5. CASE PressArm
      BY <3>5 DEF PressArm
    <3>6. CASE PressOk
      BY <3>6 DEF PressOk
    <3>7. CASE PressFail
      BY <3>7 DEF PressFail
    <3>8. CASE Disconnect \/ DropOutbox
      BY <3>8 DEF Disconnect, DropOutbox
    <3> QED
      BY <2>1, <3>1, <3>2, <3>3, <3>4, <3>5, <3>6, <3>7, <3>8 DEF Supervisor
  <2>2. CASE Callers
    <3>1. ASSUME NEW c \in Writers, Enqueue(c) PROVE UNCHANGED <<sup, connected, dtr>>
      BY <3>1 DEF Enqueue
    <3>2. ASSUME NEW i \in Inputs, TryInput(i) \/ FinishInput(i) \/ HangUp(i)
          PROVE  UNCHANGED <<sup, connected, dtr>>
      BY <3>2 DEF TryInput, FinishInput, HangUp
    <3>3. ASSUME NEW t \in Txns,
                 \/ QueueTxn(t) \/ Grant(t) \/ Expire(t) \/ GiveUpQueued(t)
                 \/ TakeBoundary(t) \/ TxnWrite(t) \/ AfterWrite(t) \/ EndTxn(t)
          PROVE  UNCHANGED <<sup, connected, dtr>>
      BY <3>3 DEF QueueTxn, Grant, Expire, GiveUpQueued, TakeBoundary, TxnWrite,
         AfterWrite, EndTxn
    <3>4. ASSUME NEW p \in Pressers, Press(p) \/ QueuePress(p) \/ HangUpPress(p)
          PROVE  UNCHANGED <<sup, connected, dtr>>
      BY <3>4 DEF Press, QueuePress, HangUpPress
    <3>5. UNCHANGED <<sup, connected, dtr>>
      BY <2>2, <3>1, <3>2, <3>3, <3>4 DEF Callers
    <3> QED BY <3>5
  <2>3. CASE UNCHANGED vars
    BY <2>3 DEF vars
  <2> QED BY <2>1, <2>2, <2>3 DEF Next
<1>3. ButtonInv => ButtonReleased
  BY DEF ButtonInv, ButtonReleased
<1> QED
  BY <1>1, <1>2, <1>3, PTL DEF Spec
-----------------------------------------------------------------------------
(***************************************************************************)
(* The outbox's byte counter.  That it is the sum of the queued sizes less *)
(* the cursor is said without a recursive sum: there is a ledger of the    *)
(* bytes from each position of the queue on, and the steps that move       *)
(* requests move the ledger along.                                         *)
(***************************************************************************)

Ledger(q, left) ==
  /\ left \in [1..(Len(q) + 1) -> Nat]
  /\ left[Len(q) + 1] = 0
  /\ \A k \in 1..Len(q) : left[k] = Size[q[k]] + left[k + 1]

PendingInv == \E left : Ledger(outbox, left) /\ pending = left[1] - cursor

\* What a ledger says of the queue's head.
LEMMA LedgerHead ==
  ASSUME NEW q \in Seq(Writers), NEW left, Ledger(q, left)
  PROVE  /\ left[1] \in Nat
         /\ q = <<>> => left[1] = 0
         /\ q # <<>> => left[1] >= Size[q[1]] /\ left[1] = Size[q[1]] + left[2] /\ left[2] \in Nat
<1>1. Len(q) \in Nat /\ (q # <<>> <=> Len(q) > 0)
  BY LenFacts
<1>2. CASE q = <<>>
  BY <1>1, <1>2 DEF Ledger
<1>3. CASE q # <<>>
  <2>1. 1 \in 1..Len(q) /\ 1 \in 1..(Len(q) + 1) /\ 2 \in 1..(Len(q) + 1)
    BY <1>1, <1>3
  <2>2. left[1] = Size[q[1]] + left[2] /\ left[1] \in Nat /\ left[2] \in Nat
    BY <2>1 DEF Ledger
  <2>3. Size[q[1]] \in Nat
    BY <2>1, ElementOfSeq, CallersAssumption
  <2> QED BY <1>3, <2>2, <2>3
<1> QED BY <1>2, <1>3

\* Taking the head off, and a request joining the queue.
LEMMA LedgerTail ==
  ASSUME NEW q \in Seq(Writers), q # <<>>, NEW left, Ledger(q, left)
  PROVE  \E rest : Ledger(Tail(q), rest) /\ rest[1] = left[2]
<1> DEFINE rest == [k \in 1..(Len(Tail(q)) + 1) |-> left[k + 1]]
<1>1. /\ Len(q) \in Nat \ {0} /\ Len(Tail(q)) = Len(q) - 1
      /\ \A k \in 1..Len(Tail(q)) : Tail(q)[k] = q[k + 1]
  BY TailFacts
<1>2. rest \in [1..(Len(Tail(q)) + 1) -> Nat] /\ rest[1] = left[2]
  BY <1>1 DEF Ledger
<1>3. rest[Len(Tail(q)) + 1] = 0
  BY <1>1 DEF Ledger
<1>4. ASSUME NEW k \in 1..Len(Tail(q)) PROVE rest[k] = Size[Tail(q)[k]] + rest[k + 1]
  <2>1. k + 1 \in 1..Len(q) /\ k \in 1..(Len(Tail(q)) + 1) /\ k + 1 \in 1..(Len(Tail(q)) + 1)
    BY <1>1
  <2>2. left[k + 1] = Size[q[k + 1]] + left[(k + 1) + 1]
    BY <2>1 DEF Ledger
  <2> QED BY <1>1, <2>1, <2>2
<1>5. Ledger(Tail(q), rest)
  BY <1>2, <1>3, <1>4 DEF Ledger
<1> QED BY <1>2, <1>5

LEMMA LedgerAppend ==
  ASSUME NEW q \in Seq(Writers), NEW c \in Writers, NEW left, Ledger(q, left)
  PROVE  \E more : Ledger(Append(q, c), more) /\ more[1] = left[1] + Size[c]
<1> DEFINE long == Append(q, c)
           more == [k \in 1..(Len(long) + 1) |->
                      IF k = Len(long) + 1 THEN 0 ELSE left[k] + Size[c]]
<1>1. /\ Len(q) \in Nat /\ Len(long) = Len(q) + 1
      /\ \A k \in 1..Len(q) : long[k] = q[k]
      /\ long[Len(q) + 1] = c
  BY AppendFacts
<1>2. Size[c] \in Nat
  BY CallersAssumption
<1>3. more \in [1..(Len(long) + 1) -> Nat] /\ more[1] = left[1] + Size[c] /\ more[Len(long) + 1] = 0
  BY <1>1, <1>2 DEF Ledger
<1>4. ASSUME NEW k \in 1..Len(long) PROVE more[k] = Size[long[k]] + more[k + 1]
  <2>1. /\ more[k] = left[k] + Size[c]
        /\ more[k + 1] = IF k = Len(long) THEN 0 ELSE left[k + 1] + Size[c]
    BY <1>1
  <2>2. CASE k = Len(long)
    BY <1>1, <1>2, <2>1, <2>2 DEF Ledger
  <2>3. CASE k # Len(long)
    <3>1. k \in 1..Len(q) /\ long[k] = q[k]
      BY <1>1, <2>3
    <3>2. left[k] = Size[q[k]] + left[k + 1] /\ left[k] \in Nat /\ left[k + 1] \in Nat
      BY <1>1, <3>1 DEF Ledger
    <3>3. Size[q[k]] \in Nat
      BY <3>1, ElementOfSeq, CallersAssumption
    <3>4. left[k] + Size[c] = Size[q[k]] + (left[k + 1] + Size[c])
      BY <1>2, <3>2, <3>3
    <3> HIDE DEF more, long
    <3> QED BY <2>1, <2>3, <3>1, <3>4
  <2> QED BY <2>2, <2>3
<1>5. Ledger(long, more)
  BY <1>3, <1>4 DEF Ledger
<1> QED BY <1>3, <1>5

\* No step of the port makes the counter and the queue disagree.
LEMMA PendingStep ==
  ASSUME WriteInv, PendingInv, [Next]_vars
  PROVE  PendingInv'
<1> DEFINE Still == UNCHANGED <<outbox, cursor, pending>>
<1>0. /\ outbox \in Seq(Writers) /\ cursor \in Nat /\ pending \in Int
      /\ outbox # <<>> => cursor < Size[outbox[1]] /\ Size[outbox[1]] \in Nat
  <2>1. outbox \in Seq(Writers) /\ cursor \in Nat /\ pending \in Int
    BY DEF WriteInv, TypeOK
  <2>2. outbox # <<>> => outbox[1] \in Writers
    BY <2>1, TailFacts
  <2> QED BY <2>1, <2>2, CallersAssumption DEF WriteInv, CursorIsSent
<1>1. PICK left : Ledger(outbox, left) /\ pending = left[1] - cursor
  BY DEF PendingInv
<1>2. ASSUME Still PROVE PendingInv'
  BY <1>1, <1>2 DEF PendingInv
<1>3. CASE DiscardCancelled
  <2>1. /\ outbox # <<>> /\ outbox' = Tail(outbox) /\ cursor' = 0
        /\ pending' = pending - (Size[outbox[1]] - cursor)
    BY <1>0, <1>3, TailFacts DEF DiscardCancelled
  <2>2. PICK rest : Ledger(Tail(outbox), rest) /\ rest[1] = left[2]
    BY <1>0, <1>1, <2>1, LedgerTail
  <2>3. left[1] = Size[outbox[1]] + left[2] /\ left[2] \in Nat
    BY <1>0, <1>1, <2>1, LedgerHead
  <2>4. pending' = rest[1] - cursor'
    BY <1>0, <1>1, <2>1, <2>2, <2>3
  <2> QED BY <2>1, <2>2, <2>4 DEF PendingInv
<1>4. CASE WriteArm
  <2>1. outbox # <<>> /\ Head(outbox) = outbox[1]
    BY <1>0, <1>4, TailFacts DEF WriteArm
  <2>2. PICK n \in 1..Slice : Consume(n)
    BY <1>4 DEF WriteArm
  <2>3. n \in Nat /\ pending' = pending - n
    BY <1>4, <2>1, <2>2, SliceFacts DEF Consume, WriteInv
  <2>4. left[1] \in Nat /\ left[1] = Size[outbox[1]] + left[2] /\ left[2] \in Nat
    BY <1>0, <1>1, <2>1, LedgerHead
  <2>5. CASE Finished(n)
    <3>1. outbox' = Tail(outbox) /\ cursor' = 0 /\ cursor + n = Size[outbox[1]]
      BY <2>1, <2>2, <2>5 DEF Consume, Finished
    <3>2. PICK rest : Ledger(Tail(outbox), rest) /\ rest[1] = left[2]
      BY <1>0, <1>1, <2>1, LedgerTail
    <3>3. pending' = rest[1] - cursor'
      BY <1>0, <1>1, <2>3, <2>4, <3>1, <3>2
    <3> QED BY <3>1, <3>2, <3>3 DEF PendingInv
  <2>6. CASE ~Finished(n)
    <3>1. outbox' = outbox /\ cursor' = cursor + n
      BY <2>2, <2>6 DEF Consume
    <3>2. pending' = left[1] - cursor'
      BY <1>0, <1>1, <2>3, <2>4, <3>1
    <3> QED BY <1>1, <3>1, <3>2 DEF PendingInv
  <2> QED BY <2>5, <2>6
<1>5. CASE RequestArm
  <2>1. chan \in Seq(Writers) /\ chan # <<>> /\ Head(chan) \in Writers
    BY <1>5, TailFacts DEF RequestArm, WriteInv, TypeOK
  <2>2. CASE Current(Head(chan))
    <3>1. /\ outbox' = Append(outbox, Head(chan)) /\ cursor' = cursor
          /\ pending' = pending + Size[Head(chan)]
      BY <1>5, <2>2 DEF RequestArm, Enqueued
    <3>2. PICK more : Ledger(Append(outbox, Head(chan)), more) /\ more[1] = left[1] + Size[Head(chan)]
      BY <1>0, <1>1, <2>1, LedgerAppend
    <3>3. Size[Head(chan)] \in Nat /\ left[1] \in Nat
      BY <1>0, <1>1, <2>1, LedgerHead, CallersAssumption
    <3>4. pending' = more[1] - cursor'
      BY <1>0, <1>1, <3>1, <3>2, <3>3
    <3> QED BY <3>1, <3>2, <3>4 DEF PendingInv
  <2>3. CASE ~Current(Head(chan))
    BY <1>2, <1>5, <2>3 DEF RequestArm
  <2> QED BY <2>2, <2>3
<1>6. CASE DropOutbox
  <2>1. outbox' = <<>> /\ cursor' = 0 /\ pending' = 0 /\ Len(outbox') = 0
    BY <1>6 DEF DropOutbox
  <2>2. Ledger(outbox', [k \in 1..1 |-> 0])
    BY <2>1 DEF Ledger
  <2>3. pending' = [k \in 1..1 |-> 0][1] - cursor'
    BY <2>1
  <2> QED BY <2>2, <2>3 DEF PendingInv
<1>7. CASE OpenOk \/ OpenFail \/ BackoffRefuse \/ BackoffEnd \/ EnterSelect \/ ReadArm
           \/ PaceTick \/ PressArm \/ PressOk \/ PressFail \/ Disconnect
  <2>1. Still
    BY <1>7 DEF OpenOk, OpenFail, BackoffRefuse, BackoffEnd, EnterSelect, ReadArm, PaceTick,
       PressArm, PressOk, PressFail, Disconnect, queueVars
  <2> QED BY <1>2, <2>1
<1>8. CASE Callers
  <2>1. ASSUME NEW c \in Writers, Enqueue(c) PROVE Still
    BY <2>1 DEF Enqueue
  <2>2. ASSUME NEW i \in Inputs, TryInput(i) \/ FinishInput(i) \/ HangUp(i) PROVE Still
    BY <2>2 DEF TryInput, FinishInput, HangUp, queueVars
  <2>3. ASSUME NEW t \in Txns,
               \/ QueueTxn(t) \/ Grant(t) \/ Expire(t) \/ GiveUpQueued(t)
               \/ TakeBoundary(t) \/ TxnWrite(t) \/ AfterWrite(t) \/ EndTxn(t)
        PROVE  Still
    BY <2>3 DEF QueueTxn, Grant, Expire, GiveUpQueued, TakeBoundary, TxnWrite, AfterWrite,
       EndTxn, queueVars
  <2>4. ASSUME NEW p \in Pressers, Press(p) \/ QueuePress(p) \/ HangUpPress(p) PROVE Still
    BY <2>4 DEF Press, QueuePress, HangUpPress, queueVars
  <2>5. Still
    BY <1>8, <2>1, <2>2, <2>3, <2>4 DEF Callers
  <2> QED BY <1>2, <2>5
<1>9. CASE UNCHANGED vars
  BY <1>2, <1>9 DEF vars, queueVars
<1> QED
  BY <1>3, <1>4, <1>5, <1>6, <1>7, <1>8, <1>9 DEF Next, Supervisor

\* The counter that switches the loop's write and timer arms agrees with the queue that they
\* serve, after every cancel, partial write and drop (Outbox::is_empty, Outbox::front).
THEOREM CounterAgrees == Spec => []PendingAgrees
<1>1. Init => PendingInv
  <2> SUFFICES ASSUME Init PROVE PendingInv
    OBVIOUS
  <2>1. outbox = <<>> /\ cursor = 0 /\ pending = 0 /\ Len(outbox) = 0
    BY DEF Init
  <2>2. Ledger(outbox, [k \in 1..1 |-> 0])
    BY <2>1 DEF Ledger
  <2>3. pending = [k \in 1..1 |-> 0][1] - cursor
    BY <2>1
  <2> QED BY <2>2, <2>3 DEF PendingInv
<1>2. WriteInv /\ PendingInv /\ [Next]_vars => PendingInv'
  BY PendingStep
<1>3. WriteInv /\ PendingInv => PendingAgrees
  <2> SUFFICES ASSUME WriteInv, PendingInv PROVE PendingAgrees
    OBVIOUS
  <2>1. PICK left : Ledger(outbox, left) /\ pending = left[1] - cursor
    BY DEF PendingInv
  <2>2. outbox \in Seq(Writers) /\ cursor \in Nat
    BY DEF WriteInv, TypeOK
  <2>3. CASE outbox = <<>>
    <3>1. cursor = 0 /\ left[1] = 0
      BY <2>1, <2>2, <2>3, LedgerHead DEF WriteInv, CursorIsSent
    <3> QED BY <2>1, <2>3, <3>1 DEF PendingAgrees
  <2>4. CASE outbox # <<>>
    <3>1. Head(outbox) = outbox[1] /\ outbox[1] \in Writers
      BY <2>2, <2>4, TailFacts
    <3>2. Size[outbox[1]] \in Nat /\ cursor < Size[outbox[1]]
      BY <2>4, <3>1, CallersAssumption DEF WriteInv, CursorIsSent
    <3>3. left[1] \in Nat /\ left[1] >= Size[outbox[1]]
      BY <2>1, <2>2, <2>4, LedgerHead
    <3> QED BY <2>1, <2>2, <2>4, <3>1, <3>2, <3>3 DEF PendingAgrees
  <2> QED BY <2>3, <2>4
<1> QED
  BY <1>1, <1>2, <1>3, WriteInvariant, PTL DEF Spec

\* For any callers, sizes, capacities and connections, the port is handed on whole: what
\* PortIsHandedOn gathers holds in every state (port_supervisor, Outbox, try_input).
THEOREM PortAlwaysHandedOn == Spec => []PortIsHandedOn
<1>1. TypeOK /\ PendingAgrees /\ IntrusionBounded /\ ButtonReleased => PortIsHandedOn
  BY DEF PortIsHandedOn
<1> QED
  BY <1>1, TypeCorrect, CounterAgrees, IntrusionIsBounded, ButtonIsReleased, PTL

-----------------------------------------------------------------------------
(***************************************************************************)
(* The receive side: types, what a client is shown, what the capture       *)
(* thread is handed and the watermarks.                                    *)
(***************************************************************************)
\* The ring lock belongs to whoever is in the middle of its use of the ring.
LockHeld ==
  /\ pc = "pushed" <=> lock = PortTask
  /\ \A c \in Clients : cst[c] = "attaching" => lock = c

\* The ring ends where the broadcast stream ends, but for the chunk that the
\* supervisor has pushed and not yet sent.
RingAgrees ==
  /\ pushed = EndOf(Len(ends)) + (IF pc = "pushed" THEN chunk.size ELSE 0)
  /\ ringLen <= pushed

\* A subscription begins with the next message to be sent.
Subscribed ==
  \A c \in Clients :
    /\ next[c] >= 1
    /\ next[c] <= Len(ends) + 1
    /\ cst[c] \in {"out", "attaching"} => taken[c] = 0 /\ dropped[c] = 0
    /\ cst[c] = "attaching" => next[c] = Len(ends) + 1 /\ first[c] = next[c]

\* Stream positions only grow.
Ascending == \A k \in 1..Len(ends) : EndOf(k - 1) <= ends[k]

ClientInv ==
  /\ RxTypeOK
  /\ LockHeld
  /\ RingAgrees
  /\ Subscribed
  /\ Ascending
  /\ ExactlyOnce

\* The chunk that the supervisor hands over next has the last number given,
\* and is not captured yet.
ChunkIsLast ==
  pc = "tee" /\ chunk.rx # 0 => chunk.rx = lastRx /\ captured < lastRx

CaptureInv == RxTypeOK /\ ChunkIsLast /\ CaptureComplete /\ Watermarks

USE RxAssumption

-----------------------------------------------------------------------------
LEMMA RxAppendFacts ==
  ASSUME NEW S, NEW s \in Seq(S), NEW e \in S
  PROVE  /\ Append(s, e) \in Seq(S)
         /\ Len(Append(s, e)) = Len(s) + 1
         /\ DOMAIN Append(s, e) = 1..(Len(s) + 1)
         /\ DOMAIN s = 1..Len(s)
         /\ Len(s) \in Nat
         /\ \A k \in 1..Len(s) : Append(s, e)[k] = s[k]
         /\ Append(s, e)[Len(s) + 1] = e
OBVIOUS

LEMMA RxTailFacts ==
  ASSUME NEW S, NEW s \in Seq(S), s # <<>>
  PROVE  /\ Tail(s) \in Seq(S)
         /\ Head(s) \in S
         /\ Head(s) = s[1]
         /\ Len(s) \in Nat
         /\ Len(s) > 0
         /\ Len(Tail(s)) = Len(s) - 1
         /\ DOMAIN s = 1..Len(s)
         /\ DOMAIN Tail(s) = 1..(Len(s) - 1)
         /\ \A k \in 1..(Len(s) - 1) : Tail(s)[k] = s[k + 1]
OBVIOUS

LEMMA EndOfType ==
  ASSUME RxTypeOK, NEW k \in Nat, k <= Len(ends)
  PROVE  EndOf(k) \in Nat
<1>1. ends \in Seq(Nat)
  BY DEF RxTypeOK
<1>2. k # 0 => k \in 1..Len(ends)
  BY <1>1
<1> QED
  BY <1>1, <1>2 DEF EndOf

LEMMA TypeStep == ClientInv /\ [RxNext]_rxVars => RxTypeOK'
<1> SUFFICES ASSUME ClientInv, [RxNext]_rxVars
             PROVE  RxTypeOK'
  OBVIOUS
<1> USE DEF ClientInv
<1>1. ASSUME NEW n \in Sizes, Receive(n) \/ EmitMarker(n)
      PROVE  RxTypeOK'
  <2>1. n \in Nat
    OBVIOUS
  <2>2. chunk' \in [rx : Nat, size : Nat]
    BY <1>1, <2>1 DEF RxTypeOK, Receive, EmitMarker
  <2>3. UNCHANGED <<capVars, ringVars, clientVars>>
    BY <1>1 DEF Receive, EmitMarker
  <2>4. pc' = "tee" /\ lastRx' \in Nat /\ markers' \in Nat
    BY <1>1 DEF RxTypeOK, Receive, EmitMarker
  <2> QED
    BY <2>2, <2>3, <2>4 DEF RxTypeOK, capVars, ringVars, clientVars
<1>2. CASE Tee
  <2>1. captureAlive' \in BOOLEAN
    BY <1>2 DEF Tee
  <2>2. queue' \in Seq(Nat)
    BY <1>2 DEF Tee, Handed, RxTypeOK
  <2> QED
    BY <1>2, <2>1, <2>2 DEF RxTypeOK, Tee, ringVars, clientVars
<1>3. CASE PushRing
  <2>1. RingAfter(chunk.size) \in 0..RingBytes
    BY DEF RxTypeOK, RingAfter, Min2
  <2> QED
    BY <1>3, <2>1 DEF RxTypeOK, PushRing, capVars, clientVars
<1>4. CASE SendLive
  <2>1. Len(ends) \in Nat
    BY DEF RxTypeOK
  <2>2. EndOf(Len(ends)) \in Nat
    BY <2>1, EndOfType
  <2>3. ends' \in Seq(Nat)
    BY <1>4, <2>2 DEF RxTypeOK, SendLive
  <2> QED
    BY <1>4, <2>3 DEF RxTypeOK, SendLive, capVars, clientVars
<1>5. CASE Capture
  <2>1. Tail(queue) \in Seq(Nat) /\ Head(queue) \in Nat
    BY <1>5, RxTailFacts DEF RxTypeOK, Capture
  <2>2. fault' \in BOOLEAN
    BY <1>5 DEF RxTypeOK, Capture
  <2>3. captured' \in Nat /\ evidence' \in Nat
    BY <1>5, <2>1 DEF RxTypeOK, Capture, EvidenceAfter
  <2> QED
    BY <1>5, <2>1, <2>2, <2>3 DEF RxTypeOK, Capture, supVars, ringVars, clientVars
<1>6. CASE CaptureDies
  <2>1. alive' \in BOOLEAN /\ captureAlive' \in BOOLEAN /\ fault' \in BOOLEAN
    BY <1>6 DEF RxTypeOK, CaptureDies
  <2> QED
    BY <1>6, <2>1 DEF RxTypeOK, CaptureDies, supVars, ringVars, clientVars
<1>7. ASSUME NEW c \in Clients, Client(c)
      PROVE  RxTypeOK'
  <2>1. CASE AttachSubscribe(c)
    <3> DEFINE k == Len(ends) + 1
    <3>1. k \in Nat
      BY DEF RxTypeOK
    <3>2. next' = [next EXCEPT ![c] = k] /\ first' = [first EXCEPT ![c] = k]
          /\ cst' = [cst EXCEPT ![c] = "attaching"] /\ lock' = c
          /\ UNCHANGED <<supVars, capVars, pushed, ringLen, ends, from, shown, taken, dropped>>
      BY <2>1 DEF AttachSubscribe
    <3> HIDE DEF k
    <3>3. next' \in [Clients -> Nat] /\ first' \in [Clients -> Nat]
      BY <3>1, <3>2 DEF RxTypeOK
    <3>4. cst' \in [Clients -> {"out", "attaching", "live", "gone"}]
      BY <3>2 DEF RxTypeOK
    <3> QED BY <1>7, <3>2, <3>3, <3>4 DEF RxTypeOK, supVars, capVars
  <2>2. CASE AttachSnapshot(c)
    <3>0. pushed \in Nat /\ ringLen \in 0..RingBytes
      BY DEF RxTypeOK
    <3>1. pushed - ringLen \in Nat /\ ringLen \in Nat
      BY <3>0 DEF RingAgrees
    <3> QED
      BY <2>2, <3>1 DEF RxTypeOK, AttachSnapshot, supVars, capVars
  <2>3. CASE Forward(c)
    <3>1. next[c] \in 1..Len(ends) /\ Len(ends) \in Nat
      BY <2>3 DEF RxTypeOK, Forward, Subscribed
    <3>2. EndOf(next[c] - 1) \in Nat
      BY <3>1, EndOfType
    <3>3. EndOf(next[c] - 1) <= ends[next[c]]
      BY <3>1 DEF Ascending
    <3>a. ends \in Seq(Nat) /\ shown[c] \in Nat
      BY DEF RxTypeOK
    <3>4. ends[next[c]] \in Nat
      BY <3>1, <3>a
    <3> DEFINE d == ends[next[c]] - EndOf(next[c] - 1)
    <3>5. d \in Nat
      BY <3>2, <3>3, <3>4
    <3>6. /\ shown' = [shown EXCEPT ![c] = @ + d]
          /\ taken' = [taken EXCEPT ![c] = @ + 1]
          /\ next' = [next EXCEPT ![c] = @ + 1]
          /\ UNCHANGED <<supVars, capVars, ringVars, cst, first, from, dropped>>
      BY <2>3 DEF Forward
    <3> HIDE DEF d
    <3>7. /\ shown' \in [Clients -> Nat]
          /\ taken' \in [Clients -> Nat]
          /\ next' \in [Clients -> Nat]
      <4>1. shown \in [Clients -> Nat] /\ taken \in [Clients -> Nat] /\ next \in [Clients -> Nat]
        BY DEF RxTypeOK
      <4> QED
        BY <3>5, <3>6, <4>1
    <3>8. alive' \in BOOLEAN /\ captureAlive' \in BOOLEAN /\ fault' \in BOOLEAN
      BY <3>6 DEF RxTypeOK, capVars
    <3> QED
      BY <3>6, <3>7, <3>8 DEF RxTypeOK, supVars, capVars, ringVars
  <2>4. CASE Lagged(c)
    <3>1. Oldest \in Nat
      BY DEF RxTypeOK, Oldest
    <3>2. Skipped(c) \in Nat
      BY <2>4, <3>1 DEF RxTypeOK, Skipped, Lagged
    <3>3. /\ dropped' \in [Clients -> Nat]
          /\ next' \in [Clients -> Nat]
      BY <2>4, <3>1, <3>2 DEF RxTypeOK, Lagged
    <3>4. alive' \in BOOLEAN /\ captureAlive' \in BOOLEAN /\ fault' \in BOOLEAN
      BY <2>4 DEF RxTypeOK, Lagged, capVars
    <3> QED
      BY <2>4, <3>3, <3>4 DEF RxTypeOK, Lagged, supVars, capVars, ringVars
  <2>5. CASE Detach(c)
    BY <2>5 DEF RxTypeOK, Detach, supVars, capVars, ringVars
  <2> QED
    BY <1>7, <2>1, <2>2, <2>3, <2>4, <2>5 DEF Client
<1>8. CASE UNCHANGED rxVars
  BY <1>8 DEF RxTypeOK, rxVars, supVars, capVars, ringVars, clientVars
<1> QED
  BY <1>1, <1>2, <1>3, <1>4, <1>5, <1>6, <1>7, <1>8 DEF RxNext, Publish, Quiescent

-----------------------------------------------------------------------------
(***************************************************************************)
(* What a client is shown.                                                 *)
(***************************************************************************)

LEMMA EndOfAppend ==
  ASSUME RxTypeOK, NEW e \in Nat, ends' = Append(ends, e)
  PROVE  /\ Len(ends)' = Len(ends) + 1
         /\ EndOf(Len(ends))' = e
         /\ \A k \in 0..Len(ends) : EndOf(k)' = EndOf(k)
         /\ \A k \in 1..Len(ends) : ends'[k] = ends[k]
         /\ ends'[Len(ends) + 1] = e
<1>1. ends \in Seq(Nat)
  BY DEF RxTypeOK
<1>2. /\ Len(ends') = Len(ends) + 1
      /\ Len(ends) \in Nat
      /\ \A k \in 1..Len(ends) : ends'[k] = ends[k]
      /\ ends'[Len(ends) + 1] = e
  BY <1>1, RxAppendFacts
<1>3. \A k \in 0..Len(ends) : EndOf(k)' = EndOf(k)
  BY <1>2 DEF EndOf
<1> QED
  BY <1>2, <1>3 DEF EndOf

LEMMA ClientInit == RxInit => ClientInv
<1> SUFFICES ASSUME RxInit PROVE ClientInv
  OBVIOUS
<1>1. RxTypeOK
  <2>1. fault \in BOOLEAN
    BY DEF RxInit
  <2> QED
    BY <2>1 DEF RxInit, RxTypeOK
<1>2. Len(ends) = 0
  BY DEF RxInit
<1> QED
  BY <1>1, <1>2
  DEF RxInit, ClientInv, LockHeld, RingAgrees, Subscribed, Ascending, ExactlyOnce,
      EndOf

LEMMA ClientStep == ClientInv /\ [RxNext]_rxVars => ClientInv'
<1> SUFFICES ASSUME ClientInv, [RxNext]_rxVars
             PROVE  ClientInv'
  OBVIOUS
<1>0. RxTypeOK'
  BY TypeStep
<1>t. RxTypeOK /\ Len(ends) \in Nat
  BY DEF ClientInv, RxTypeOK
<1>1. ASSUME NEW n \in Sizes, Receive(n) \/ EmitMarker(n)
      PROVE  ClientInv'
  BY <1>0, <1>1
  DEF ClientInv, Receive, EmitMarker, LockHeld, RingAgrees, Subscribed,
      Ascending, ExactlyOnce, EndOf, ringVars, clientVars
<1>2. CASE Tee
  BY <1>0, <1>2
  DEF ClientInv, Tee, LockHeld, RingAgrees, Subscribed,
      Ascending, ExactlyOnce, EndOf, ringVars, clientVars
<1>3. CASE PushRing
  <2>1. LockHeld'
    BY <1>3 DEF ClientInv, RxTypeOK, PushRing, LockHeld, clientVars
  <2>2. EndOf(Len(ends)) \in Nat
    BY <1>t, EndOfType
  <2>3. RingAfter(chunk.size) <= pushed + chunk.size
    BY DEF ClientInv, RxTypeOK, RingAfter, Min2, RingAgrees
  <2>4. RingAgrees'
    BY <1>3, <2>2, <2>3 DEF ClientInv, RxTypeOK, PushRing, RingAgrees, EndOf
  <2>5. (Subscribed /\ Ascending /\ ExactlyOnce)'
    BY <1>3 DEF ClientInv, PushRing, Subscribed, Ascending, ExactlyOnce, EndOf, clientVars
  <2> QED
    BY <1>0, <2>1, <2>4, <2>5 DEF ClientInv
<1>4. CASE SendLive
  <2> DEFINE e == EndOf(Len(ends)) + chunk.size
  <2>1. EndOf(Len(ends)) \in Nat /\ chunk.size \in Nat /\ e \in Nat
    BY <1>t, EndOfType DEF RxTypeOK
  <2>2. ends' = Append(ends, e)
    BY <1>4 DEF SendLive
  <2> HIDE DEF e
  <2>3. /\ Len(ends)' = Len(ends) + 1
        /\ EndOf(Len(ends))' = e
        /\ \A k \in 0..Len(ends) : EndOf(k)' = EndOf(k)
        /\ \A k \in 1..Len(ends) : ends'[k] = ends[k]
        /\ ends'[Len(ends) + 1] = e
    BY <1>t, <2>1, <2>2, EndOfAppend
  <2>4. LockHeld'
    BY <1>4 DEF ClientInv, RxTypeOK, SendLive, LockHeld, clientVars
  <2>5. RingAgrees'
    <3>1. EndOf(Len(ends))' = e
      BY <2>3
    <3>2. pushed = e
      BY <1>4 DEF e, SendLive, ClientInv, RingAgrees
    <3> QED
      BY <1>4, <2>1, <3>1, <3>2 DEF SendLive, ClientInv, RingAgrees, RxTypeOK
  <2>6. Subscribed'
    <3> SUFFICES ASSUME NEW c \in Clients
                 PROVE  /\ next[c]' >= 1
                        /\ next[c]' <= Len(ends)' + 1
                        /\ cst[c]' \in {"out", "attaching"} => taken[c]' = 0 /\ dropped[c]' = 0
                        /\ cst[c]' = "attaching" => next[c]' = Len(ends)' + 1 /\ first[c]' = next[c]'
      BY DEF Subscribed
    <3>1. cst[c] # "attaching"
      BY <1>4 DEF ClientInv, LockHeld, SendLive
    <3>2. UNCHANGED <<cst, next, first, taken, dropped>>
      BY <1>4 DEF SendLive, clientVars
    <3>3. next[c] \in Nat
      BY DEF ClientInv, RxTypeOK
    <3> QED
      BY <1>t, <2>3, <3>1, <3>2, <3>3 DEF ClientInv, Subscribed
  <2>7. Ascending'
    <3> SUFFICES ASSUME NEW k \in 1..(Len(ends) + 1)
                 PROVE  EndOf(k - 1)' <= ends'[k]
      BY <2>3 DEF Ascending
    <3>1. k - 1 \in 0..Len(ends)
      BY <1>t
    <3>2. EndOf(k - 1)' = EndOf(k - 1)
      BY <2>3, <3>1
    <3>3. CASE k \in 1..Len(ends)
      BY <2>3, <3>2, <3>3 DEF ClientInv, Ascending
    <3>4. CASE k = Len(ends) + 1
      <4>1. k - 1 = Len(ends)
        BY <1>t, <3>4
      <4> QED
        BY <2>1, <2>3, <3>2, <3>4, <4>1 DEF e
    <3> QED
      BY <1>t, <3>3, <3>4
  <2>8. ExactlyOnce'
    <3> SUFFICES ASSUME NEW c \in Clients, cst[c]' \in {"live", "gone"}
                 PROVE  /\ first[c]' + taken[c]' + dropped[c]' = next[c]'
                        /\ dropped[c]' = 0 => from[c]' + shown[c]' = EndOf(next[c] - 1)'
      BY DEF ExactlyOnce
    <3>1. UNCHANGED <<cst, next, first, from, shown, taken, dropped>>
      BY <1>4 DEF SendLive, clientVars
    <3>a. next[c] \in Nat /\ next[c] >= 1 /\ next[c] <= Len(ends) + 1
      BY DEF ClientInv, RxTypeOK, Subscribed
    <3>2. next[c] - 1 \in 0..Len(ends)
      BY <1>t, <3>a
    <3>3. EndOf(next[c] - 1)' = EndOf(next[c] - 1)
      BY <2>3, <3>1, <3>2 DEF EndOf
    <3> QED
      BY <3>1, <3>3 DEF ClientInv, ExactlyOnce
  <2> QED
    BY <1>0, <2>4, <2>5, <2>6, <2>7, <2>8 DEF ClientInv
<1>5. CASE Capture \/ CaptureDies
  BY <1>0, <1>5
  DEF ClientInv, Capture, CaptureDies, LockHeld, RingAgrees, Subscribed,
      Ascending, ExactlyOnce, EndOf, supVars, ringVars, clientVars
<1>7. ASSUME NEW c \in Clients, Client(c)
      PROVE  ClientInv'
  <2>0. UNCHANGED <<supVars, capVars, pushed, ringLen, ends>>
    BY <1>7 DEF Client, AttachSubscribe, AttachSnapshot, Forward, Lagged, Detach, ringVars
  <2>1. RingAgrees' /\ Ascending'
    BY <2>0 DEF ClientInv, RingAgrees, Ascending, EndOf, supVars
  <2>2. \A k : EndOf(k)' = EndOf(k)
    BY <2>0 DEF EndOf
  <2>3. Oldest \in Nat /\ Oldest <= Len(ends) + 1
    BY <1>t DEF Oldest
  <2>4. LockHeld'
    <3>1. CASE AttachSubscribe(c)
      BY <2>0, <3>1 DEF ClientInv, RxTypeOK, LockHeld, AttachSubscribe, supVars
    <3>2. CASE AttachSnapshot(c)
      BY <2>0, <3>2 DEF ClientInv, RxTypeOK, LockHeld, AttachSnapshot, supVars
    <3>3. CASE Forward(c) \/ Lagged(c) \/ Detach(c)
      BY <2>0, <3>3 DEF ClientInv, RxTypeOK, LockHeld, Forward, Lagged, Detach, supVars, ringVars
    <3> QED
      BY <1>7, <3>1, <3>2, <3>3 DEF Client
  <2>5. Subscribed'
    <3>1. CASE AttachSubscribe(c)
      <4> DEFINE k == Len(ends) + 1
      <4>1. k \in Nat /\ k >= 1 /\ k <= Len(ends') + 1 /\ Len(ends') + 1 = k
        <5> DEFINE l == Len(ends)
        <5>1. l \in Nat /\ Len(ends') = l
          BY <1>t, <2>0
        <5> HIDE DEF l
        <5> QED BY <5>1 DEF l
      <4>2. /\ next' = [next EXCEPT ![c] = k] /\ first' = [first EXCEPT ![c] = k]
            /\ cst' = [cst EXCEPT ![c] = "attaching"] /\ cst[c] = "out"
            /\ taken' = taken /\ dropped' = dropped /\ ends' = ends
        BY <3>1 DEF AttachSubscribe
      <4> HIDE DEF k
      <4>3. next \in [Clients -> Nat] /\ first \in [Clients -> Nat] /\ DOMAIN cst = Clients
        BY <1>t DEF RxTypeOK
      <4> SUFFICES ASSUME NEW x \in Clients
                   PROVE  /\ next'[x] >= 1
                          /\ next'[x] <= Len(ends') + 1
                          /\ cst'[x] \in {"out", "attaching"} => taken'[x] = 0 /\ dropped'[x] = 0
                          /\ cst'[x] = "attaching" => next'[x] = Len(ends') + 1 /\ first'[x] = next'[x]
        BY DEF Subscribed
      <4>4. CASE x = c
        BY <4>1, <4>2, <4>3, <4>4 DEF ClientInv, Subscribed
      <4>5. CASE x # c
        <5>1. next'[x] = next[x] /\ first'[x] = first[x] /\ cst'[x] = cst[x]
          BY <4>2, <4>3, <4>5
        <5> QED BY <4>2, <5>1 DEF ClientInv, Subscribed
      <4> QED BY <4>4, <4>5
    <3>2. CASE AttachSnapshot(c) \/ Detach(c)
      BY <1>t, <2>0, <3>2 DEF ClientInv, RxTypeOK, Subscribed, AttachSnapshot, Detach
    <3>3. CASE Forward(c)
      <4>1. next' = [next EXCEPT ![c] = @ + 1] /\ taken' = [taken EXCEPT ![c] = @ + 1]
            /\ UNCHANGED <<cst, first, dropped, ends>> /\ cst[c] = "live" /\ next[c] <= Len(ends)
        BY <3>3 DEF Forward, ringVars
      <4>2. next[c] \in Nat /\ next'[c] = next[c] + 1
        BY <4>1 DEF ClientInv, RxTypeOK
      <4>3. \A d \in Clients \ {c} : next'[d] = next[d] /\ taken'[d] = taken[d]
        BY <4>1 DEF ClientInv, RxTypeOK
      <4> QED
        BY <1>t, <4>1, <4>2, <4>3 DEF ClientInv, Subscribed
    <3>4. CASE Lagged(c)
      <4>1. next' = [next EXCEPT ![c] = Oldest] /\ dropped' = [dropped EXCEPT ![c] = @ + Skipped(c)]
            /\ UNCHANGED <<cst, first, taken, ends>> /\ cst[c] = "live" /\ next[c] < Oldest
        BY <3>4 DEF Lagged, ringVars
      <4>2. next[c] \in Nat /\ next[c] >= 1 /\ next'[c] = Oldest
        BY <4>1 DEF ClientInv, RxTypeOK, Subscribed
      <4>3. \A d \in Clients \ {c} : next'[d] = next[d] /\ dropped'[d] = dropped[d]
        BY <4>1 DEF ClientInv, RxTypeOK
      <4> QED
        BY <1>t, <2>3, <4>1, <4>2, <4>3 DEF ClientInv, Subscribed
    <3> QED
      BY <1>7, <3>1, <3>2, <3>3, <3>4 DEF Client
  <2>6. ExactlyOnce'
    <3>1. CASE AttachSubscribe(c) \/ Detach(c)
      BY <3>1, <2>2 DEF ClientInv, RxTypeOK, ExactlyOnce, AttachSubscribe, Detach
    <3>2. CASE AttachSnapshot(c)
      <4>1. lock = c /\ next[c] = Len(ends) + 1 /\ first[c] = next[c]
             /\ taken[c] = 0 /\ dropped[c] = 0
        BY <3>2 DEF AttachSnapshot, ClientInv, LockHeld, Subscribed
      <4>2. pc # "pushed"
        BY <4>1 DEF ClientInv, LockHeld
      <4>3. pushed = EndOf(next[c] - 1)
        BY <1>t, <4>1, <4>2, EndOfType DEF ClientInv, RingAgrees
      <4>4. /\ cst' = [cst EXCEPT ![c] = "live"]
            /\ from' = [from EXCEPT ![c] = pushed - ringLen]
            /\ shown' = [shown EXCEPT ![c] = ringLen]
            /\ UNCHANGED <<next, first, taken, dropped>>
        BY <3>2 DEF AttachSnapshot
      <4>5. \A d \in Clients : EndOf(next[d] - 1)' = EndOf(next[d] - 1)
        BY <2>2, <4>4
      <4>6. from'[c] + shown'[c] = EndOf(next[c] - 1)'
        BY <4>3, <4>4, <4>5 DEF ClientInv, RxTypeOK
      <4>7. \A d \in Clients \ {c} :
              cst'[d] = cst[d] /\ from'[d] = from[d] /\ shown'[d] = shown[d]
        BY <4>4 DEF ClientInv, RxTypeOK
      <4>8. first[c]' + taken[c]' + dropped[c]' = next[c]'
        BY <4>1, <4>4 DEF ClientInv, RxTypeOK
      <4> QED
        BY <4>4, <4>5, <4>6, <4>7, <4>8 DEF ClientInv, ExactlyOnce
    <3>3. CASE Forward(c)
      <4>1. next[c] \in 1..Len(ends)
        BY <3>3, <1>t DEF ClientInv, RxTypeOK, Forward, Subscribed
      <4>2. EndOf(next[c] - 1) \in Nat /\ EndOf(next[c]) = ends[next[c]] /\ EndOf(next[c]) \in Nat
        BY <1>t, <4>1, EndOfType DEF EndOf
      <4>3. /\ shown'[c] = shown[c] + (ends[next[c]] - EndOf(next[c] - 1))
            /\ taken'[c] = taken[c] + 1
            /\ next'[c] = next[c] + 1
            /\ dropped'[c] = dropped[c] /\ from'[c] = from[c] /\ first'[c] = first[c]
            /\ cst[c] = "live"
        BY <3>3 DEF Forward, ClientInv, RxTypeOK
      <4>4. EndOf(next[c] - 1)' = EndOf(next[c])
        BY <2>2, <4>1, <4>3
      <4>a. /\ first[c] + taken[c] + dropped[c] = next[c]
            /\ dropped[c] = 0 => from[c] + shown[c] = EndOf(next[c] - 1)
        BY <4>3 DEF ClientInv, ExactlyOnce
      <4>b. /\ first[c] \in Nat /\ taken[c] \in Nat /\ dropped[c] \in Nat
            /\ from[c] \in Nat /\ shown[c] \in Nat
        BY DEF ClientInv, RxTypeOK
      <4>5. /\ first[c]' + taken[c]' + dropped[c]' = next[c]'
            /\ dropped[c]' = 0 => from[c]' + shown[c]' = EndOf(next[c] - 1)'
        BY <4>2, <4>3, <4>4, <4>a, <4>b
      <4>6. \A d \in Clients \ {c} :
              /\ cst'[d] = cst[d] /\ first'[d] = first[d] /\ taken'[d] = taken[d]
              /\ dropped'[d] = dropped[d] /\ next'[d] = next[d]
              /\ from'[d] = from[d] /\ shown'[d] = shown[d]
        BY <3>3 DEF Forward, ClientInv, RxTypeOK
      <4>7. \A d \in Clients \ {c} : EndOf(next[d] - 1)' = EndOf(next[d] - 1)
        BY <2>2, <4>6
      <4> QED
        BY <4>5, <4>6, <4>7 DEF ClientInv, ExactlyOnce
    <3>4. CASE Lagged(c)
      <4>1. Skipped(c) > 0 /\ Skipped(c) \in Nat /\ next[c] + Skipped(c) = Oldest
        BY <3>4, <2>3 DEF Lagged, Skipped, ClientInv, RxTypeOK
      <4>2. /\ dropped' = [dropped EXCEPT ![c] = @ + Skipped(c)]
            /\ next' = [next EXCEPT ![c] = Oldest]
            /\ UNCHANGED <<cst, first, from, shown, taken>>
            /\ cst[c] = "live"
        BY <3>4 DEF Lagged
      <4>3. dropped'[c] = dropped[c] + Skipped(c) /\ next'[c] = Oldest /\ dropped'[c] # 0
        BY <4>1, <4>2 DEF ClientInv, RxTypeOK
      <4>4. /\ first[c]' + taken[c]' + dropped[c]' = next[c]'
            /\ dropped[c]' = 0 => from[c]' + shown[c]' = EndOf(next[c] - 1)'
        BY <4>1, <4>2, <4>3 DEF ClientInv, RxTypeOK, ExactlyOnce
      <4>5. \A d \in Clients \ {c} : dropped'[d] = dropped[d] /\ next'[d] = next[d]
        BY <4>2 DEF ClientInv, RxTypeOK
      <4>7. \A d \in Clients \ {c} : EndOf(next[d] - 1)' = EndOf(next[d] - 1)
        BY <2>2, <4>5
      <4> QED
        BY <4>2, <4>4, <4>5, <4>7 DEF ClientInv, ExactlyOnce
    <3> QED
      BY <1>7, <3>1, <3>2, <3>3, <3>4 DEF Client
  <2> QED
    BY <1>0, <2>1, <2>4, <2>5, <2>6 DEF ClientInv
<1>8. CASE UNCHANGED rxVars
  BY <1>0, <1>8
  DEF ClientInv, LockHeld, RingAgrees, Subscribed,
      Ascending, ExactlyOnce, EndOf, rxVars, supVars, ringVars, clientVars
<1> QED
  BY <1>1, <1>2, <1>3, <1>4, <1>5, <1>7, <1>8 DEF RxNext, Publish, Quiescent

\* The receive side keeps its types: in particular the ring never exceeds
\* RING_BYTES, whatever the chunk sizes (push_ring).
THEOREM RxTypeCorrect == RxSpec => []RxTypeOK
<1>1. ClientInv => RxTypeOK
  BY DEF ClientInv
<1> QED
  BY <1>1, ClientInit, ClientStep, PTL DEF RxSpec

\* For any number of clients, ring size and channel capacity, a client's
\* snapshot and subscription tile the published stream (attach,
\* publish_live).
THEOREM StreamExactlyOnce == RxSpec => []ExactlyOnce
<1>1. ClientInv => ExactlyOnce
  BY DEF ClientInv
<1> QED
  BY <1>1, ClientInit, ClientStep, PTL DEF RxSpec

-----------------------------------------------------------------------------
(***************************************************************************)
(* What the capture thread is handed, and the watermarks.                  *)
(***************************************************************************)

\* The number of the last received chunk handed to the capture channel.
HandedTo == IF pc = "tee" /\ chunk.rx # 0 THEN lastRx - 1 ELSE lastRx

LEMMA CompleteMeans ==
  CaptureComplete <=>
    (alive =>
       /\ {queue[i] : i \in DOMAIN queue} \ {0} = (captured + 1)..HandedTo
       /\ \A i, j \in DOMAIN queue :
            i < j /\ queue[i] # 0 /\ queue[j] # 0 => queue[i] < queue[j])
BY DEF CaptureComplete, HandedTo

LEMMA CompleteMeansNext ==
  CaptureComplete' <=>
    (alive' =>
       /\ {queue'[i] : i \in DOMAIN queue'} \ {0} = (captured' + 1)..HandedTo'
       /\ \A i, j \in DOMAIN queue' :
            i < j /\ queue'[i] # 0 /\ queue'[j] # 0 => queue'[i] < queue'[j])
BY DEF CaptureComplete, HandedTo

LEMMA CaptureInit == RxInit => CaptureInv
<1> SUFFICES ASSUME RxInit PROVE CaptureInv
  OBVIOUS
<1>1. RxTypeOK
  BY ClientInit DEF ClientInv
<1>2. DOMAIN queue = {} /\ captured = 0 /\ HandedTo = 0
  BY DEF RxInit, HandedTo
<1>3. {queue[i] : i \in DOMAIN queue} = {} /\ (captured + 1)..HandedTo = {}
  BY <1>2
<1>4. CaptureComplete
  BY <1>2, <1>3, CompleteMeans
<1> QED
  BY <1>1, <1>4 DEF RxInit, CaptureInv, ChunkIsLast, Watermarks

LEMMA CaptureStep == CaptureInv /\ RxTypeOK' /\ [RxNext]_rxVars => CaptureInv'
<1> SUFFICES ASSUME CaptureInv, RxTypeOK', [RxNext]_rxVars
             PROVE  CaptureInv'
  OBVIOUS
<1>t. /\ lastRx \in Nat /\ captured \in Nat /\ evidence \in Nat
      /\ queue \in Seq(Nat) /\ chunk.rx \in Nat
  BY DEF CaptureInv, RxTypeOK
<1>h. alive =>
       /\ {queue[i] : i \in DOMAIN queue} \ {0} = (captured + 1)..HandedTo
       /\ \A i, j \in DOMAIN queue :
            i < j /\ queue[i] # 0 /\ queue[j] # 0 => queue[i] < queue[j]
  BY CompleteMeans DEF CaptureInv
<1>1. ASSUME NEW n \in Sizes, Receive(n) \/ EmitMarker(n)
      PROVE  CaptureInv'
  <2>1. HandedTo' = HandedTo
    BY <1>1, <1>t DEF Receive, EmitMarker, HandedTo
  <2>2. UNCHANGED <<queue, alive, captured, evidence, fault, journaled>>
    BY <1>1 DEF Receive, EmitMarker, capVars
  <2>3. CaptureComplete'
    BY <1>h, <2>1, <2>2, CompleteMeansNext
  <2>4. ChunkIsLast'
    BY <1>1, <1>t DEF Receive, EmitMarker, ChunkIsLast, CaptureInv, Watermarks, capVars
  <2>5. lastRx <= lastRx'
    BY <1>1, <1>t DEF Receive, EmitMarker
  <2>6. Watermarks'
    <3>1. captured <= lastRx' /\ evidence <= captured
      BY <1>t, <2>5, RxTypeOK' DEF CaptureInv, Watermarks, RxTypeOK
    <3> QED
      BY <2>2, <3>1 DEF CaptureInv, Watermarks
  <2> QED
    BY <2>3, <2>4, <2>6 DEF CaptureInv
<1>2. CASE Tee
  <2>1. UNCHANGED <<lastRx, chunk, captured, evidence, fault, journaled, alive>> /\ pc = "tee" /\ pc' = "publish"
        /\ queue' = Handed
    BY <1>2 DEF Tee
  <2>2. ChunkIsLast' /\ Watermarks'
    BY <2>1 DEF CaptureInv, ChunkIsLast, Watermarks
  <2>3. HandedTo' = lastRx /\ HandedTo = IF chunk.rx = 0 THEN lastRx ELSE lastRx - 1
    BY <2>1 DEF HandedTo
  <2>4. CaptureComplete'
    <3> SUFFICES ASSUME alive
                 PROVE  /\ {queue'[i] : i \in DOMAIN queue'} \ {0} = (captured + 1)..lastRx
                        /\ \A i, j \in DOMAIN queue' :
                             i < j /\ queue'[i] # 0 /\ queue'[j] # 0 => queue'[i] < queue'[j]
      BY <2>1, <2>3, CompleteMeansNext
    <3>1. queue' = Append(queue, chunk.rx)
      BY <2>1 DEF Handed
    <3>2. /\ DOMAIN queue' = 1..(Len(queue) + 1)
          /\ DOMAIN queue = 1..Len(queue)
          /\ Len(queue) \in Nat
          /\ \A k \in 1..Len(queue) : queue'[k] = queue[k]
          /\ queue'[Len(queue) + 1] = chunk.rx
      BY <1>t, <3>1, RxAppendFacts
    <3>3. {queue'[i] : i \in DOMAIN queue'} = {queue[i] : i \in DOMAIN queue} \cup {chunk.rx}
      BY <3>2
    <3>4. chunk.rx # 0 => chunk.rx = lastRx
      BY <2>1 DEF CaptureInv, ChunkIsLast
    <3>5. captured <= lastRx
      BY DEF CaptureInv, Watermarks
    <3>6. \A k \in DOMAIN queue : queue[k] # 0 => queue[k] \in (captured + 1)..HandedTo
      BY <1>h
    <3>7. chunk.rx # 0 => \A k \in DOMAIN queue : queue[k] # 0 => queue[k] < chunk.rx
      BY <1>t, <2>3, <3>4, <3>6
    <3>8. \A i, j \in DOMAIN queue' :
            i < j /\ queue'[i] # 0 /\ queue'[j] # 0 => queue'[i] < queue'[j]
      BY <1>h, <3>2, <3>7
    <3>9. {queue'[i] : i \in DOMAIN queue'} \ {0} = (captured + 1)..lastRx
      <4>1. CASE chunk.rx = 0
        BY <1>h, <2>3, <3>3, <4>1
      <4>2. CASE chunk.rx # 0
        <5>1. captured < lastRx
          BY <2>1, <4>2 DEF CaptureInv, ChunkIsLast
        <5>2. (captured + 1)..lastRx = (captured + 1)..(lastRx - 1) \cup {lastRx}
          BY <1>t, <5>1
        <5> QED
          BY <1>h, <2>3, <3>3, <3>4, <4>2, <5>2
      <4> QED
        BY <4>1, <4>2
    <3> QED
      BY <3>8, <3>9
  <2> QED
    BY <2>2, <2>4 DEF CaptureInv
<1>3. CASE PushRing \/ SendLive
  <2>1. UNCHANGED <<lastRx, chunk, queue, captured, evidence, fault, journaled, alive>>
        /\ pc # "tee" /\ pc' # "tee"
    BY <1>3 DEF PushRing, SendLive, capVars
  <2>2. HandedTo' = HandedTo
    BY <2>1 DEF HandedTo
  <2> QED
    BY <2>1, <2>2, <1>h, CompleteMeansNext DEF CaptureInv, ChunkIsLast, Watermarks
<1>5. CASE Capture
  <2>1. UNCHANGED <<pc, chunk, lastRx, alive>> /\ alive /\ queue # <<>> /\ queue' = Tail(queue)
    BY <1>5 DEF Capture, supVars
  <2>2. HandedTo' = HandedTo /\ HandedTo \in Int /\ HandedTo <= lastRx
    BY <1>t, <2>1 DEF HandedTo
  <2>4. /\ Head(queue) \in Nat
        /\ Head(queue) = queue[1]
        /\ Len(queue) \in Nat
        /\ Len(queue) > 0
        /\ DOMAIN queue = 1..Len(queue)
        /\ DOMAIN queue' = 1..(Len(queue) - 1)
        /\ \A k \in 1..(Len(queue) - 1) : queue'[k] = queue[k + 1]
    BY <1>t, <2>1, RxTailFacts
  <2>5. \A k \in DOMAIN queue' : queue'[k] = queue[k + 1] /\ k + 1 \in DOMAIN queue
    BY <2>4
  <2>6. \A i, j \in DOMAIN queue' :
          i < j /\ queue'[i] # 0 /\ queue'[j] # 0 => queue'[i] < queue'[j]
    <3> SUFFICES ASSUME NEW i \in DOMAIN queue', NEW j \in DOMAIN queue',
                        i < j, queue'[i] # 0, queue'[j] # 0
                 PROVE  queue'[i] < queue'[j]
      OBVIOUS
    <3>1. i + 1 < j + 1 /\ i + 1 \in DOMAIN queue /\ j + 1 \in DOMAIN queue
      BY <2>4, <2>5
    <3> QED
      BY <1>h, <2>1, <2>5, <3>1
  <2>7. {queue[i] : i \in DOMAIN queue} = {queue'[i] : i \in DOMAIN queue'} \cup {Head(queue)}
    <3>1. \A k \in DOMAIN queue : k = 1 \/ (k - 1 \in DOMAIN queue' /\ queue'[k - 1] = queue[k])
      BY <2>4
    <3> QED
      BY <2>4, <2>5, <3>1
  <2>8. CASE Head(queue) = 0
    <3>1. UNCHANGED <<captured, evidence, fault, journaled>>
      BY <1>5, <2>8 DEF Capture
    <3>2. CaptureComplete'
      BY <1>h, <2>1, <2>2, <2>6, <2>7, <2>8, <3>1, CompleteMeansNext
    <3> QED
      BY <2>1, <3>1, <3>2 DEF CaptureInv, ChunkIsLast, Watermarks
  <2>9. CASE Head(queue) # 0
    <3>1. captured' = Head(queue)
      BY <1>5, <2>9 DEF Capture
    <3>2. PICK ok \in BOOLEAN :
            /\ evidence' = EvidenceAfter(Head(queue), ok)
            /\ fault' = (fault \/ ~ok)
            /\ journaled' = journaled \cup {n \in {Head(queue)} : ok}
      BY <1>5, <2>9 DEF Capture
    <3>3. Head(queue) \in (captured + 1)..HandedTo
      BY <1>h, <2>1, <2>4, <2>9
    <3>4. \A k \in DOMAIN queue : k # 1 /\ queue[k] # 0 => queue[1] < queue[k]
      BY <1>h, <2>1, <2>4, <2>9
    <3>5. Head(queue) = captured + 1
      <4>1. captured + 1 \in (captured + 1)..HandedTo
        BY <1>t, <2>2, <3>3
      <4>2. PICK k \in DOMAIN queue : queue[k] = captured + 1
        BY <1>h, <2>1, <4>1
      <4>3. queue[k] # 0 /\ captured + 1 <= queue[1]
        BY <1>t, <2>4, <3>3, <4>2
      <4>4. k = 1 \/ queue[1] < captured + 1
        BY <3>4, <4>2, <4>3
      <4>5. k = 1
        BY <1>t, <2>4, <4>3, <4>4
      <4> QED
        BY <2>4, <4>2, <4>5
    <3>6. \A k \in DOMAIN queue' : queue'[k] # 0 => Head(queue) < queue'[k]
      <4> SUFFICES ASSUME NEW k \in DOMAIN queue', queue'[k] # 0
                   PROVE  Head(queue) < queue'[k]
        OBVIOUS
      <4>1. k + 1 \in DOMAIN queue /\ k + 1 # 1 /\ queue[k + 1] = queue'[k]
        BY <2>4, <2>5
      <4> QED
        BY <2>4, <3>4, <4>1
    <3>7. Head(queue) \notin {queue'[i] : i \in DOMAIN queue'}
      BY <2>4, <2>9, <3>6
    <3>8. (captured + 1)..HandedTo = {captured + 1} \cup ((captured + 2)..HandedTo)
      BY <1>t, <2>2, <3>3
    <3>9. {queue'[i] : i \in DOMAIN queue'} \ {0} = (captured + 2)..HandedTo
      <4>1. {queue[i] : i \in DOMAIN queue} \ {0} = (captured + 1)..HandedTo
        BY <1>h, <2>1
      <4>2. captured + 1 \notin (captured + 2)..HandedTo
        BY <1>t
      <4>3. {queue'[i] : i \in DOMAIN queue'} \ {0} = ({queue[i] : i \in DOMAIN queue} \ {0}) \ {Head(queue)}
        BY <2>7, <3>7
      <4> QED
        BY <4>1, <4>2, <4>3, <3>5, <3>8
    <3>10. captured' + 1 = captured + 2
      BY <1>t, <3>1, <3>5
    <3>11. CaptureComplete'
      BY <2>1, <2>2, <2>6, <3>9, <3>10, CompleteMeansNext
    <3>12. Watermarks'
      <4>1. evidence <= captured /\ captured <= lastRx
        BY DEF CaptureInv, Watermarks
      <4>2. evidence' <= captured' /\ captured' <= lastRx'
        BY <1>t, <2>1, <2>2, <3>1, <3>2, <3>3, <4>1 DEF EvidenceAfter
      <4>3. ~fault' => ok
        BY <3>2
      <4>4. ~fault' => evidence' = captured'
        BY <3>1, <3>2, <4>3 DEF EvidenceAfter
      <4>5. ok => Head(queue) \in journaled'
        BY <3>2
      <4>6. journaled \subseteq journaled'
        BY <3>2
      <4>7. evidence' # 0 => evidence' \in journaled'
        BY <3>2, <4>5, <4>6 DEF EvidenceAfter, CaptureInv, Watermarks
      <4>8. ~fault' => 1..captured' \subseteq journaled'
        <5>1. 1..captured' = 1..captured \cup {Head(queue)}
          BY <1>t, <3>1, <3>5
        <5>2. ~fault' => 1..captured \subseteq journaled
          BY <3>2 DEF CaptureInv, Watermarks
        <5> QED
          BY <4>3, <4>5, <4>6, <5>1, <5>2
      <4> QED
        BY <4>2, <4>4, <4>7, <4>8 DEF Watermarks
    <3>13. ChunkIsLast'
      BY <1>t, <2>1, <3>1, <3>3 DEF CaptureInv, ChunkIsLast, HandedTo
    <3> QED
      BY <3>11, <3>12, <3>13 DEF CaptureInv
  <2> QED
    BY <2>8, <2>9
<1>6. CASE CaptureDies
  BY <1>6 DEF CaptureDies, CaptureInv, ChunkIsLast, CaptureComplete, Watermarks, supVars
<1>7. CASE (\E c \in Clients : Client(c)) \/ UNCHANGED rxVars
  <2>1. UNCHANGED <<supVars, capVars>>
    BY <1>7 DEF Client, AttachSubscribe, AttachSnapshot, Forward, Lagged, Detach, rxVars
  <2> QED
    BY <2>1 DEF CaptureInv, ChunkIsLast, CaptureComplete, Watermarks, supVars, capVars
<1> QED
  BY <1>1, <1>2, <1>3, <1>5, <1>6, <1>7 DEF RxNext, Publish, Quiescent

\* While the capture thread lives it is handed every received chunk exactly
\* once and in order (the read arm's tee, spawn_capture).
THEOREM CaptureIsComplete == RxSpec => []CaptureComplete
<1>1. CaptureInv => CaptureComplete
  BY DEF CaptureInv
<1> QED
  BY <1>1, RxTypeCorrect, CaptureInit, CaptureStep, PTL DEF RxSpec

\* The watermarks of GET /status are truthful: the journal's never passes the
\* capture's, nor that the receive counter, and without a recorded fault the
\* journal has everything captured (spawn_capture).
THEOREM WatermarksTruthful == RxSpec => []Watermarks
<1>1. CaptureInv => Watermarks
  BY DEF CaptureInv
<1> QED
  BY <1>1, RxTypeCorrect, CaptureInit, CaptureStep, PTL DEF RxSpec

\* For any clients, ring and channel sizes, nothing received is lost, repeated or reordered untold
\* on its way to the clients and to the capture thread (publish_live, handle_ws, spawn_capture).
THEOREM ReceiveIsComplete == RxSpec => []RxIsComplete
<1>1. RxTypeOK /\ ExactlyOnce /\ Watermarks /\ CaptureComplete => RxIsComplete
  BY DEF RxIsComplete
<1> QED
  BY <1>1, RxTypeCorrect, StreamExactlyOnce, WatermarksTruthful, CaptureIsComplete, PTL

-----------------------------------------------------------------------------
(***************************************************************************)
(* The bounded wait.                                                       *)
(*                                                                         *)
(* HistoryInv: what the daemon publishes of the epoch waited in is so.     *)
(* GotInv and ReadInv: what was acquired and what is still to be appended  *)
(* follow the cursor.  CaughtUpInv: a wait vouched for by a healthy status *)
(* asks the journal only for what the journal has reached.  BudgetInv: the *)
(* reserve for the end is never spent before.                              *)
(***************************************************************************)
HistoryInv ==
  /\ persisted <= Len(rxChunk) /\ Len(rxChunk) <= WaitRx /\ floor <= persisted
  /\ epoch = 1 => lastSeq = Len(rxChunk) /\ through = persisted /\ received <= lastSeq

GotInv ==
  /\ req.since <= waitCursor /\ req.since <= Len(rxChunk) /\ waitCursor <= Len(rxChunk)
  /\ \A i \in DOMAIN got : got[i] > req.since /\ got[i] <= persisted
  /\ ~envelope.gap => got = [i \in 1..(waitCursor - req.since) |-> req.since + i]

ReadInv ==
  /\ envelope \in [recs : Seq(1..WaitRx), gap : BOOLEAN, missing : BOOLEAN, capped : BOOLEAN]
  /\ Len(got) + Len(envelope.recs) <= MaxBytes
  /\ \A i \in DOMAIN envelope.recs : envelope.recs[i] > waitCursor /\ envelope.recs[i] <= persisted
  /\ \A i, j \in DOMAIN envelope.recs : i < j => envelope.recs[i] < envelope.recs[j]
  /\ ~envelope.gap => \A i \in DOMAIN envelope.recs : envelope.recs[i] = waitCursor + i
  /\ wpc \notin {"append", "done"} => envelope.recs = << >> /\ ~envelope.gap

FirstInv ==
  /\ wpc \in {"idle", "boundary"} => firstRead /\ got = << >> /\ emitted = 0
  /\ firstRead => ~excused /\ waitCursor = req.since
  /\ wpc \in {"read", "append"} => ~firstRead
  /\ wpc # "done" => status = "none"
  /\ pendNotes \in 0..1
  /\ seen.ok => seen.gen \in 1..WaitGens

MissingIsReal == lost # {} \/ floor > 0 \/ excused \/ epoch # 1
CaughtUpInv ==
  /\ ~firstRead /\ ~excused /\ epoch = 1 => waitCursor <= persisted
  /\ envelope.gap => MissingIsReal
  /\ status = "gap" => envelope.gap

Running == wpc \in {"top", "read", "append", "health"} \/ (wpc = "done" /\ status # "refused")
BudgetInv == Running => emitted + ResultLen(got) + 1 + FinishReserve <= MaxOutput

LoopInv ==
  /\ GotInv
  /\ ReadInv
  /\ FirstInv
  /\ CaughtUpInv
  /\ BudgetInv
  /\ MatchIsOneConnection
WaitInv ==
  /\ WaitTypeOK
  /\ HistoryInv
  /\ LoopInv

LEMMA WaitTypes ==
  /\ Newline \in Bytes /\ WaitRx \in Nat /\ MaxMishaps \in Nat /\ WaitGens \in Nat \ {0} /\ MaxBytes \in Nat \ {0}
  /\ MaxOutput \in Nat /\ BaseLen \in Nat /\ RecordLen \in Nat /\ LineLen \in Nat /\ NoteLen \in Nat
  /\ FinishReserve \in Nat /\ DiagnosticBudget \in Nat /\ DiagnosticBudget <= FinishReserve
BY WaitAssumption

-----------------------------------------------------------------------------
(***************************************************************************)
(* A set of numbers in ascending order.                                    *)
(***************************************************************************)
LEMMA LeastNumber ==
  ASSUME NEW S, S \subseteq Nat, S # {}
  PROVE  \E m \in S : \A n \in S : m <= n
<1>1. PICK m \in S : \A n \in S : ~(<<n, m>> \in OpToRel(<, Nat))
  BY NatLessThanWellFounded, WFMin
<1>2. \A n \in S : ~(n < m)
  BY <1>1 DEF OpToRel
<1> QED BY <1>2

Orders(s, S, k) == s \in [1..k -> S] /\ \A i, j \in 1..k : i < j => s[i] < s[j]
CanOrder(S, m) ==
  LET T == S \cap (1..m) IN IsFiniteSet(T) /\ Cardinality(T) \in Nat /\ \E s : Orders(s, T, Cardinality(T))

LEMMA OrderNext ==
  ASSUME NEW S, S \subseteq Nat, NEW m \in Nat, CanOrder(S, m)
  PROVE  CanOrder(S, m + 1)
<1> DEFINE T == S \cap (1..m)
           U == S \cap (1..(m + 1))
           k == Cardinality(T)
<1>1. IsFiniteSet(T) /\ k \in Nat /\ \E s : Orders(s, T, k)
  BY DEF CanOrder
<1>2. PICK s : Orders(s, T, k)
  BY <1>1
<1>3. CASE m + 1 \notin S
  <2>1. U = T
    BY <1>3
  <2> QED BY <1>1, <2>1 DEF CanOrder
<1>4. CASE m + 1 \in S
  <2>1. U = T \cup {m + 1} /\ m + 1 \notin T
    BY <1>4
  <2>2. \A t \in T : t \in Nat /\ t < m + 1
    OBVIOUS
  <2> DEFINE r == [i \in 1..(k + 1) |-> IF i = k + 1 THEN m + 1 ELSE s[i]]
  <2> HIDE DEF T, U
  <2>3. IsFiniteSet(U) /\ Cardinality(U) = k + 1
    BY <1>1, <2>1, FS_AddElement
  <2> HIDE DEF k
  <2>4. s \in [1..k -> T] /\ \A i, j \in 1..k : i < j => s[i] < s[j]
    BY <1>2 DEF Orders
  <2>5. r \in [1..(k + 1) -> U]
    BY <1>1, <2>1, <2>4
  <2>6. ASSUME NEW i \in 1..(k + 1), NEW j \in 1..(k + 1), i < j PROVE r[i] < r[j]
    <3>1. i \in 1..k /\ r[i] = s[i] /\ s[i] \in T
      BY <1>1, <2>4, <2>6
    <3>2. CASE j = k + 1
      BY <2>2, <3>1, <3>2
    <3>3. CASE j # k + 1
      <4>1. j \in 1..k /\ r[j] = s[j]
        BY <1>1, <3>3
      <4> QED BY <2>4, <2>6, <3>1, <4>1
    <3> QED BY <3>2, <3>3
  <2>7. Orders(r, U, k + 1)
    BY <2>5, <2>6 DEF Orders
  <2>8. k + 1 \in Nat
    BY <1>1
  <2>9. Orders(r, U, Cardinality(U)) /\ Cardinality(U) \in Nat
    BY <2>3, <2>7, <2>8
  <2> QED BY <2>3, <2>9 DEF CanOrder, U
<1> QED BY <1>3, <1>4

LEMMA OrderAll ==
  ASSUME NEW S, S \subseteq Nat, NEW m \in Nat
  PROVE  CanOrder(S, m)
<1> DEFINE Bad == { n \in Nat : ~CanOrder(S, n) }
<1> SUFFICES ASSUME Bad # {} PROVE FALSE
  OBVIOUS
<1>1. PICK n \in Bad : \A j \in Bad : n <= j
  <2>1. Bad \subseteq Nat OBVIOUS
  <2> HIDE DEF Bad
  <2> QED BY <2>1, LeastNumber
<1>2. n # 0
  <2>1. S \cap (1..0) = {}
    OBVIOUS
  <2>2. IsFiniteSet({}) /\ Cardinality({}) = 0
    BY FS_EmptySet
  <2>3. Orders([i \in 1..0 |-> i], {}, 0)
    BY DEF Orders
  <2>4. CanOrder(S, 0)
    BY <2>1, <2>2, <2>3 DEF CanOrder
  <2> QED BY <1>1, <2>4
<1>3. n - 1 \in Nat /\ n = (n - 1) + 1 /\ ~(n <= n - 1)
  BY <1>1, <1>2
<1>4. CanOrder(S, n - 1)
  BY <1>1, <1>3
<1>5. CanOrder(S, (n - 1) + 1)
  BY ONLY <1>3, <1>4, OrderNext, S \subseteq Nat
<1> QED BY <1>1, <1>3, <1>5

\* The members of S, each greater than the one before.
LEMMA UpwardIs ==
  ASSUME NEW m \in Nat, NEW S, S \subseteq 1..m
  PROVE  IsFiniteSet(S) /\ Cardinality(S) \in Nat /\ Orders(Upward(S), S, Cardinality(S))
<1>1. S \cap (1..m) = S /\ S \subseteq Nat
  <2>1. S \cap (1..m) = S OBVIOUS
  <2>2. 1..m \subseteq Nat OBVIOUS
  <2> QED BY <2>1, <2>2
<1>2. IsFiniteSet(S) /\ Cardinality(S) \in Nat /\ \E s : Orders(s, S, Cardinality(S))
  BY <1>1, OrderAll DEF CanOrder
<1> DEFINE k == Cardinality(S)
<1>3. \E s \in [1..k -> S] : \A i, j \in 1..k : i < j => s[i] < s[j]
  BY <1>2 DEF Orders
<1>4. Upward(S) \in [1..k -> S] /\ \A i, j \in 1..k : i < j => Upward(S)[i] < Upward(S)[j]
  BY <1>3 DEF Upward
<1> QED BY <1>2, <1>4 DEF Orders

\* A run of numbers is in order when each is one more than the one before.
LEMMA UpwardRun ==
  ASSUME NEW c \in Nat, NEW p \in Nat, c <= p
  PROVE  /\ Cardinality((c + 1)..p) = p - c
         /\ \A i \in 1..(p - c) : Upward((c + 1)..p)[i] = c + i
<1> DEFINE S == (c + 1)..p
           n == p - c
           s == Upward(S)
<1>1. Cardinality(S) = n
  <2>1. CASE c + 1 <= p
    <3>1. c + 1 \in Int /\ p \in Int /\ c + 1 <= p
      BY <2>1
    <3>2. Cardinality(S) = p - (c + 1) + 1
      BY <3>1, FS_Interval
    <3> QED BY <3>2
  <2>2. CASE ~(c + 1 <= p)
    <3>1. S = {} /\ n = 0
      BY <2>2
    <3> QED BY <3>1, FS_EmptySet
  <2> QED BY <2>1, <2>2
<1>2. Orders(s, S, n)
  <2>1. S \subseteq 1..p
    OBVIOUS
  <2> HIDE DEF S, n
  <2> QED BY <1>1, <2>1, UpwardIs
<1> HIDE DEF s
<1>3. \A i \in 1..n : s[i] \in Nat /\ c + 1 <= s[i] /\ s[i] <= p
  BY <1>2 DEF Orders
<1>4. \A i, j \in 1..n : i < j => s[i] < s[j]
  BY <1>2 DEF Orders
<1>5. \A i \in 1..n : s[i] >= c + i
  <2> DEFINE Bad == { i \in 1..n : ~(s[i] >= c + i) }
  <2> SUFFICES ASSUME Bad # {} PROVE FALSE
    OBVIOUS
  <2>1. PICK i \in Bad : \A j \in Bad : i <= j
    <3>1. Bad \subseteq Nat OBVIOUS
    <3> HIDE DEF Bad
    <3> QED BY <3>1, LeastNumber
  <2>2. i \in 1..n /\ ~(s[i] >= c + i)
    BY <2>1
  <2>3. i # 1
    BY <1>3, <2>2
  <2>4. i - 1 \in 1..n /\ i - 1 < i /\ ~(i <= i - 1)
    BY <2>2, <2>3
  <2>5. s[i - 1] >= c + (i - 1)
    BY <2>1, <2>4
  <2>6. s[i - 1] < s[i]
    BY <1>4, <2>2, <2>4
  <2> QED BY <1>3, <2>2, <2>4, <2>5, <2>6
<1>6. \A i \in 1..n : s[i] <= c + i
  <2> DEFINE Bad == { k \in 0..(n - 1) : ~(s[n - k] <= c + (n - k)) }
  <2>1. ASSUME Bad # {} PROVE FALSE
    <3>1. PICK k \in Bad : \A j \in Bad : k <= j
      <4>1. Bad \subseteq Nat OBVIOUS
      <4> HIDE DEF Bad
      <4> QED BY <2>1, <4>1, LeastNumber
    <3>2. k \in 0..(n - 1) /\ ~(s[n - k] <= c + (n - k)) /\ n - k \in 1..n
      BY <3>1
    <3>3. k # 0
      BY <1>3, <3>2
    <3>4. k - 1 \in 0..(n - 1) /\ ~(k <= k - 1) /\ n - (k - 1) \in 1..n /\ n - k < n - (k - 1)
      BY <3>2, <3>3
    <3>5. s[n - (k - 1)] <= c + (n - (k - 1))
      BY <3>1, <3>4
    <3>6. s[n - k] < s[n - (k - 1)]
      BY <1>4, <3>2, <3>4
    <3> QED BY <1>3, <3>2, <3>4, <3>5, <3>6
  <2>2. ASSUME NEW i \in 1..n PROVE s[i] <= c + i
    <3>1. n - i \in 0..(n - 1) /\ n - (n - i) = i
      OBVIOUS
    <3>2. n - i \notin Bad
      BY <2>1
    <3> QED BY <3>1, <3>2
  <2> QED BY <2>2
<1>7. \A i \in 1..n : s[i] = c + i
  BY <1>3, <1>5, <1>6
<1> QED BY <1>1, <1>7 DEF s

-----------------------------------------------------------------------------
(***************************************************************************)
(* What a read returns.                                                    *)
(***************************************************************************)
LEMMA AfterIs ==
  ASSUME WaitTypeOK, HistoryInv
  PROVE  LET all == After(waitCursor) IN
         /\ all \in Seq(1..WaitRx)
         /\ \A i \in DOMAIN all : all[i] > waitCursor /\ all[i] <= persisted
         /\ \A i, j \in DOMAIN all : i < j => all[i] < all[j]
<1> DEFINE S == { n \in Retained : n > waitCursor }
           k == Cardinality(S)
           all == Upward(S)
<1>1. persisted \in Nat /\ WaitRx \in Nat /\ persisted <= WaitRx /\ floor \in Nat
  BY WaitTypes DEF WaitTypeOK
<1>2. \A n \in S : n \in 1..WaitRx /\ n > waitCursor /\ n <= persisted
  BY <1>1 DEF Retained
<1>3. S \subseteq 1..WaitRx
  BY <1>2
<1> HIDE DEF S
<1>4. k \in Nat /\ all \in [1..k -> S] /\ \A i, j \in 1..k : i < j => all[i] < all[j]
  BY <1>1, <1>3, UpwardIs DEF Orders
<1> HIDE DEF all, k
<1>5. all \in [1..k -> 1..WaitRx] /\ DOMAIN all = 1..k
  BY <1>3, <1>4
<1>6. all \in Seq(1..WaitRx)
  BY ONLY <1>4, <1>5, SeqDef
<1>7. all = After(waitCursor)
  BY DEF all, S, After
<1> QED BY <1>2, <1>4, <1>5, <1>6, <1>7

LEMMA EnvelopeIs ==
  ASSUME WaitTypeOK, HistoryInv, Len(got) <= MaxBytes
  PROVE  /\ Envelope \in [recs : Seq(1..WaitRx), gap : BOOLEAN, missing : BOOLEAN, capped : BOOLEAN]
         /\ Len(got) + Len(Envelope.recs) <= MaxBytes
         /\ \A i \in DOMAIN Envelope.recs : Envelope.recs[i] > waitCursor /\ Envelope.recs[i] <= persisted
         /\ \A i, j \in DOMAIN Envelope.recs : i < j => Envelope.recs[i] < Envelope.recs[j]
         /\ ~Envelope.gap => \A i \in DOMAIN Envelope.recs : Envelope.recs[i] = waitCursor + i
<1> DEFINE known  == epoch = 1
           left   == MaxBytes - Len(got)
           all    == After(waitCursor)
           latest == IF Retained # {} THEN CHOOSE n \in Retained : \A m \in Retained : m <= n ELSE 0
           m1     == IF Len(all) > left THEN left ELSE Len(all)
           m2     == IF Len(all) > left THEN left + 1 ELSE Len(all)
           fits   == SubSeq(all, 1, m1)
           upto  == SubSeq(all, 1, m2)
           cap    == Len(all) > left
           miss   == ~known /\ Retained = {}
           gap    == \/ waitCursor > (IF known THEN received ELSE 0) /\ waitCursor > latest
                     \/ \E i \in DOMAIN upto : upto[i] # waitCursor + i
                     \/ lost # {}
<1>1. Envelope = [recs |-> fits, capped |-> cap, missing |-> miss, gap |-> gap]
  BY DEF Envelope
<1>2. gap \in BOOLEAN /\ miss \in BOOLEAN /\ cap \in BOOLEAN
  OBVIOUS
<1>3. ~gap => \A i \in DOMAIN upto : upto[i] = waitCursor + i
  OBVIOUS
<1> HIDE DEF gap, miss, cap
<1>4. Envelope.recs = fits /\ Envelope.gap = gap
  BY <1>1
<1>5. /\ all \in Seq(1..WaitRx)
      /\ \A i \in DOMAIN all : all[i] > waitCursor /\ all[i] <= persisted
      /\ \A i, j \in DOMAIN all : i < j => all[i] < all[j]
  BY AfterIs
<1>6. Len(got) \in Nat /\ MaxBytes \in Nat /\ left \in Nat /\ Len(got) + left = MaxBytes
  BY WaitTypes DEF WaitTypeOK
<1> HIDE DEF left, all
<1>7. Len(all) \in Nat /\ DOMAIN all = 1..Len(all) /\ \A i \in 1..Len(all) : all[i] \in 1..WaitRx
  <2> DEFINE R == 1..WaitRx
  <2>1. all \in Seq(R) BY <1>5
  <2> HIDE DEF R
  <2>2. Len(all) \in Nat /\ DOMAIN all = 1..Len(all) /\ \A i \in 1..Len(all) : all[i] \in R
    BY ONLY <2>1, LenProperties, ElementOfSeq
  <2> QED BY <2>2 DEF R
<1>8. m1 \in Nat /\ m2 \in Nat /\ m1 <= m2 /\ m2 <= Len(all) /\ m1 <= left
  BY <1>6, <1>7
<1> HIDE DEF m1, m2
<1>9. /\ fits \in Seq(1..WaitRx) /\ Len(fits) = m1 /\ DOMAIN fits = 1..m1 /\ \A i \in 1..m1 : fits[i] = all[i]
  BY <1>5, <1>7, <1>8
<1>10. DOMAIN upto = 1..m2 /\ \A i \in 1..m2 : upto[i] = all[i]
  BY <1>5, <1>7, <1>8
<1> HIDE DEF fits, upto
<1>11. Len(got) + m1 <= MaxBytes
  BY <1>6, <1>8
<1>12. \A i \in 1..m1 : i \in 1..m2 /\ i \in DOMAIN all
  BY <1>7, <1>8
<1>13. Envelope \in [recs : Seq(1..WaitRx), gap : BOOLEAN, missing : BOOLEAN, capped : BOOLEAN]
  BY <1>1, <1>2, <1>9
<1>14. ~gap => \A i \in DOMAIN fits : fits[i] = waitCursor + i
  BY <1>3, <1>9, <1>10, <1>12
<1>15. \A i \in DOMAIN fits : fits[i] > waitCursor /\ fits[i] <= persisted
  BY <1>5, <1>9, <1>12
<1>16. \A i, j \in DOMAIN fits : i < j => fits[i] < fits[j]
  BY <1>5, <1>9, <1>12
<1> QED BY <1>4, <1>9, <1>11, <1>13, <1>14, <1>15, <1>16

\* A journal that has lost nothing and has reached the cursor reports no gap.
LEMMA NoGapUnlessReal ==
  ASSUME WaitTypeOK, HistoryInv, Len(got) <= MaxBytes, waitCursor <= persisted, lost = {}, floor = 0
  PROVE  ~Envelope.gap
<1> DEFINE known  == epoch = 1
           left   == MaxBytes - Len(got)
           all    == After(waitCursor)
           latest == IF Retained # {} THEN CHOOSE n \in Retained : \A m \in Retained : m <= n ELSE 0
           m2     == IF Len(all) > left THEN left + 1 ELSE Len(all)
           upto  == SubSeq(all, 1, m2)
<1>1. Envelope.gap <=> \/ waitCursor > (IF known THEN received ELSE 0) /\ waitCursor > latest
                       \/ \E i \in DOMAIN upto : upto[i] # waitCursor + i
                       \/ lost # {}
  BY DEF Envelope
<1>2. waitCursor \in Nat /\ persisted \in Nat
  BY WaitTypes DEF WaitTypeOK
<1>3. Retained = 1..persisted
  BY <1>2 DEF Retained
<1>4. ~(waitCursor > latest)
  <2>1. CASE persisted = 0
    <3>1. Retained = {} /\ waitCursor = 0
      BY <1>2, <1>3, <2>1
    <3> QED BY <3>1
  <2>2. CASE persisted # 0
    <3>1. persisted \in Retained /\ \A m \in Retained : m <= persisted
      BY <1>2, <1>3, <2>2
    <3>2. latest \in Retained /\ \A m \in Retained : m <= latest
      BY <3>1
    <3> HIDE DEF latest
    <3>3. persisted <= latest /\ latest \in Nat
      <4>1. latest \in 1..persisted BY <1>3, <3>2
      <4> QED BY <1>2, <3>1, <3>2, <4>1
    <3> QED BY <1>2, <3>3
  <2> QED BY <2>1, <2>2
<1>5. { n \in Retained : n > waitCursor } = (waitCursor + 1)..persisted
  BY <1>2, <1>3
<1>6. all = Upward((waitCursor + 1)..persisted)
  BY <1>5 DEF After
<1> DEFINE k == persisted - waitCursor
<1>7. k \in Nat /\ \A i \in 1..k : all[i] = waitCursor + i
  BY <1>2, <1>6, UpwardRun
<1>8. DOMAIN all = 1..k
  <2>1. (waitCursor + 1)..persisted \subseteq 1..persisted
    BY <1>2
  <2>2. Orders(all, (waitCursor + 1)..persisted, Cardinality((waitCursor + 1)..persisted))
    BY <1>2, <1>6, <2>1, UpwardIs
  <2>3. Cardinality((waitCursor + 1)..persisted) = k
    BY <1>2, UpwardRun
  <2> QED BY <2>2, <2>3 DEF Orders
<1>9. all \in Seq(1..WaitRx)
  BY AfterIs
<1> HIDE DEF all, k
<1>10. Len(all) = k
  BY <1>7, <1>8, <1>9
<1>11. Len(got) \in Nat /\ MaxBytes \in Nat /\ left \in Nat
  BY WaitTypes DEF WaitTypeOK
<1> HIDE DEF left
<1>12. m2 \in Nat /\ m2 <= k
  BY <1>7, <1>10, <1>11
<1> HIDE DEF m2
<1>13. DOMAIN upto = 1..m2 /\ \A i \in 1..m2 : upto[i] = all[i]
  BY <1>7, <1>9, <1>10, <1>12
<1>14. \A i \in 1..m2 : i \in 1..k
  BY <1>7, <1>12
<1> HIDE DEF upto
<1>15. \A i \in DOMAIN upto : upto[i] = waitCursor + i
  BY <1>7, <1>13, <1>14
<1> HIDE DEF latest
<1> QED BY <1>1, <1>4, <1>15

-----------------------------------------------------------------------------
(***************************************************************************)
(* Notes and lines.                                                        *)
(***************************************************************************)
Notes == [len : 0..DiagnosticBudget, count : Nat]
LEMMA PushIs ==
  ASSUME NEW d \in Notes, NEW n \in Nat
  PROVE  Push(d, n) \in Notes
<1> DEFINE size == IF n > DiagnosticBudget \div 2 THEN DiagnosticBudget \div 2 ELSE n
<1>1. DiagnosticBudget \in Nat /\ DiagnosticBudget \div 2 \in Nat
  BY WaitTypes
<1>2. size \in Nat
  <2> DEFINE h == DiagnosticBudget \div 2
  <2>1. h \in Nat BY <1>1
  <2> HIDE DEF h
  <2> QED BY <2>1 DEF h
<1>3. Push(d, n) = [len |-> IF d.len + size + 1 > DiagnosticBudget THEN d.len ELSE d.len + size + 1, count |-> d.count + 1]
  BY DEF Push
<1> HIDE DEF size
<1> QED BY <1>1, <1>2, <1>3 DEF Notes

LEMMA FoldedIs ==
  ASSUME NEW d \in Notes, NEW k \in 0..1
  PROVE  Folded(d, k) \in Notes
<1> DEFINE F(f) == f = [i \in 0..k |-> IF i = 0 THEN d ELSE Push(f[i - 1], NoteLen)]
           w == [i \in 0..k |-> IF i = 0 THEN d ELSE Push(d, NoteLen)]
           c == CHOOSE f : F(f)
<1>1. Folded(d, k) = c[k]
  BY DEF Folded
<1>2. F(w)
  <2>1. \A i \in 0..k : i # 0 => i - 1 = 0 /\ 0 \in 0..k /\ w[0] = d
    OBVIOUS
  <2> QED BY <2>1
<1>3. F(c)
  <2> HIDE DEF F, w
  <2> QED BY <1>2
<1>4. c[0] = d /\ (k = 1 => c[1] = Push(d, NoteLen))
  <2> HIDE DEF c
  <2>1. \A i \in 0..k : c[i] = IF i = 0 THEN d ELSE Push(c[i - 1], NoteLen)
    BY <1>3
  <2>2. c[0] = d
    BY <2>1
  <2>3. k = 1 => c[1] = Push(c[0], NoteLen)
    BY <2>1
  <2> QED BY <2>2, <2>3
<1> QED BY <1>1, <1>4, PushIs, WaitTypes

\* The length of a result is a number, and chunks received later do not change it.
LEMMA ResultLenIs ==
  ASSUME NEW r \in Seq(Nat)
  PROVE  ResultLen(r) \in Nat
<1> DEFINE S == { i \in DOMAIN r : rxChunk[r[i]].byte = Newline }
<1>1. S \subseteq 1..Len(r) /\ Len(r) \in Nat
  OBVIOUS
<1>2. Cardinality(S) \in Nat
  <2> HIDE DEF S
  <2> QED BY <1>1, UpwardIs
<1>3. Lines(r) = Cardinality(S)
  BY DEF Lines
<1> HIDE DEF S
<1>4. RecordLen * Len(r) \in Nat /\ LineLen * Lines(r) \in Nat
  <2> DEFINE a == Len(r)
             b == Lines(r)
  <2>1. a \in Nat /\ b \in Nat BY <1>1, <1>2, <1>3
  <2> HIDE DEF a, b
  <2>2. RecordLen * a \in Nat /\ LineLen * b \in Nat BY <2>1, WaitTypes
  <2> QED BY <2>2 DEF a, b
<1> DEFINE x == RecordLen * Len(r)
           y == LineLen * Lines(r)
<1>5. ResultLen(r) = BaseLen + x + y
  BY DEF ResultLen
<1> HIDE DEF x, y
<1> QED BY <1>4, <1>5, WaitTypes DEF x, y

LEMMA EmptyResult == ResultLen(<< >>) = BaseLen
<1>1. Lines(<< >>) = 0
  <2>1. { i \in DOMAIN << >> : rxChunk[<< >>[i]].byte = Newline } = {}
    OBVIOUS
  <2> QED BY <2>1, FS_EmptySet DEF Lines
<1> QED BY <1>1, WaitTypes DEF ResultLen

-----------------------------------------------------------------------------
(***************************************************************************)
(* The daemon's steps.                                                     *)
(***************************************************************************)
Chunks == [byte : Bytes, gen : 1..WaitGens]
Flags == up \in BOOLEAN /\ linkUp \in BOOLEAN /\ captureFault \in BOOLEAN
DaemonTypes ==
  /\ Flags
  /\ epoch \in 1..2 /\ linkGen \in 1..WaitGens
  /\ lastSeq \in 0..WaitRx /\ through \in 0..WaitRx /\ rxChunk \in Seq(Chunks)
  /\ received \in 0..WaitRx /\ persisted \in 0..WaitRx /\ floor \in 0..WaitRx
  /\ lost \subseteq 1..WaitRx /\ mishaps \in 0..MaxMishaps
LoopTypes ==
  /\ late \in BOOLEAN /\ firstRead \in BOOLEAN /\ shouldRead \in BOOLEAN /\ excused \in BOOLEAN
  /\ req \in [since : 0..WaitRx, timed : BOOLEAN]
  /\ wpc \in {"idle", "boundary", "top", "read", "append", "health", "done"}
  /\ got \in Seq(1..WaitRx) /\ waitCursor \in 0..WaitRx
  /\ emitted \in Nat /\ pendNotes \in Nat /\ notes \in Notes
  /\ seenGen \in 0..WaitGens /\ status \in Stops \cup {"none"}
LEMMA TypeParts == WaitTypeOK <=> DaemonTypes /\ LoopTypes
BY DEF WaitTypeOK, DaemonTypes, Flags, LoopTypes, Chunks, Notes

\* The history of the daemon only grows.
Grows ==
  /\ UNCHANGED <<req, late, loopVars>>
  /\ Len(rxChunk) <= Len(rxChunk') /\ \A i \in 1..Len(rxChunk) : rxChunk'[i] = rxChunk[i]
  /\ persisted <= persisted' /\ (epoch' = 1 => epoch = 1)
  /\ lost \subseteq lost' /\ floor <= floor'

LEMMA DaemonGrows ==
  ASSUME DaemonTypes, HistoryInv, Daemon
  PROVE  DaemonTypes' /\ HistoryInv' /\ Grows
<1> USE WaitTypes
<1>1. ASSUME NEW b \in Bytes, DaemonReceives(b) PROVE DaemonTypes' /\ HistoryInv' /\ Grows
  <2> DEFINE c == [byte |-> b, gen |-> linkGen]
  <2>1. c \in Chunks
    BY DEF Chunks, DaemonTypes
  <2>2. rxChunk \in Seq(Chunks) /\ rxChunk' = Append(rxChunk, c)
    BY <1>1 DEF DaemonReceives, DaemonTypes
  <2> HIDE DEF c
  <2>3. /\ rxChunk' \in Seq(Chunks) /\ Len(rxChunk') = Len(rxChunk) + 1 /\ Len(rxChunk) \in Nat
        /\ \A i \in 1..Len(rxChunk) : rxChunk'[i] = rxChunk[i]
    BY <2>1, <2>2
  <2>4. DaemonTypes'
    BY <1>1, <2>3 DEF DaemonReceives, DaemonTypes, Flags
  <2>5. HistoryInv'
    BY <1>1, <2>3 DEF DaemonReceives, DaemonTypes, HistoryInv
  <2>6. Grows
    BY <1>1, <2>3 DEF DaemonReceives, DaemonTypes, Grows
  <2> QED BY <2>4, <2>5, <2>6
<1>2. Len(rxChunk) \in Nat
  BY DEF DaemonTypes
<1>3. CASE JournalNotes
  <2>1. DaemonTypes' BY <1>3 DEF JournalNotes, DaemonTypes, Flags, HistoryInv
  <2>2. HistoryInv' BY <1>2, <1>3 DEF JournalNotes, DaemonTypes, HistoryInv
  <2>3. Grows BY <1>2, <1>3 DEF JournalNotes, DaemonTypes, Grows
  <2> QED BY <2>1, <2>2, <2>3
<1>4. CASE JournalAppends
  <2>0. Flags' BY <1>4 DEF JournalAppends, DaemonTypes, Flags
  <2>10. received \in 1..WaitRx BY <1>4 DEF JournalAppends, DaemonTypes
  <2>11. persisted' \in 0..WaitRx /\ through' \in 0..WaitRx BY <1>4, <2>10 DEF JournalAppends, DaemonTypes
  <2>12. lost' \subseteq 1..WaitRx
    <3> DEFINE R == 1..WaitRx
    <3>1. lost \subseteq R /\ received \in R /\ (lost' = lost \/ lost' = lost \cup {received})
      BY <1>4, <2>10 DEF JournalAppends, DaemonTypes
    <3> HIDE DEF R
    <3>2. lost' \subseteq R BY <3>1
    <3> QED BY <3>2 DEF R
  <2>13. mishaps' \in 0..MaxMishaps BY <1>4 DEF JournalAppends, DaemonTypes, Mishap
  <2>14. rxChunk' = rxChunk /\ epoch' = epoch /\ linkGen' = linkGen /\ lastSeq' = lastSeq /\ received' = received /\ floor' = floor
    BY <1>4 DEF JournalAppends
  <2>1. DaemonTypes' BY <2>0, <2>11, <2>12, <2>13, <2>14 DEF DaemonTypes
  <2>2. HistoryInv' BY <1>2, <1>4 DEF JournalAppends, DaemonTypes, HistoryInv
  <2>3. Grows BY <1>2, <1>4 DEF JournalAppends, DaemonTypes, Grows
  <2> QED BY <2>1, <2>2, <2>3
<1>5. CASE WaitExpires
  <2>1. DaemonTypes' BY <1>5 DEF WaitExpires, DaemonTypes, Flags, HistoryInv, Mishap
  <2>2. HistoryInv' BY <1>2, <1>5 DEF WaitExpires, DaemonTypes, HistoryInv
  <2>3. Grows BY <1>2, <1>5 DEF WaitExpires, DaemonTypes, Grows
  <2> QED BY <2>1, <2>2, <2>3
<1>6. CASE Unplug
  <2>0. Flags' BY <1>6 DEF Unplug, DaemonTypes, Flags
  <2>1. DaemonTypes' BY <1>6, <2>0 DEF Unplug, DaemonTypes, Mishap
  <2>2. HistoryInv' BY <1>2, <1>6 DEF Unplug, HistoryInv
  <2>3. Grows BY <1>2, <1>6 DEF Unplug, DaemonTypes, Grows
  <2> QED BY <2>1, <2>2, <2>3
<1>7. CASE Replug
  <2>0. Flags' BY <1>7 DEF Replug, DaemonTypes, Flags
  <2>1. DaemonTypes' BY <1>7, <2>0 DEF Replug, DaemonTypes
  <2>2. HistoryInv' BY <1>2, <1>7 DEF Replug, HistoryInv
  <2>3. Grows BY <1>2, <1>7 DEF Replug, DaemonTypes, Grows
  <2> QED BY <2>1, <2>2, <2>3
<1>8. CASE DaemonStops
  <2>0. Flags' BY <1>8 DEF DaemonStops, DaemonTypes, Flags
  <2>1. DaemonTypes' BY <1>8, <2>0 DEF DaemonStops, DaemonTypes, Mishap
  <2>2. HistoryInv' BY <1>2, <1>8 DEF DaemonStops, HistoryInv
  <2>3. Grows BY <1>2, <1>8 DEF DaemonStops, DaemonTypes, Grows
  <2> QED BY <2>1, <2>2, <2>3
<1>9. CASE DaemonRestarts
  <2>0. Flags' BY <1>9 DEF DaemonRestarts, DaemonTypes, Flags
  <2>1. DaemonTypes' BY <1>9, <2>0 DEF DaemonRestarts, DaemonTypes
  <2>2. HistoryInv' BY <1>2, <1>9 DEF DaemonRestarts, HistoryInv
  <2>3. Grows BY <1>2, <1>9 DEF DaemonRestarts, DaemonTypes, Grows
  <2> QED BY <2>1, <2>2, <2>3
<1> QED BY <1>1, <1>3, <1>4, <1>5, <1>6, <1>7, <1>8, <1>9 DEF Daemon

LEMMA MemberOf ==
  ASSUME NEW S, NEW q \in Seq(S)
  PROVE  \A i \in DOMAIN q : q[i] \in S
BY LenProperties, ElementOfSeq

\* Lines acquired are not changed by what is received later.
LEMMA ResultKept ==
  ASSUME LoopTypes, DaemonTypes, HistoryInv, GotInv, Grows
  PROVE  ResultLen(got)' = ResultLen(got)
<1>1. got \in Seq(1..WaitRx) /\ got' = got /\ Len(rxChunk) \in Nat /\ persisted \in Nat /\ persisted <= Len(rxChunk)
  BY DEF LoopTypes, DaemonTypes, HistoryInv, Grows, loopVars
<1>2. \A i \in DOMAIN got : got[i] \in 1..WaitRx /\ got[i] <= persisted
  <2>1. \A i \in DOMAIN got : got[i] \in 1..WaitRx
    BY ONLY <1>1, MemberOf
  <2> QED BY <2>1 DEF GotInv
<1>3. \A i \in DOMAIN got : got[i] \in 1..Len(rxChunk)
  BY <1>1, <1>2, WaitTypes
<1>4. \A i \in DOMAIN got : rxChunk'[got[i]] = rxChunk[got[i]]
  BY <1>3 DEF Grows
<1>5. { i \in DOMAIN got : rxChunk'[got[i]].byte = Newline } = { i \in DOMAIN got : rxChunk[got[i]].byte = Newline }
  BY <1>4
<1> QED BY <1>1, <1>5 DEF ResultLen, Lines

LEMMA DaemonKeeps ==
  ASSUME WaitInv, wpc # "done", Daemon
  PROVE  WaitInv'
<1>1. DaemonTypes /\ LoopTypes /\ HistoryInv /\ LoopInv
  BY TypeParts DEF WaitInv
<1>2. DaemonTypes' /\ HistoryInv' /\ Grows
  BY <1>1, DaemonGrows
<1>3. /\ req' = req /\ late' = late /\ wpc' = wpc /\ firstRead' = firstRead /\ shouldRead' = shouldRead
      /\ seen' = seen /\ envelope' = envelope /\ got' = got /\ waitCursor' = waitCursor /\ emitted' = emitted
      /\ pendNotes' = pendNotes /\ notes' = notes /\ seenGen' = seenGen /\ status' = status /\ excused' = excused
  BY <1>2 DEF Grows, loopVars
<1>4. LoopTypes'
  BY <1>1, <1>3 DEF LoopTypes
<1>5. WaitTypeOK'
  BY <1>2, <1>4, TypeParts, PTL
<1>6. persisted \in Nat /\ persisted' \in Nat /\ persisted <= persisted' /\ Len(rxChunk) \in Nat /\ Len(rxChunk') \in Nat
      /\ Len(rxChunk) <= Len(rxChunk') /\ waitCursor \in Nat /\ req.since \in Nat
  <2>1. rxChunk \in Seq(Chunks) /\ rxChunk' \in Seq(Chunks)
    BY <1>1, <1>2 DEF DaemonTypes
  <2>2. Len(rxChunk) \in Nat /\ Len(rxChunk') \in Nat
    BY ONLY <2>1, LenProperties
  <2>3. persisted \in Nat /\ persisted' \in Nat
    BY <1>1, <1>2, WaitTypes DEF DaemonTypes
  <2>4. waitCursor \in Nat /\ req.since \in Nat
    BY <1>1, WaitTypes DEF LoopTypes
  <2> QED BY <1>2, <2>2, <2>3, <2>4 DEF Grows
<1>7. \A i \in DOMAIN got : got[i] \in Nat
  BY <1>1, WaitTypes DEF LoopTypes
<1>8. GotInv'
  BY <1>1, <1>3, <1>6, <1>7 DEF LoopInv, GotInv
<1>9. envelope.recs \in Seq(1..WaitRx) /\ \A i \in DOMAIN envelope.recs : envelope.recs[i] \in Nat
  BY <1>1, WaitTypes DEF LoopInv, ReadInv
<1>10. ReadInv'
  BY <1>1, <1>3, <1>6, <1>9 DEF LoopInv, ReadInv
<1>11. FirstInv'
  BY <1>1, <1>3 DEF LoopInv, FirstInv
<1>12. floor \in Nat /\ floor' \in Nat /\ floor <= floor' /\ lost \subseteq lost' /\ (epoch' = 1 => epoch = 1)
  BY <1>1, <1>2, WaitTypes DEF DaemonTypes, Grows
<1>13. CaughtUpInv'
  <2>1. MissingIsReal => MissingIsReal'
    BY <1>3, <1>12 DEF MissingIsReal
  <2> QED BY <1>1, <1>3, <1>6, <1>12, <2>1 DEF LoopInv, CaughtUpInv
<1>14. BudgetInv'
  <2>1. ResultLen(got)' = ResultLen(got)
    BY <1>1, <1>2, ResultKept DEF LoopInv
  <2>2. Running' <=> Running
    BY <1>3 DEF Running
  <2> QED BY <1>1, <1>3, <2>1, <2>2 DEF LoopInv, BudgetInv
<1>15. MatchIsOneConnection'
  BY <1>1, <1>3 DEF LoopInv, FirstInv, MatchIsOneConnection
<1> QED BY <1>2, <1>5, <1>8, <1>10, <1>11, <1>13, <1>14, <1>15 DEF WaitInv, LoopInv

-----------------------------------------------------------------------------
(***************************************************************************)
(* The acquisition's steps.                                                *)
(***************************************************************************)
LEMMA Still ==
  ASSUME DaemonTypes, HistoryInv, UNCHANGED daemonVars
  PROVE  /\ DaemonTypes' /\ HistoryInv' /\ Len(rxChunk) \in Nat
         /\ rxChunk' = rxChunk /\ persisted' = persisted /\ lost' = lost /\ floor' = floor /\ epoch' = epoch
         /\ linkGen' = linkGen
<1>1. /\ up' = up /\ epoch' = epoch /\ linkUp' = linkUp /\ linkGen' = linkGen /\ lastSeq' = lastSeq
      /\ through' = through /\ captureFault' = captureFault /\ rxChunk' = rxChunk /\ received' = received
      /\ persisted' = persisted /\ lost' = lost /\ floor' = floor /\ mishaps' = mishaps
  BY DEF daemonVars
<1>2. DaemonTypes' BY <1>1 DEF DaemonTypes, Flags
<1>3. HistoryInv' BY <1>1 DEF HistoryInv
<1>4. Len(rxChunk) \in Nat
  <2>1. rxChunk \in Seq(Chunks) BY DEF DaemonTypes
  <2> QED BY ONLY <2>1, LenProperties
<1> QED BY <1>1, <1>2, <1>3, <1>4

\* The records acquired keep their length in the result.
LEMMA SameResult ==
  ASSUME rxChunk' = rxChunk, got' = got
  PROVE  ResultLen(got)' = ResultLen(got)
BY DEF ResultLen, Lines

InLoop == wpc \in {"top", "read", "append", "health"}

\* Stopping keeps what was acquired and the reserve.
LEMMA StopKeeps ==
  ASSUME WaitInv, InLoop, UNCHANGED daemonVars, req' = req, late' \in BOOLEAN,
         NEW s \in Stops \ {"refused"}, NEW d \in Notes, Stop(s, d),
         s = "gap" => envelope.gap,
         s = "matched" => \E g \in 1..WaitGens : \A i \in DOMAIN got : rxChunk[got[i]].gen = g
  PROVE  WaitInv'
<1>1. DaemonTypes /\ LoopTypes /\ HistoryInv /\ LoopInv
  BY TypeParts DEF WaitInv
<1>2. /\ DaemonTypes' /\ HistoryInv' /\ Len(rxChunk) \in Nat
      /\ rxChunk' = rxChunk /\ persisted' = persisted /\ lost' = lost /\ floor' = floor /\ epoch' = epoch
  BY <1>1, Still
<1>3. /\ wpc' = "done" /\ status' = s /\ notes' = d /\ firstRead' = firstRead /\ shouldRead' = shouldRead
      /\ seen' = seen /\ envelope' = envelope /\ got' = got /\ waitCursor' = waitCursor /\ emitted' = emitted
      /\ pendNotes' = pendNotes /\ seenGen' = seenGen /\ excused' = excused
  BY DEF Stop
<1>4. LoopTypes'
  BY <1>1, <1>3 DEF LoopTypes
<1>5. WaitTypeOK'
  BY <1>2, <1>4, TypeParts, PTL
<1>6. GotInv'
  BY <1>1, <1>2, <1>3 DEF LoopInv, GotInv
<1>7. ReadInv'
  BY <1>1, <1>2, <1>3 DEF LoopInv, ReadInv
<1>8. FirstInv'
  BY <1>1, <1>3 DEF LoopInv, FirstInv
<1>9. CaughtUpInv'
  BY <1>1, <1>2, <1>3 DEF LoopInv, CaughtUpInv, MissingIsReal
<1>10. BudgetInv'
  <2>1. ResultLen(got)' = ResultLen(got)
    BY <1>2, <1>3, SameResult
  <2>2. Running
    BY DEF InLoop, Running
  <2> QED BY <1>1, <1>3, <2>1, <2>2 DEF LoopInv, BudgetInv
<1>11. MatchIsOneConnection'
  BY <1>2, <1>3 DEF MatchIsOneConnection
<1> QED BY <1>2, <1>5, <1>6, <1>7, <1>8, <1>9, <1>10, <1>11 DEF WaitInv, LoopInv

\* An unchanged acquisition, up to where it is and what it was told.
Carried ==
  /\ UNCHANGED daemonVars
  /\ req' = req /\ late' \in BOOLEAN
  /\ got' = got /\ waitCursor' = waitCursor /\ emitted' = emitted /\ status' = status
  /\ shouldRead' \in BOOLEAN /\ pendNotes' \in 0..1 /\ notes' \in Notes /\ seenGen' \in 0..WaitGens

\* A round goes on: the same records, and nothing read still to be appended.
LEMMA RoundKeeps ==
  ASSUME WaitInv, InLoop, InLoop', Carried,
         envelope.recs = << >>, ~envelope.gap, envelope' = NoRecords \/ envelope' = envelope,
         firstRead' \in BOOLEAN, excused' \in BOOLEAN,
         firstRead' => firstRead /\ ~excused',
         wpc' \in {"read", "append"} => ~firstRead',
         seen'.ok => seen'.gen \in 1..WaitGens,
         ~firstRead' /\ ~excused' /\ epoch = 1 => waitCursor <= persisted
  PROVE  WaitInv'
<1>1. DaemonTypes /\ LoopTypes /\ HistoryInv /\ LoopInv
  BY TypeParts DEF WaitInv
<1>2. /\ DaemonTypes' /\ HistoryInv' /\ Len(rxChunk) \in Nat
      /\ rxChunk' = rxChunk /\ persisted' = persisted /\ lost' = lost /\ floor' = floor /\ epoch' = epoch
  BY <1>1, Still DEF Carried
<1>3. wpc' \in {"top", "read", "append", "health"}
  BY DEF InLoop
<1>4. LoopTypes'
  <2>1. pendNotes' \in Nat BY DEF Carried
  <2>2. wpc' \in {"idle", "boundary", "top", "read", "append", "health", "done"} BY <1>3
  <2> QED BY <1>1, <2>1, <2>2 DEF LoopTypes, Carried
<1>5. WaitTypeOK'
  BY <1>2, <1>4, TypeParts, PTL
<1>6. envelope'.recs = << >> /\ ~envelope'.gap
      /\ envelope' \in [recs : Seq(1..WaitRx), gap : BOOLEAN, missing : BOOLEAN, capped : BOOLEAN]
  <2>1. << >> \in Seq(1..WaitRx) OBVIOUS
  <2>2. CASE envelope' = NoRecords
    <3> DEFINE Q == Seq(1..WaitRx)
    <3>1. << >> \in Q BY <2>1
    <3> HIDE DEF Q
    <3>2. envelope'.recs = << >> /\ ~envelope'.gap
          /\ envelope' \in [recs : Q, gap : BOOLEAN, missing : BOOLEAN, capped : BOOLEAN]
      BY <2>2, <3>1 DEF NoRecords
    <3> QED BY <3>2 DEF Q
  <2>3. CASE envelope' = envelope
    BY <1>1, <2>3 DEF LoopInv, ReadInv
  <2> QED BY <2>2, <2>3
<1>7. GotInv'
  BY <1>1, <1>2, <1>6 DEF LoopInv, GotInv, Carried
<1>8. ReadInv'
  <2>1. Len(got) + Len(envelope'.recs) <= MaxBytes
    BY <1>1, <1>6 DEF LoopInv, ReadInv
  <2>2. DOMAIN envelope'.recs = {}
    BY <1>6
  <2> QED BY <1>6, <2>1, <2>2 DEF ReadInv, Carried
<1>9. FirstInv'
  <2>1. firstRead' => waitCursor' = req'.since
    BY <1>1 DEF LoopInv, FirstInv, Carried
  <2>2. status' = "none"
    BY <1>1 DEF LoopInv, FirstInv, Carried, InLoop
  <2> QED BY <1>3, <2>1, <2>2 DEF FirstInv, Carried
<1>10. CaughtUpInv'
  <2>1. status' # "gap"
    BY <1>1 DEF LoopInv, FirstInv, Carried, InLoop
  <2> QED BY <1>2, <1>6, <2>1 DEF CaughtUpInv, Carried
<1>11. BudgetInv'
  <2>1. ResultLen(got)' = ResultLen(got)
    BY <1>2, SameResult DEF Carried
  <2>2. Running
    BY DEF InLoop, Running
  <2> QED BY <1>1, <2>1, <2>2 DEF LoopInv, BudgetInv, Carried
<1>12. MatchIsOneConnection'
  <2>1. status' # "matched"
    BY <1>1 DEF LoopInv, FirstInv, Carried, InLoop
  <2> QED BY <2>1 DEF MatchIsOneConnection
<1> QED BY <1>2, <1>5, <1>7, <1>8, <1>9, <1>10, <1>11, <1>12 DEF WaitInv, LoopInv

LEMMA EmptyRun == ASSUME NEW a \in Nat PROVE << >> = [i \in 1..(a - a) |-> a + i]
<1>1. 1..(a - a) = {} OBVIOUS
<1> QED BY <1>1

\* The wait begins at its boundary with nothing acquired.
LEMMA BeginKeeps ==
  ASSUME WaitInv, wpc \in {"idle", "boundary"}, UNCHANGED daemonVars, late' \in BOOLEAN,
         req' \in [since : 0..WaitRx, timed : BOOLEAN], req'.since <= Len(rxChunk), waitCursor' = req'.since,
         \/ wpc' = "boundary" /\ status' = status
         \/ EnterRun,
         UNCHANGED <<firstRead, shouldRead, seen, envelope, got, emitted, pendNotes, notes, seenGen, excused>>
  PROVE  WaitInv'
<1>1. DaemonTypes /\ LoopTypes /\ HistoryInv /\ LoopInv
  BY TypeParts DEF WaitInv
<1>2. /\ DaemonTypes' /\ HistoryInv' /\ Len(rxChunk) \in Nat
      /\ rxChunk' = rxChunk /\ persisted' = persisted /\ lost' = lost /\ floor' = floor /\ epoch' = epoch
  BY <1>1, Still
<1>3. /\ firstRead' = firstRead /\ shouldRead' = shouldRead /\ seen' = seen /\ envelope' = envelope
      /\ got' = got /\ emitted' = emitted /\ pendNotes' = pendNotes /\ notes' = notes
      /\ seenGen' = seenGen /\ excused' = excused
  OBVIOUS
<1>4. firstRead /\ got = << >> /\ emitted = 0 /\ envelope.recs = << >> /\ ~envelope.gap /\ status = "none" /\ ~excused
  BY <1>1 DEF LoopInv, ReadInv, FirstInv
<1>5. /\ wpc' \in {"boundary", "top", "done"} /\ status' \in {"none", "refused"}
      /\ (wpc' # "done" => status' = "none") /\ (wpc' = "done" => status' = "refused")
      /\ (wpc' = "top" => ~(BaseLen + 1 + FinishReserve > MaxOutput))
  BY <1>4 DEF EnterRun
<1>6. req'.since \in Nat /\ req'.since \in 0..WaitRx
  BY WaitTypes
<1>7. LoopTypes'
  <2>1. status' \in Stops \cup {"none"} BY <1>5 DEF Stops
  <2> QED BY <1>1, <1>3, <1>5, <1>6, <2>1 DEF LoopTypes
<1>8. WaitTypeOK'
  BY <1>2, <1>7, TypeParts, PTL
<1>9. GotInv'
  <2>1. << >> = [i \in 1..(req'.since - req'.since) |-> req'.since + i]
    BY <1>6, EmptyRun
  <2>2. DOMAIN got' = {}
    BY <1>3, <1>4
  <2> QED BY <1>2, <1>3, <1>4, <1>6, <2>1, <2>2 DEF GotInv
<1>10. ReadInv'
  <2>1. DOMAIN envelope'.recs = {}
    BY <1>3, <1>4
  <2> QED BY <1>1, <1>3, <1>4, <2>1 DEF LoopInv, ReadInv
<1>11. FirstInv'
  BY <1>1, <1>3, <1>4, <1>5 DEF LoopInv, FirstInv
<1>12. CaughtUpInv'
  BY <1>3, <1>4, <1>5 DEF CaughtUpInv
<1>13. BudgetInv'
  <2>1. Running' => wpc' = "top"
    BY <1>5 DEF Running
  <2>2. ResultLen(got)' = BaseLen
    BY <1>2, <1>3, <1>4, SameResult, EmptyResult
  <2>3. wpc' = "top" => BaseLen + 1 + FinishReserve <= MaxOutput
    BY <1>5, WaitTypes
  <2> QED BY <1>3, <1>4, <2>1, <2>2, <2>3, WaitTypes DEF BudgetInv
<1>14. MatchIsOneConnection'
  BY <1>5 DEF MatchIsOneConnection
<1> QED BY <1>2, <1>8, <1>9, <1>10, <1>11, <1>12, <1>13, <1>14 DEF WaitInv, LoopInv

LEMMA StartKeeps ==
  ASSUME WaitInv, NEW s \in 0..WaitRx, NEW timed \in BOOLEAN, StartWait(s, timed)
  PROVE  WaitInv'
<1>1. req' = [since |-> s, timed |-> timed] /\ waitCursor' = s /\ s <= Len(rxChunk) /\ wpc = "idle" /\ EnterRun
      /\ UNCHANGED daemonVars
      /\ UNCHANGED <<firstRead, shouldRead, seen, envelope, got, emitted, pendNotes, notes, seenGen, excused>>
  BY DEF StartWait
<1>2. late' \in BOOLEAN
  BY DEF StartWait
<1>3. req' \in [since : 0..WaitRx, timed : BOOLEAN] /\ req'.since = s
  BY <1>1
<1>4. req'.since <= Len(rxChunk) /\ waitCursor' = req'.since /\ wpc \in {"idle", "boundary"}
  BY <1>1, <1>3
<1> QED BY <1>1, <1>2, <1>3, <1>4, BeginKeeps

LEMMA MarkKeeps ==
  ASSUME WaitInv, TakeMark
  PROVE  WaitInv'
<1>1. /\ req' = [since |-> lastSeq, timed |-> TRUE] /\ waitCursor' = lastSeq /\ wpc = "idle" /\ epoch = 1
      /\ wpc' = "boundary" /\ status' = status /\ UNCHANGED daemonVars /\ late' = late
      /\ UNCHANGED <<firstRead, shouldRead, seen, envelope, got, emitted, pendNotes, notes, seenGen, excused>>
  BY DEF TakeMark
<1>2. late \in BOOLEAN /\ lastSeq \in 0..WaitRx
  BY TypeParts DEF WaitInv, LoopTypes, DaemonTypes
<1>3. lastSeq <= Len(rxChunk)
  <2>1. lastSeq = Len(rxChunk) BY <1>1 DEF WaitInv, HistoryInv
  <2> QED BY <1>2, <2>1
<1>4. req' \in [since : 0..WaitRx, timed : BOOLEAN] /\ req'.since = lastSeq
  <2> DEFINE b == TRUE
  <2>1. b \in BOOLEAN /\ req' = [since |-> lastSeq, timed |-> b] BY <1>1
  <2> HIDE DEF b
  <2> QED BY <1>2, <2>1
<1>5. req'.since <= Len(rxChunk) /\ waitCursor' = req'.since /\ wpc \in {"idle", "boundary"}
  BY <1>1, <1>3, <1>4
<1> QED BY <1>1, <1>2, <1>4, <1>5, BeginKeeps

LEMMA WriteKeeps ==
  ASSUME WaitInv, WriteDone
  PROVE  WaitInv'
<1>1. /\ wpc = "boundary" /\ EnterRun /\ UNCHANGED daemonVars /\ req' = req /\ late' = late /\ waitCursor' = waitCursor
      /\ UNCHANGED <<firstRead, shouldRead, seen, envelope, got, emitted, pendNotes, notes, seenGen, excused>>
  BY DEF WriteDone
<1>2. late' \in BOOLEAN /\ req' \in [since : 0..WaitRx, timed : BOOLEAN]
  BY <1>1, TypeParts DEF WaitInv, LoopTypes
<1>3. req'.since <= Len(rxChunk) /\ waitCursor' = req'.since
  BY <1>1 DEF WaitInv, LoopInv, GotInv, FirstInv
<1>4. wpc \in {"idle", "boundary"}
  BY <1>1
<1> QED BY <1>1, <1>2, <1>3, <1>4, BeginKeeps

\* What each step of the loop starts from.
LEMMA LoopFacts ==
  ASSUME WaitInv
  PROVE  /\ late \in BOOLEAN /\ firstRead \in BOOLEAN /\ shouldRead \in BOOLEAN /\ excused \in BOOLEAN
         /\ pendNotes \in 0..1 /\ notes \in Notes /\ seenGen \in 0..WaitGens
         /\ Folded(notes, pendNotes) \in Notes /\ Push(notes, NoteLen) \in Notes
         /\ Folded(Push(notes, NoteLen), pendNotes) \in Notes
         /\ (seen.ok => seen.gen \in 1..WaitGens)
         /\ (firstRead => ~excused)
         /\ (wpc \notin {"append", "done"} => envelope.recs = << >> /\ ~envelope.gap)
         /\ (wpc \in {"read", "append"} => ~firstRead)
         /\ (~firstRead /\ ~excused /\ epoch = 1 => waitCursor <= persisted)
<1>1. LoopTypes BY TypeParts DEF WaitInv
<1>2. pendNotes \in 0..1 /\ notes \in Notes
  BY <1>1 DEF WaitInv, LoopInv, FirstInv, LoopTypes
<1>3. Push(notes, NoteLen) \in Notes
  BY <1>2, PushIs, WaitTypes
<1>4. Folded(notes, pendNotes) \in Notes /\ Folded(Push(notes, NoteLen), pendNotes) \in Notes
  BY <1>2, <1>3, FoldedIs
<1> QED BY <1>1, <1>2, <1>3, <1>4 DEF LoopTypes, WaitInv, LoopInv, FirstInv, ReadInv, CaughtUpInv

\* An answered status is the daemon's own.
LEMMA StatusIs ==
  /\ Status.ok = TRUE /\ Status.epoch = epoch /\ Status.rx = lastSeq /\ Status.through = through /\ Status.gen = linkGen
  /\ NoStatus.ok = FALSE
BY DEF Status, NoStatus

LEMMA PreflightKeeps ==
  ASSUME WaitInv, Preflight
  PROVE  WaitInv'
<1>1. /\ wpc = "top" /\ firstRead /\ UNCHANGED daemonVars /\ req' = req
  BY DEF Preflight
<1>2. PICK s \in (IF up THEN {Status} ELSE {}) \cup {NoStatus}, slow \in BOOLEAN :
       /\ late' = (late \/ slow)
       /\ \/ PastDeadline(slow) /\ Stop("timeout", Folded(notes, pendNotes))
          \/ /\ ~PastDeadline(slow) /\ Behind(s)
             /\ wpc' = "health"
             /\ seen' = s /\ shouldRead' = FALSE /\ pendNotes' = 1
             /\ envelope' = NoRecords
             /\ UNCHANGED <<firstRead, got, waitCursor, emitted, notes, seenGen, status,
                            excused>>
          \/ /\ ~PastDeadline(slow) /\ ~Behind(s)
             /\ wpc' = "read"
             /\ firstRead' = FALSE /\ shouldRead' = TRUE
             /\ excused' = /\ ~(req.timed /\ late')
                           /\ ~(s.ok /\ s.epoch = 1 /\ s.connected /\ ~s.fault)
             /\ UNCHANGED <<seen, envelope, got, waitCursor, emitted, pendNotes, notes,
                            seenGen, status>>
  BY DEF Preflight
<1>3. s = Status \/ s = NoStatus
  BY <1>2
<1>4. late' \in BOOLEAN
  BY <1>2
<1>5. InLoop
  BY <1>1 DEF InLoop
<1>6. envelope.recs = << >> /\ ~envelope.gap /\ ~excused
  BY <1>1, LoopFacts
<1>7. CASE PastDeadline(slow) /\ Stop("timeout", Folded(notes, pendNotes))
  <2>1. Folded(notes, pendNotes) \in Notes /\ "timeout" \in Stops \ {"refused"}
    BY LoopFacts DEF Stops
  <2> QED BY <1>1, <1>4, <1>5, <1>7, <2>1, StopKeeps
<1>8. CASE /\ ~PastDeadline(slow) /\ Behind(s)
           /\ wpc' = "health"
           /\ seen' = s /\ shouldRead' = FALSE /\ pendNotes' = 1
           /\ envelope' = NoRecords
           /\ UNCHANGED <<firstRead, got, waitCursor, emitted, notes, seenGen, status, excused>>
  <2>1. InLoop'
    BY <1>8 DEF InLoop
  <2>2. Carried
    <3>1. shouldRead' \in BOOLEAN BY <1>8
    <3>2. pendNotes' \in 0..1 BY <1>8
    <3> QED BY <1>1, <1>4, <1>8, <3>1, <3>2, LoopFacts DEF Carried
  <2>3. seen'.gen \in 1..WaitGens
    <3>1. s = Status
      BY <1>3, <1>8, StatusIs DEF Behind
    <3>2. linkGen \in 1..WaitGens
      BY TypeParts DEF WaitInv, DaemonTypes
    <3> QED BY <1>8, <3>1, <3>2, StatusIs
  <2>4. firstRead' /\ ~excused' /\ firstRead' \in BOOLEAN /\ excused' \in BOOLEAN
    BY <1>1, <1>6, <1>8, LoopFacts
  <2>5. wpc' \notin {"read", "append"}
    BY <1>8
  <2> QED BY <1>1, <1>5, <1>6, <1>8, <2>1, <2>2, <2>3, <2>4, <2>5, RoundKeeps
<1>9. CASE /\ ~PastDeadline(slow) /\ ~Behind(s)
           /\ wpc' = "read"
           /\ firstRead' = FALSE /\ shouldRead' = TRUE
           /\ excused' = /\ ~(req.timed /\ late')
                         /\ ~(s.ok /\ s.epoch = 1 /\ s.connected /\ ~s.fault)
           /\ UNCHANGED <<seen, envelope, got, waitCursor, emitted, pendNotes, notes, seenGen, status>>
  <2>1. InLoop'
    BY <1>9 DEF InLoop
  <2>2. Carried
    <3>1. shouldRead' \in BOOLEAN BY <1>9
    <3> QED BY <1>1, <1>4, <1>9, <3>1, LoopFacts DEF Carried
  <2>3. seen'.ok => seen'.gen \in 1..WaitGens
    BY <1>9, LoopFacts
  <2>4. firstRead' \in BOOLEAN /\ excused' \in BOOLEAN /\ ~firstRead'
    BY <1>9
  <2>5. ASSUME ~excused', epoch = 1 PROVE waitCursor <= persisted
    <3>1. ~(req.timed /\ late')
      BY <1>2, <1>9 DEF PastDeadline
    <3>2. s.ok /\ s.epoch = 1 /\ s.connected /\ ~s.fault
      BY <1>9, <2>5, <3>1
    <3>3. s = Status
      BY <1>3, <3>2, StatusIs
    <3>4. ~(s.rx >= req.since) \/ ~(s.through < req.since)
      BY <1>9, <3>2 DEF Behind
    <3>5. lastSeq = Len(rxChunk) /\ through = persisted
      BY <2>5 DEF WaitInv, HistoryInv
    <3>6. waitCursor = req.since /\ req.since <= Len(rxChunk)
      BY <1>1 DEF WaitInv, LoopInv, GotInv, FirstInv
    <3>7. ~(lastSeq >= req.since) \/ ~(through < req.since)
      BY <3>3, <3>4, StatusIs
    <3>8. waitCursor \in Nat /\ persisted \in Nat /\ lastSeq \in Nat
      <4>1. waitCursor \in 0..WaitRx /\ persisted \in 0..WaitRx /\ lastSeq \in 0..WaitRx
        BY TypeParts DEF WaitInv, LoopTypes, DaemonTypes
      <4> QED BY <4>1, WaitTypes
    <3> QED BY <3>5, <3>6, <3>7, <3>8
  <2>6. envelope' = envelope
    BY <1>9
  <2> QED BY <1>5, <1>6, <2>1, <2>2, <2>3, <2>4, <2>5, <2>6, RoundKeeps
<1> QED BY <1>2, <1>7, <1>8, <1>9

LEMMA NextRoundKeeps ==
  ASSUME WaitInv, NextRound
  PROVE  WaitInv'
<1>1. /\ wpc = "top" /\ ~firstRead /\ UNCHANGED daemonVars /\ req' = req /\ late' = late
      /\ UNCHANGED <<firstRead, shouldRead, seen, got, waitCursor, emitted, pendNotes, notes, seenGen, status, excused>>
      /\ wpc' \in {"read", "health"} /\ (envelope' = NoRecords \/ envelope' = envelope)
  BY DEF NextRound
<1>2. InLoop /\ InLoop'
  BY <1>1 DEF InLoop
<1>3. Carried
  BY <1>1, LoopFacts DEF Carried
<1>4. envelope.recs = << >> /\ ~envelope.gap
  BY <1>1, LoopFacts
<1>5. /\ firstRead' \in BOOLEAN /\ excused' \in BOOLEAN /\ ~firstRead'
      /\ (seen'.ok => seen'.gen \in 1..WaitGens)
      /\ (~firstRead' /\ ~excused' /\ epoch = 1 => waitCursor <= persisted)
  BY <1>1, LoopFacts
<1> QED BY <1>1, <1>2, <1>3, <1>4, <1>5, RoundKeeps

LEMMA ReadFailsKeeps ==
  ASSUME WaitInv, ReadFails
  PROVE  WaitInv'
<1>1. /\ InLoop /\ UNCHANGED daemonVars /\ req' = req /\ late' = late
      /\ Stop("read_error", Folded(Push(notes, NoteLen), pendNotes))
  BY DEF ReadFails, InLoop
<1>2. "read_error" \in Stops \ {"refused"}
  BY DEF Stops
<1> QED BY <1>1, <1>2, LoopFacts, StopKeeps

LEMMA ReadKeeps ==
  ASSUME WaitInv, ReadJournal
  PROVE  WaitInv'
<1>1. DaemonTypes /\ LoopTypes /\ HistoryInv /\ LoopInv /\ WaitTypeOK
  BY TypeParts DEF WaitInv
<1>2. /\ wpc = "read" /\ envelope' = Envelope /\ wpc' = "append" /\ UNCHANGED daemonVars /\ req' = req /\ late' = late
      /\ firstRead' = firstRead /\ shouldRead' = shouldRead /\ seen' = seen /\ got' = got /\ waitCursor' = waitCursor
      /\ emitted' = emitted /\ seenGen' = seenGen /\ status' = status /\ excused' = excused
      /\ (pendNotes' = 1 \/ pendNotes' = 0)
      /\ (notes' = Push(notes, NoteLen) \/ notes' = notes)
  BY DEF ReadJournal
<1>3. /\ DaemonTypes' /\ HistoryInv' /\ Len(rxChunk) \in Nat
      /\ rxChunk' = rxChunk /\ persisted' = persisted /\ lost' = lost /\ floor' = floor /\ epoch' = epoch
  BY <1>1, <1>2, Still
<1>4. notes' \in Notes /\ pendNotes' \in 0..1 /\ ~firstRead /\ ~envelope.gap /\ envelope.recs = << >>
  BY <1>2, LoopFacts
<1>5. Len(got) <= MaxBytes
  <2>1. got \in Seq(1..WaitRx) /\ Len(got) + Len(envelope.recs) <= MaxBytes /\ Len(envelope.recs) = 0
    BY <1>1, <1>4 DEF LoopTypes, LoopInv, ReadInv
  <2>2. Len(got) \in Nat
    BY ONLY <2>1, LenProperties
  <2> QED BY <2>1, <2>2, WaitTypes
<1>6. /\ Envelope \in [recs : Seq(1..WaitRx), gap : BOOLEAN, missing : BOOLEAN, capped : BOOLEAN]
      /\ Len(got) + Len(Envelope.recs) <= MaxBytes
      /\ \A i \in DOMAIN Envelope.recs : Envelope.recs[i] > waitCursor /\ Envelope.recs[i] <= persisted
      /\ \A i, j \in DOMAIN Envelope.recs : i < j => Envelope.recs[i] < Envelope.recs[j]
      /\ ~Envelope.gap => \A i \in DOMAIN Envelope.recs : Envelope.recs[i] = waitCursor + i
  BY <1>1, <1>5, EnvelopeIs
<1>7. LoopTypes'
  <2>1. pendNotes' \in Nat BY <1>4
  <2>2. wpc' \in {"idle", "boundary", "top", "read", "append", "health", "done"} BY <1>2
  <2> QED BY <1>1, <1>2, <1>4, <2>1, <2>2 DEF LoopTypes
<1>8. WaitTypeOK'
  BY <1>3, <1>7, TypeParts, PTL
<1>9. GotInv'
  BY <1>1, <1>2, <1>3, <1>4 DEF LoopInv, GotInv
<1>10. ReadInv'
  BY <1>2, <1>3, <1>6 DEF ReadInv
<1>11. FirstInv'
  BY <1>1, <1>2, <1>4 DEF LoopInv, FirstInv
<1>12. Envelope.gap => MissingIsReal
  <2> SUFFICES ASSUME ~MissingIsReal PROVE ~Envelope.gap
    OBVIOUS
  <2>1. lost = {} /\ ~(floor > 0) /\ ~excused /\ epoch = 1
    BY DEF MissingIsReal
  <2>2. floor = 0
    <3>1. floor \in 0..WaitRx BY <1>1 DEF DaemonTypes
    <3> QED BY <2>1, <3>1, WaitTypes
  <2>3. waitCursor <= persisted
    BY <1>4, <2>1, LoopFacts
  <2> QED BY <1>1, <1>5, <2>1, <2>2, <2>3, NoGapUnlessReal
<1>13. CaughtUpInv'
  <2>1. status' = "none"
    BY <1>1, <1>2 DEF LoopInv, FirstInv
  <2>2. MissingIsReal => MissingIsReal'
    BY <1>2, <1>3 DEF MissingIsReal
  <2> QED BY <1>1, <1>2, <1>3, <1>12, <2>1, <2>2 DEF LoopInv, CaughtUpInv
<1>14. BudgetInv'
  <2>1. ResultLen(got)' = ResultLen(got)
    BY <1>2, <1>3, SameResult
  <2>2. Running
    BY <1>2 DEF Running
  <2> QED BY <1>1, <1>2, <2>1, <2>2 DEF LoopInv, BudgetInv
<1>15. MatchIsOneConnection'
  BY <1>1, <1>2 DEF LoopInv, FirstInv, MatchIsOneConnection
<1> QED BY <1>3, <1>8, <1>9, <1>10, <1>11, <1>13, <1>14, <1>15 DEF WaitInv, LoopInv

LEMMA AssessKeeps ==
  ASSUME WaitInv, Assess
  PROVE  WaitInv'
<1>1. /\ wpc = "append" /\ envelope.recs = << >> /\ UNCHANGED daemonVars /\ req' = req /\ late' = late /\ InLoop
  BY DEF Assess, InLoop
<1>2. CASE StopAfterRead # "none" /\ Stop(StopAfterRead, Folded(notes, pendNotes))
  <2>1. StopAfterRead \in {"gap", "epoch_missing", "capture_error", "timeout", "none"}
    BY DEF StopAfterRead
  <2>2. StopAfterRead \in Stops \ {"refused"} /\ StopAfterRead # "matched"
    BY <1>2, <2>1 DEF Stops
  <2>3. StopAfterRead = "gap" => envelope.gap
    BY DEF StopAfterRead
  <2> HIDE DEF StopAfterRead
  <2> QED BY <1>1, <1>2, <2>2, <2>3, LoopFacts, StopKeeps
<1>3. CASE /\ StopAfterRead = "none" /\ wpc' = "health"
           /\ UNCHANGED <<firstRead, shouldRead, seen, envelope, got, waitCursor, emitted,
                          pendNotes, notes, seenGen, status, excused>>
  <2>1. ~envelope.gap
    BY <1>3 DEF StopAfterRead
  <2>2. InLoop'
    BY <1>3 DEF InLoop
  <2>3. Carried
    BY <1>1, <1>3, LoopFacts DEF Carried
  <2>4. /\ firstRead' \in BOOLEAN /\ excused' \in BOOLEAN /\ ~firstRead' /\ envelope' = envelope
        /\ (seen'.ok => seen'.gen \in 1..WaitGens)
        /\ (~firstRead' /\ ~excused' /\ epoch = 1 => waitCursor <= persisted)
    BY <1>1, <1>3, LoopFacts
  <2> QED BY <1>1, <2>1, <2>2, <2>3, <2>4, RoundKeeps
<1> QED BY <1>2, <1>3 DEF Assess

LEMMA HealthKeeps ==
  ASSUME WaitInv, CheckHealth
  PROVE  WaitInv'
<1>1. /\ wpc = "health" /\ UNCHANGED daemonVars /\ req' = req /\ late' = late /\ InLoop
      /\ envelope.recs = << >> /\ ~envelope.gap
  BY LoopFacts DEF CheckHealth, InLoop
<1>2. PICK s \in (IF seen.ok THEN {seen} ELSE (IF up THEN {Status} ELSE {}) \cup {NoStatus}) :
       \/ /\ StopOn(s) # "none"
          /\ Stop(StopOn(s),
                  Folded(IF StopOn(s) \in {"daemon_unavailable", "capture_error"}
                         THEN Push(notes, NoteLen) ELSE notes, pendNotes))
       \/ /\ StopOn(s) = "none"
          /\ seenGen' = s.gen
          /\ shouldRead' = (s.through > waitCursor)
          /\ seen' = NoStatus
          /\ envelope' = NoRecords
          /\ wpc' = "top"
          /\ UNCHANGED <<firstRead, got, waitCursor, emitted, pendNotes, notes,
                         status, excused>>
  BY DEF CheckHealth
<1>3. s.ok => s.gen \in 1..WaitGens
  <2>1. linkGen \in 1..WaitGens
    BY TypeParts DEF WaitInv, DaemonTypes
  <2>2. CASE seen.ok
    BY <1>2, <2>2, LoopFacts
  <2>3. CASE ~seen.ok
    <3>1. s = Status \/ s = NoStatus
      BY <1>2, <2>3
    <3> QED BY <2>1, <3>1, StatusIs
  <2> QED BY <2>2, <2>3
<1>4. StopOn(s) \in {"timeout", "daemon_unavailable", "epoch_changed", "disconnected", "capture_error",
                    "reconnected", "matched", "cap", "none"}
  BY DEF StopOn
<1>5. StopOn(s) = "matched" => s.ok /\ ~Reconnected(s)
  BY DEF StopOn
<1>6. StopOn(s) = "none" => s.ok
  BY DEF StopOn
<1> DEFINE why == StopOn(s)
<1> HIDE DEF why
<1>7. CASE /\ StopOn(s) # "none"
           /\ Stop(StopOn(s), Folded(IF StopOn(s) \in {"daemon_unavailable", "capture_error"}
                                    THEN Push(notes, NoteLen) ELSE notes, pendNotes))
  <2> DEFINE d == Folded(IF why \in {"daemon_unavailable", "capture_error"} THEN Push(notes, NoteLen) ELSE notes, pendNotes)
  <2>1. why \in Stops \ {"refused"} /\ why # "gap"
    BY <1>4, <1>7 DEF Stops, why
  <2>2. d \in Notes
    <3>1. CASE why \in {"daemon_unavailable", "capture_error"}
      <4>1. d = Folded(Push(notes, NoteLen), pendNotes) BY <3>1
      <4> QED BY <4>1, LoopFacts
    <3>2. CASE why \notin {"daemon_unavailable", "capture_error"}
      <4>1. d = Folded(notes, pendNotes) BY <3>2
      <4> QED BY <4>1, LoopFacts
    <3> QED BY <3>1, <3>2
  <2>3. Stop(why, d)
    BY <1>7 DEF why
  <2>4. why = "matched" => \E g \in 1..WaitGens : \A i \in DOMAIN got : rxChunk[got[i]].gen = g
    <3> SUFFICES ASSUME why = "matched" PROVE \E g \in 1..WaitGens : \A i \in DOMAIN got : rxChunk[got[i]].gen = g
      OBVIOUS
    <3>1. s.gen \in 1..WaitGens /\ ~Reconnected(s)
      BY <1>3, <1>5 DEF why
    <3>2. \A i \in DOMAIN got : rxChunk[got[i]].gen = s.gen
      BY <3>1 DEF Reconnected
    <3> QED BY <3>1, <3>2
  <2> HIDE DEF d
  <2>5. late' \in BOOLEAN
    BY <1>1, LoopFacts
  <2> QED BY <1>1, <2>1, <2>2, <2>3, <2>4, <2>5, StopKeeps
<1>8. CASE /\ StopOn(s) = "none"
           /\ seenGen' = s.gen
           /\ shouldRead' = (s.through > waitCursor)
           /\ seen' = NoStatus
           /\ envelope' = NoRecords
           /\ wpc' = "top"
           /\ UNCHANGED <<firstRead, got, waitCursor, emitted, pendNotes, notes, status, excused>>
  <2>1. InLoop'
    BY <1>8 DEF InLoop
  <2>2. Carried
    <3>1. shouldRead' \in BOOLEAN BY <1>8
    <3>2. seenGen' \in 0..WaitGens BY <1>3, <1>6, <1>8
    <3> QED BY <1>1, <1>8, <3>1, <3>2, LoopFacts DEF Carried
  <2>3. ~seen'.ok
    BY <1>8, StatusIs
  <2>4. /\ firstRead' \in BOOLEAN /\ excused' \in BOOLEAN /\ (firstRead' => firstRead /\ ~excused')
        /\ (~firstRead' /\ ~excused' /\ epoch = 1 => waitCursor <= persisted)
    BY <1>1, <1>8, LoopFacts
  <2>5. wpc' \notin {"read", "append"} /\ envelope' = NoRecords
    BY <1>8
  <2> QED BY <1>1, <2>1, <2>2, <2>3, <2>4, <2>5, RoundKeeps
<1> QED BY <1>2, <1>7, <1>8

LEMMA AppendKeeps ==
  ASSUME WaitInv, AppendRecord
  PROVE  WaitInv'
<1> DEFINE n == Head(envelope.recs)
           candidate == Append(got, n)
<1>1. /\ wpc = "append" /\ envelope.recs # << >> /\ UNCHANGED daemonVars /\ req' = req /\ late' = late /\ InLoop
  BY DEF AppendRecord, InLoop
<1>2. CASE Stop("timeout", Folded(notes, pendNotes)) \/ Stop("cap", Folded(notes, pendNotes))
  <2>1. "timeout" \in Stops \ {"refused"} /\ "cap" \in Stops \ {"refused"}
    BY DEF Stops
  <2> QED BY <1>1, <1>2, <2>1, LoopFacts, StopKeeps
<1>3. CASE /\ Required(candidate, EventLen(n)) <= MaxOutput
           /\ got' = candidate
           /\ waitCursor' = n
           /\ emitted' = emitted + EventLen(n)
           /\ envelope' = [envelope EXCEPT !.recs = Tail(envelope.recs)]
           /\ UNCHANGED <<wpc, firstRead, shouldRead, seen, pendNotes, notes, seenGen, status, excused>>
  <2>1. DaemonTypes /\ LoopTypes /\ HistoryInv /\ LoopInv
    BY TypeParts DEF WaitInv
  <2>2. /\ DaemonTypes' /\ HistoryInv' /\ Len(rxChunk) \in Nat
        /\ rxChunk' = rxChunk /\ persisted' = persisted /\ lost' = lost /\ floor' = floor /\ epoch' = epoch
    BY <1>1, <2>1, Still
  <2>3. /\ wpc' = wpc /\ firstRead' = firstRead /\ shouldRead' = shouldRead /\ seen' = seen
        /\ pendNotes' = pendNotes /\ notes' = notes /\ seenGen' = seenGen /\ status' = status /\ excused' = excused
    BY <1>3
  <2> DEFINE recs == envelope.recs
             R == 1..WaitRx
  <2>4. recs \in Seq(R) /\ got \in Seq(R) /\ recs # << >>
    BY <1>1, <2>1 DEF LoopTypes, LoopInv, ReadInv
  <2>5. /\ \A i \in DOMAIN recs : recs[i] > waitCursor /\ recs[i] <= persisted
        /\ \A i, j \in DOMAIN recs : i < j => recs[i] < recs[j]
        /\ ~envelope.gap => \A i \in DOMAIN recs : recs[i] = waitCursor + i
        /\ Len(got) + Len(recs) <= MaxBytes
    BY <2>1 DEF LoopInv, ReadInv
  <2>6. envelope' \in [recs : Seq(R), gap : BOOLEAN, missing : BOOLEAN, capped : BOOLEAN]
        /\ envelope'.recs = Tail(recs) /\ envelope'.gap = envelope.gap
    <3> DEFINE Q == Seq(R)
    <3>1. envelope \in [recs : Q, gap : BOOLEAN, missing : BOOLEAN, capped : BOOLEAN]
      BY <2>1 DEF LoopInv, ReadInv
    <3>2. Tail(recs) \in Q
      BY <2>4, HeadTailProperties
    <3> HIDE DEF Q
    <3>3. envelope' \in [recs : Q, gap : BOOLEAN, missing : BOOLEAN, capped : BOOLEAN]
          /\ envelope'.recs = Tail(recs) /\ envelope'.gap = envelope.gap
      BY <1>3, <3>1, <3>2
    <3> QED BY <3>3 DEF Q
  <2> HIDE DEF R
  <2>7. n \in R /\ n = recs[1] /\ Len(recs) \in Nat /\ Len(recs) > 0 /\ DOMAIN recs = 1..Len(recs)
        /\ DOMAIN Tail(recs) = 1..(Len(recs) - 1) /\ Len(Tail(recs)) = Len(recs) - 1
        /\ \A i \in 1..(Len(recs) - 1) : Tail(recs)[i] = recs[i + 1]
    BY <2>4
  <2>8. /\ got' \in Seq(R) /\ Len(got) \in Nat /\ Len(got') = Len(got) + 1 /\ DOMAIN got' = 1..(Len(got) + 1)
        /\ \A i \in 1..Len(got) : got'[i] = got[i] /\ got'[Len(got) + 1] = n
        /\ got'[Len(got) + 1] = n /\ DOMAIN got = 1..Len(got)
    BY <1>3, <2>4, <2>7
  <2>9. \A i \in 1..Len(recs) : recs[i] \in R
    BY <2>4, <2>7, MemberOf
  <2> HIDE DEF n, candidate, recs
  <2>10. n \in Nat /\ n \in 0..WaitRx /\ waitCursor \in Nat /\ req.since \in Nat /\ persisted \in Nat
         /\ \A i \in 1..Len(recs) : recs[i] \in Nat
    <3>1. waitCursor \in 0..WaitRx /\ req.since \in 0..WaitRx /\ persisted \in 0..WaitRx
      BY <2>1 DEF LoopTypes, DaemonTypes
    <3> QED BY <2>7, <2>9, <3>1, WaitTypes DEF R
  <2>11. n > waitCursor /\ n <= persisted /\ (~envelope.gap => n = waitCursor + 1)
    BY <2>5, <2>7
  <2>12. EventLen(n) \in Nat
    BY WaitTypes DEF EventLen
  <2>13. LoopTypes'
    <3>1. emitted' \in Nat
      BY <1>3, <2>1, <2>12 DEF LoopTypes
    <3>2. got' \in Seq(1..WaitRx) /\ waitCursor' \in 0..WaitRx
      BY <1>3, <2>8, <2>10 DEF R
    <3> QED BY <1>1, <2>1, <2>3, <3>1, <3>2 DEF LoopTypes
  <2>14. WaitTypeOK'
    BY <2>2, <2>13, TypeParts, PTL
  <2>15. GotInv'
    <3>1. req.since <= waitCursor /\ persisted <= Len(rxChunk) /\ req.since <= Len(rxChunk)
          /\ (~envelope.gap => got = [i \in 1..(waitCursor - req.since) |-> req.since + i])
          /\ \A i \in DOMAIN got : got[i] > req.since /\ got[i] <= persisted
      BY <2>1 DEF LoopInv, GotInv, HistoryInv
    <3>2. req'.since <= waitCursor' /\ req'.since <= Len(rxChunk') /\ waitCursor' <= Len(rxChunk')
      BY <1>1, <1>3, <2>2, <2>10, <2>11, <3>1
    <3>3. \A i \in DOMAIN got' : got'[i] > req'.since /\ got'[i] <= persisted'
      <4>1. n > req.since
        BY <2>10, <2>11, <3>1
      <4>2. \A i \in 1..(Len(got) + 1) : i \in 1..Len(got) \/ i = Len(got) + 1
        BY <2>8
      <4> QED BY <1>1, <2>2, <2>8, <2>11, <3>1, <4>1, <4>2
    <3>4. ASSUME ~envelope.gap PROVE got' = [i \in 1..(waitCursor' - req'.since) |-> req'.since + i]
      <4> DEFINE k == waitCursor - req.since
      <4>1. k \in Nat /\ n - req.since = k + 1 /\ n = req.since + (k + 1)
        <5> DEFINE a == req.since
        <5>1. a \in Nat /\ waitCursor \in Nat /\ a <= waitCursor /\ n = waitCursor + 1 /\ k = waitCursor - a
          BY <2>10, <2>11, <3>1, <3>4
        <5> HIDE DEF a, k
        <5>2. k \in Nat /\ n - a = k + 1 /\ n = a + (k + 1)
          BY ONLY <5>1
        <5> QED BY <5>2 DEF a
      <4>2. got = [i \in 1..k |-> req.since + i]
        BY <3>1, <3>4
      <4> HIDE DEF k
      <4>3. Len(got) = k
        <5>1. DOMAIN got = 1..k
          BY <4>2
        <5> DEFINE l == Len(got)
        <5>2. l \in Nat /\ k \in Nat /\ 1..l = 1..k
          BY <2>8, <4>1, <5>1
        <5> HIDE DEF l
        <5>3. l = k
          BY ONLY <5>2
        <5> QED BY <5>3 DEF l
      <4>4. \A i \in 1..(k + 1) : got'[i] = req.since + i
        <5>1. \A i \in 1..(k + 1) : i \in 1..k \/ i = k + 1
          BY <4>1
        <5>2. \A i \in 1..k : got'[i] = req.since + i
          BY <2>8, <4>2, <4>3
        <5> QED BY <2>8, <4>1, <4>3, <5>1, <5>2
      <4>5. DOMAIN got' = 1..(k + 1)
        BY <2>8, <4>3
      <4>6. got' = [i \in 1..(k + 1) |-> req.since + i]
        <5>1. got' = [i \in DOMAIN got' |-> got'[i]]
          BY <2>8
        <5> QED BY <4>4, <4>5, <5>1
      <4> QED BY <1>1, <1>3, <4>1, <4>6
    <3> QED BY <2>6, <3>2, <3>3, <3>4 DEF GotInv
  <2>16. ReadInv'
    <3>0. envelope'.recs = Tail(recs)
      BY <2>6
    <3>1. Len(got') + Len(envelope'.recs) <= MaxBytes
      <4> DEFINE a == Len(got)
                 b == Len(recs)
      <4>1. a \in Nat /\ b \in Nat /\ a + b <= MaxBytes /\ MaxBytes \in Nat
            /\ Len(got') = a + 1 /\ Len(envelope'.recs) = b - 1
        BY <2>5, <2>7, <2>8, <3>0, WaitTypes
      <4> HIDE DEF a, b
      <4> QED BY ONLY <4>1
    <3>2. \A i \in 1..(Len(recs) - 1) : i \in DOMAIN recs /\ i + 1 \in DOMAIN recs /\ 1 \in DOMAIN recs /\ 1 < i + 1
      BY <2>7
    <3>3. \A i \in DOMAIN envelope'.recs : envelope'.recs[i] > waitCursor' /\ envelope'.recs[i] <= persisted'
      <4>1. \A i \in 1..(Len(recs) - 1) : Tail(recs)[i] = recs[i + 1] /\ n < recs[i + 1] /\ recs[i + 1] <= persisted
        BY <2>5, <2>7, <3>2
      <4>2. \A i \in 1..(Len(recs) - 1) : recs[i + 1] > n
        BY <2>7, <2>10, <3>2, <4>1
      <4> QED BY <1>3, <2>2, <2>7, <3>0, <4>1, <4>2
    <3>4. \A i, j \in DOMAIN envelope'.recs : i < j => envelope'.recs[i] < envelope'.recs[j]
      <4>1. ASSUME NEW i \in 1..(Len(recs) - 1), NEW j \in 1..(Len(recs) - 1), i < j
            PROVE Tail(recs)[i] < Tail(recs)[j]
        <5>1. i + 1 < j + 1 /\ i + 1 \in DOMAIN recs /\ j + 1 \in DOMAIN recs
          BY <3>2, <4>1
        <5>2. recs[i + 1] < recs[j + 1]
          BY <2>5, <5>1
        <5> QED BY <2>7, <5>2
      <4> QED BY <2>7, <3>0, <4>1
    <3>5. ~envelope'.gap => \A i \in DOMAIN envelope'.recs : envelope'.recs[i] = waitCursor' + i
      <4>1. ASSUME ~envelope.gap, NEW i \in 1..(Len(recs) - 1) PROVE Tail(recs)[i] = n + i
        <5>1. Tail(recs)[i] = waitCursor + (i + 1)
          BY <2>5, <2>7, <3>2, <4>1
        <5>2. n = waitCursor + 1 /\ waitCursor \in Nat /\ i \in Nat
          BY <2>7, <2>10, <2>11, <4>1
        <5>3. n + i = waitCursor + (i + 1)
          BY ONLY <5>2
        <5> QED BY <5>1, <5>3
      <4> QED BY <1>3, <2>6, <2>7, <3>0, <4>1
    <3>6. wpc' = "append"
      BY <1>1, <2>3
    <3> QED BY <2>6, <3>1, <3>3, <3>4, <3>5, <3>6 DEF ReadInv, R
  <2>17. FirstInv'
    <3>1. ~firstRead
      BY <1>1, LoopFacts
    <3> QED BY <1>1, <2>1, <2>3, <3>1 DEF LoopInv, FirstInv
  <2>18. CaughtUpInv'
    <3>1. waitCursor' <= persisted'
      BY <1>3, <2>2, <2>11
    <3>2. status' = "none"
      BY <1>1, <2>1, <2>3 DEF LoopInv, FirstInv
    <3>3. MissingIsReal => MissingIsReal'
      BY <2>2, <2>3 DEF MissingIsReal
    <3> QED BY <2>1, <2>6, <3>1, <3>2, <3>3 DEF LoopInv, CaughtUpInv
  <2>19. BudgetInv'
    <3>1. ResultLen(got)' = ResultLen(candidate)
      BY <1>3, <2>2 DEF ResultLen, Lines
    <3>2. ResultLen(candidate) \in Nat
      <4>1. candidate \in Seq(Nat)
        <5>1. candidate \in Seq(R) /\ R \subseteq Nat
          BY <1>3, <2>8 DEF R
        <5>2. candidate \in [1..Len(candidate) -> R] /\ Len(candidate) \in Nat
          BY ONLY <5>1, LenProperties
        <5>3. candidate \in [1..Len(candidate) -> Nat]
          BY <5>1, <5>2
        <5> QED BY ONLY <5>2, <5>3, SeqDef
      <4> QED BY <4>1, ResultLenIs
    <3>3. emitted + EventLen(n) + 1 + FinishReserve + ResultLen(candidate) <= MaxOutput
      BY <1>3 DEF Required
    <3>4. emitted \in Nat
      BY <2>1 DEF LoopTypes
    <3> DEFINE x == ResultLen(candidate)
               e == EventLen(n)
    <3>5. emitted' = emitted + e
      BY <1>3
    <3> HIDE DEF x, e
    <3>6. (emitted + e) + x + 1 + FinishReserve <= MaxOutput
      BY <2>12, <3>2, <3>3, <3>4, WaitTypes DEF x, e
    <3> QED BY <3>1, <3>5, <3>6 DEF BudgetInv, x
  <2>20. MatchIsOneConnection'
    BY <1>1, <2>1, <2>3 DEF LoopInv, FirstInv, MatchIsOneConnection
  <2> QED BY <2>2, <2>14, <2>15, <2>16, <2>17, <2>18, <2>19, <2>20 DEF WaitInv, LoopInv
<1> QED BY <1>2, <1>3 DEF AppendRecord

\* Neither the clock nor standing still changes what was acquired.
LEMMA StandKeeps ==
  ASSUME WaitInv, UNCHANGED daemonVars, req' = req, UNCHANGED loopVars, late' \in BOOLEAN
  PROVE  WaitInv'
<1>1. DaemonTypes /\ LoopTypes /\ HistoryInv /\ LoopInv
  BY TypeParts DEF WaitInv
<1>2. /\ DaemonTypes' /\ HistoryInv'
      /\ rxChunk' = rxChunk /\ persisted' = persisted /\ lost' = lost /\ floor' = floor /\ epoch' = epoch
  BY <1>1, Still
<1>3. /\ wpc' = wpc /\ firstRead' = firstRead /\ shouldRead' = shouldRead
      /\ seen' = seen /\ envelope' = envelope /\ got' = got /\ waitCursor' = waitCursor /\ emitted' = emitted
      /\ pendNotes' = pendNotes /\ notes' = notes /\ seenGen' = seenGen /\ status' = status /\ excused' = excused
  BY DEF loopVars
<1>4. LoopTypes'
  BY <1>1, <1>3 DEF LoopTypes
<1>5. WaitTypeOK'
  BY <1>2, <1>4, TypeParts, PTL
<1>6. ResultLen(got)' = ResultLen(got)
  BY <1>2, <1>3, SameResult
<1>7. LoopInv'
  <2>1. GotInv' BY <1>1, <1>2, <1>3 DEF LoopInv, GotInv
  <2>2. ReadInv' BY <1>1, <1>2, <1>3 DEF LoopInv, ReadInv
  <2>3. FirstInv' BY <1>1, <1>3 DEF LoopInv, FirstInv
  <2>4. CaughtUpInv' BY <1>1, <1>2, <1>3 DEF LoopInv, CaughtUpInv, MissingIsReal
  <2>5. BudgetInv'
    <3>1. Running' <=> Running BY <1>3 DEF Running
    <3> QED BY <1>1, <1>3, <1>6, <3>1 DEF LoopInv, BudgetInv
  <2>6. MatchIsOneConnection' BY <1>1, <1>2, <1>3 DEF LoopInv, MatchIsOneConnection
  <2> QED BY <2>1, <2>2, <2>3, <2>4, <2>5, <2>6 DEF LoopInv
<1> QED BY <1>2, <1>5, <1>7 DEF WaitInv

LEMMA WaitStarts ==
  ASSUME WaitInit
  PROVE  WaitInv
<1> USE WaitTypes
<1>1. DaemonTypes
  <2>1. Flags BY DEF WaitInit, Flags
  <2>2. rxChunk \in Seq(Chunks) BY DEF WaitInit
  <2> QED BY <2>1, <2>2 DEF WaitInit, DaemonTypes
<1>2. req \in [since : 0..WaitRx, timed : BOOLEAN] /\ req.since = 0
  <2> DEFINE b == TRUE
  <2>1. b \in BOOLEAN /\ req = [since |-> 0, timed |-> b] BY DEF WaitInit
  <2> HIDE DEF b
  <2> QED BY <2>1
<1>3. LoopTypes
  <2>1. late \in BOOLEAN /\ firstRead \in BOOLEAN /\ shouldRead \in BOOLEAN /\ excused \in BOOLEAN
    BY DEF WaitInit
  <2>2. notes \in Notes BY DEF WaitInit, Notes
  <2>3. got \in Seq(1..WaitRx) BY DEF WaitInit
  <2> QED BY <1>2, <2>1, <2>2, <2>3 DEF WaitInit, LoopTypes
<1>4. HistoryInv
  BY DEF WaitInit, HistoryInv
<1>5. GotInv
  <2>1. << >> = [i \in 1..(0 - 0) |-> 0 + i]
    BY EmptyRun
  <2> QED BY <1>2, <2>1 DEF WaitInit, GotInv
<1>6. ReadInv
  <2> DEFINE Q == Seq(1..WaitRx)
  <2>1. << >> \in Q OBVIOUS
  <2>2. envelope = NoRecords /\ got = << >> BY DEF WaitInit
  <2> HIDE DEF Q
  <2>3. envelope.recs = << >> /\ ~envelope.gap
        /\ envelope \in [recs : Q, gap : BOOLEAN, missing : BOOLEAN, capped : BOOLEAN]
    BY <2>1, <2>2 DEF NoRecords
  <2>4. Len(got) + Len(envelope.recs) <= MaxBytes /\ DOMAIN envelope.recs = {}
    BY <2>2, <2>3
  <2> QED BY <2>3, <2>4 DEF ReadInv, Q
<1>7. FirstInv
  <2>1. ~seen.ok BY StatusIs DEF WaitInit
  <2> QED BY <1>2, <2>1 DEF WaitInit, FirstInv
<1>8. CaughtUpInv
  <2>1. ~envelope.gap BY DEF WaitInit, NoRecords
  <2> QED BY <2>1 DEF WaitInit, CaughtUpInv
<1>9. BudgetInv
  BY DEF WaitInit, BudgetInv, Running
<1>10. MatchIsOneConnection
  BY DEF WaitInit, MatchIsOneConnection
<1> QED BY <1>1, <1>3, <1>4, <1>5, <1>6, <1>7, <1>8, <1>9, <1>10, TypeParts DEF WaitInv, LoopInv

LEMMA WaitStep ==
  ASSUME WaitInv, [WaitNext]_waitVars
  PROVE  WaitInv'
<1>1. CASE wpc # "done" /\ Daemon
  BY <1>1, DaemonKeeps
<1>2. CASE \E s \in 0..WaitRx, timed \in BOOLEAN : StartWait(s, timed)
  BY <1>2, StartKeeps
<1>3. CASE TakeMark
  BY <1>3, MarkKeeps
<1>4. CASE WriteDone
  BY <1>4, WriteKeeps
<1>5. CASE Acquire
  BY <1>5, PreflightKeeps, NextRoundKeeps, ReadKeeps, ReadFailsKeeps, AppendKeeps, AssessKeeps, HealthKeeps
     DEF Acquire
<1>6. CASE Tick
  <2>1. UNCHANGED daemonVars /\ req' = req /\ UNCHANGED loopVars /\ late' \in BOOLEAN
    BY <1>6 DEF Tick
  <2> QED BY <2>1, StandKeeps
<1>7. CASE UNCHANGED waitVars
  <2>1. UNCHANGED daemonVars /\ req' = req /\ UNCHANGED loopVars /\ late' = late
    BY <1>7 DEF waitVars
  <2>2. late' \in BOOLEAN
    BY <2>1, LoopFacts
  <2> QED BY <2>1, <2>2, StandKeeps
<1> QED BY <1>1, <1>2, <1>3, <1>4, <1>5, <1>6, <1>7 DEF WaitNext, WaitDone

\* What run keeps from round to round of a wait, for every journal, every
\* boundary and every budget: what was acquired and what is still to be
\* appended follow the cursor, the cursor is never past a journal a healthy
\* status vouched for, and the reserve for the end is unspent.
THEOREM WaitInvariant == WaitSpec => []WaitInv
BY WaitStarts, WaitStep, PTL DEF WaitSpec

\* A bounded wait reports the bytes after its boundary and no others, a match
\* on one connection only, a gap only where something is missing, and stays
\* within its output budget whatever is added at its end, over reconnects,
\* restarts of the daemon and a journal that lags (wait.rs run).
THEOREM WaitAlwaysHonest == WaitSpec => []WaitIsHonest
<1>1. ASSUME WaitInv PROVE WaitIsHonest
  <2>1. LoopTypes
    BY <1>1, TypeParts DEF WaitInv
  <2>2. AcquiredAfterBoundary
    BY <1>1 DEF WaitInv, LoopInv, GotInv, AcquiredAfterBoundary
  <2>3. GapIsReal
    BY <1>1 DEF WaitInv, LoopInv, CaughtUpInv, MissingIsReal, GapIsReal
  <2>4. OutputWithinBudget
    <3> SUFFICES ASSUME wpc = "done", status # "refused"
                 PROVE emitted + ResultLen(got) + notes.len + 1 <= MaxOutput
      BY DEF OutputWithinBudget
    <3> DEFINE x == ResultLen(got)
               l == notes.len
    <3>1. emitted + x + 1 + FinishReserve <= MaxOutput
      BY <1>1 DEF WaitInv, LoopInv, BudgetInv, Running
    <3>2. emitted \in Nat /\ l \in Nat /\ l <= FinishReserve
      <4>1. l \in 0..DiagnosticBudget /\ emitted \in Nat
        BY <2>1 DEF LoopTypes, Notes
      <4> QED BY <4>1, WaitTypes
    <3>3. x \in Nat
      <4> DEFINE R == 1..WaitRx
      <4>1. got \in Seq(R) /\ R \subseteq Nat
        BY <2>1 DEF LoopTypes
      <4> HIDE DEF R
      <4>2. got \in [1..Len(got) -> R] /\ Len(got) \in Nat
        BY ONLY <4>1, LenProperties
      <4>3. got \in [1..Len(got) -> Nat]
        BY <4>1, <4>2
      <4>4. got \in Seq(Nat)
        BY ONLY <4>2, <4>3, SeqDef
      <4> QED BY <4>4, ResultLenIs
    <3> HIDE DEF x, l
    <3>4. emitted + x + l + 1 <= MaxOutput
      BY <3>1, <3>2, <3>3, WaitTypes
    <3> QED BY <3>4 DEF x, l
  <2> QED BY <1>1, <2>2, <2>3, <2>4 DEF WaitInv, LoopInv, WaitIsHonest
<1> QED BY <1>1, WaitInvariant, PTL
=============================================================================
