------------------------- MODULE TftpTransfer_proofs -------------------------
(***************************************************************************)
(* Proofs about a TFTP transfer, for every file length, retry limit and    *)
(* width of the block number that exceeds the reordering of the network by *)
(* two: in particular for u16 block numbers, that wrap.                    *)
(***************************************************************************)
EXTENDS TftpTransfer, SequenceTheorems, TLAPS

\* What is on the way to the client is data of the last BlockMod - 1 blocks.
DataRecent ==
  \A p \in toClient :
    /\ p.kind = "data"
    /\ p.blk = p.i % BlockMod
    /\ p.i <= idx
    /\ p.i + BlockMod > idx + 1

\* An ACK on its way to the server is for a block the client has, and not so
\* old that its number is in use again.
AcksRecent ==
  \A p \in toServer :
    p.kind = "ack" =>
      /\ p.blk = p.i % BlockMod
      /\ p.i <= Len(got)
      /\ p.i + BlockMod > idx

TransferInv ==
  /\ TypeOK
  /\ InOrder
  /\ LockStep
  /\ DoneMeansDelivered
  /\ DataRecent
  /\ AcksRecent
  /\ spc = "send" => tries < MaxRetries
  /\ cpc = "asked" => got = <<>>

-----------------------------------------------------------------------------
\* The division theorem.
LEMMA ModFacts ==
  ASSUME NEW a \in Nat, NEW m \in Nat, m > 0
  PROVE  a % m \in Nat /\ a \div m \in Int /\ a = m * (a \div m) + (a % m)
<1>1. a % m \in Nat /\ a \div m \in Int
  OBVIOUS
<1> DEFINE q == a \div m
           r == a % m
<1>2. q = a \div m /\ r = a % m /\ q \in Int /\ r \in Int
  BY <1>1
<1> HIDE DEF q, r
<1>3. a = m * q + r
  BY <1>2, SMTT(30)
<1> QED
  BY <1>1, <1>2, <1>3

\* Two numbers less than m apart are equal if they are equal modulo m.
LEMMA ModInjective ==
  ASSUME NEW a \in Nat, NEW b \in Nat, NEW m \in Nat,
         a <= b, b < a + m, a % m = b % m
  PROVE  a = b
<1>0. m > 0
  OBVIOUS
<1> DEFINE qa == a \div m
           qb == b \div m
           r == a % m
<1>1. /\ qa \in Int /\ qb \in Int /\ r \in Nat
      /\ a = m * qa + r
      /\ b = m * qb + r
  BY <1>0, ModFacts
<1> HIDE DEF qa, qb, r
<1>2. b - a = m * (qb - qa)
  BY <1>1
<1>3. CASE qb - qa >= 1
  <2>1. m * (qb - qa) >= m
    BY <1>1, <1>3
  <2> QED
    BY <1>2, <2>1
<1>4. CASE qb - qa <= -1
  <2>1. m * (qb - qa) <= -m
    BY <1>1, <1>4
  <2> QED
    BY <1>0, <1>2, <2>1
<1>5. CASE qb = qa
  BY <1>1, <1>5
<1> QED
  BY <1>1, <1>3, <1>4, <1>5

\* Appending to a sequence of numbers.
LEMMA AppendNat ==
  ASSUME NEW s \in Seq(Nat), NEW e \in Nat
  PROVE  /\ Append(s, e) \in Seq(Nat)
         /\ Len(s) \in Nat
         /\ Len(Append(s, e)) = Len(s) + 1
         /\ Append(s, e)[Len(s) + 1] = e
         /\ \A k \in 1..Len(s) : Append(s, e)[k] = s[k]
OBVIOUS

\* A datagram as Packet builds it.
LEMMA PacketType ==
  ASSUME NEW kind \in {"data", "ack", "error", "junk"}, NEW i \in Nat
  PROVE  /\ Packet(kind, i) \in Datagram
         /\ Packet(kind, i).kind = kind
         /\ Packet(kind, i).i = i
         /\ Packet(kind, i).blk = i % BlockMod
<1>1. BlockMod \in Nat /\ BlockMod > 0
  BY TransferAssumption
<1>2. i % BlockMod \in Nat
  BY <1>1
<1> QED
  BY <1>2 DEF Packet, Datagram

USE TransferAssumption

\* The facts about the constants and the types that the steps share.
LEMMA Basics ==
  ASSUME TransferInv
  PROVE  /\ Blocks \in Nat /\ Blocks >= 1
         /\ BlockMod \in Nat /\ BlockMod >= 2
         /\ Lifetime \in Nat /\ Lifetime + 2 <= BlockMod
         /\ First \in {0, 1}
         /\ idx \in Nat /\ First <= idx /\ idx <= Blocks
         /\ Len(got) \in Nat
         /\ Len(got) <= idx /\ idx <= Len(got) + 1
<1>1. got \in Seq(Nat) /\ idx \in First..Blocks
  BY DEF TransferInv, TypeOK
<1>2. First \in {0, 1}
  BY DEF First
<1>3. Len(got) <= idx /\ idx <= Len(got) + 1
  BY DEF TransferInv, LockStep
<1> QED
  BY <1>1, <1>2, <1>3

-----------------------------------------------------------------------------
\* An ACK that the server accepts is the ACK of its block: the client has it.
LEMMA AcceptedIsReceived ==
  ASSUME TransferInv, NEW p \in toServer, Accepts(p)
  PROVE  Len(got) = idx
<1>1. /\ p.kind = "ack"
      /\ p.blk = idx % BlockMod
  BY DEF Accepts
<1>2. /\ p.blk = p.i % BlockMod
      /\ p.i <= Len(got)
      /\ p.i + BlockMod > idx
  BY <1>1 DEF TransferInv, AcksRecent
<1>3. p.i \in Nat
  BY DEF TransferInv, TypeOK, Datagram
<1>4. /\ idx \in Nat /\ BlockMod \in Nat
      /\ p.i <= idx
      /\ idx < p.i + BlockMod
      /\ p.i % BlockMod = idx % BlockMod
  BY <1>1, <1>2, <1>3, Basics
<1>5. p.i = idx
  BY <1>3, <1>4, ModInjective
<1> QED
  BY <1>2, <1>5, Basics

\* A block that the client accepts is the next one of the file.
LEMMA TakenIsNext ==
  ASSUME TransferInv, NEW p \in toClient,
         p.blk = (Len(got) + 1) % BlockMod
  PROVE  p.i = Len(got) + 1 /\ p.i = idx
<1>1. /\ p.blk = p.i % BlockMod
      /\ p.i <= idx
      /\ p.i + BlockMod > idx + 1
  BY DEF TransferInv, DataRecent
<1>2. p.i \in Nat
  BY DEF TransferInv, TypeOK, Datagram
<1>3. /\ Len(got) + 1 \in Nat
      /\ p.i <= Len(got) + 1
      /\ Len(got) + 1 < p.i + BlockMod
  BY <1>1, <1>2, Basics
<1>4. p.i = Len(got) + 1
  BY <1>1, <1>2, <1>3, Basics, ModInjective
<1> QED
  BY <1>1, <1>4, Basics

-----------------------------------------------------------------------------
LEMMA InitInv == Init => TransferInv
<1> SUFFICES ASSUME Init PROVE TransferInv
  OBVIOUS
<1>1. First \in {0, 1} /\ First \in First..Blocks
  BY DEF First
<1>2. Len(got) = 0 /\ got \in Seq(Nat) /\ got = <<>>
  BY DEF Init
<1>3. TypeOK
  BY <1>1, <1>2 DEF Init, TypeOK
<1>4. InOrder /\ LockStep
  BY <1>1, <1>2 DEF Init, InOrder, LockStep
<1> QED
  BY <1>2, <1>3, <1>4 DEF Init, TransferInv, DoneMeansDelivered, DataRecent, AcksRecent

\* Steps that only move the server along or remove datagrams.
LEMMA QuietStep ==
  ASSUME TransferInv,
         spc' \in {"send", "wait", "failed"} \/ spc' = spc,
         spc' = "send" => tries < MaxRetries \/ spc = "send",
         toClient' \subseteq toClient,
         toServer' \subseteq toServer,
         UNCHANGED <<idx, tries, cpc, got>>
  PROVE  TransferInv'
<1>1. TypeOK'
  BY DEF TransferInv, TypeOK
<1>2. InOrder' /\ LockStep' /\ DoneMeansDelivered'
  BY DEF TransferInv, InOrder, LockStep, DoneMeansDelivered
<1>3. DataRecent'
  BY DEF TransferInv, DataRecent
<1>4. AcksRecent'
  BY DEF TransferInv, AcksRecent
<1>5. (spc = "send" => tries < MaxRetries)'
  BY DEF TransferInv
<1>6. (cpc = "asked" => got = <<>>)'
  BY DEF TransferInv
<1> QED
  BY <1>1, <1>2, <1>3, <1>4, <1>5, <1>6 DEF TransferInv

\* Steps that only put one datagram on its way to the server.
LEMMA AnswerStep ==
  ASSUME TransferInv, NEW q \in Datagram,
         toServer' = toServer \cup {q} \/ toServer' = toServer,
         q.kind = "ack" => /\ q.blk = q.i % BlockMod
                           /\ q.i <= Len(got)
                           /\ q.i + BlockMod > idx,
         cpc' \in {"reading", "done", "gone"} \/ cpc' = cpc,
         UNCHANGED <<spc, idx, tries, toClient, got>>
  PROVE  TransferInv'
<1>1. TypeOK'
  BY DEF TransferInv, TypeOK
<1>2. InOrder' /\ LockStep' /\ DoneMeansDelivered'
  BY DEF TransferInv, InOrder, LockStep, DoneMeansDelivered
<1>3. DataRecent'
  BY DEF TransferInv, DataRecent
<1>4. AcksRecent'
  BY DEF TransferInv, AcksRecent
<1>5. (spc = "send" => tries < MaxRetries)'
  BY DEF TransferInv
<1>6. (cpc = "asked" => got = <<>>)'
  BY DEF TransferInv
<1> QED
  BY <1>1, <1>2, <1>3, <1>4, <1>5, <1>6 DEF TransferInv

-----------------------------------------------------------------------------
LEMMA SendInv == TransferInv /\ Send => TransferInv'
<1> SUFFICES ASSUME TransferInv, Send PROVE TransferInv'
  OBVIOUS
<1>1. /\ spc = "send" /\ spc' = "wait"
      /\ tries' = tries + 1
      /\ toClient' = toClient \cup {Packet("data", idx)}
      /\ idx' = idx /\ toServer' = toServer /\ cpc' = cpc /\ got' = got
  BY DEF Send, Block
<1>2. idx \in Nat /\ BlockMod \in Nat /\ BlockMod >= 2
  BY Basics
<1>3. /\ Packet("data", idx) \in Datagram
      /\ Packet("data", idx).kind = "data"
      /\ Packet("data", idx).i = idx
      /\ Packet("data", idx).blk = idx % BlockMod
  BY <1>2, PacketType
<1>4. tries < MaxRetries /\ tries \in 0..MaxRetries
  BY <1>1 DEF TransferInv, TypeOK
<1>5. TypeOK'
  BY <1>1, <1>3, <1>4 DEF TransferInv, TypeOK
<1>6. DataRecent'
  BY <1>1, <1>2, <1>3 DEF TransferInv, DataRecent
<1>7. InOrder' /\ LockStep' /\ DoneMeansDelivered' /\ AcksRecent'
  BY <1>1 DEF TransferInv, InOrder, LockStep, DoneMeansDelivered, AcksRecent
<1> QED
  BY <1>1, <1>5, <1>6, <1>7 DEF TransferInv

LEMMA AckedInv ==
  ASSUME TransferInv, NEW p \in toServer, Acked(p)
  PROVE  TransferInv'
<1>1. Len(got) = idx
  BY AcceptedIsReceived DEF Acked
<1>2. cpc' = cpc /\ got' = got
  BY DEF Acked
<1>3. CASE Ends(idx)
  <2>1. /\ spc' = "done"
        /\ idx' = idx /\ tries' = tries
        /\ toClient' = toClient /\ toServer' = toServer
    BY <1>3 DEF Acked
  <2>2. TypeOK' /\ InOrder' /\ LockStep'
    BY <1>2, <2>1 DEF TransferInv, TypeOK, InOrder, LockStep
  <2>3. DoneMeansDelivered'
    BY <1>1, <1>2, <1>3 DEF Ends, DoneMeansDelivered
  <2>4. DataRecent' /\ AcksRecent'
    BY <1>2, <2>1 DEF TransferInv, DataRecent, AcksRecent
  <2> QED
    BY <1>2, <2>1, <2>2, <2>3, <2>4 DEF TransferInv
<1>4. CASE ~Ends(idx)
  <2>1. /\ spc' = "send"
        /\ idx' = idx + 1 /\ tries' = 0
        /\ toClient' = Fresh(toClient, idx + 1)
        /\ toServer' = Fresh(toServer, idx + 1)
    BY <1>4 DEF Acked
  <2>2. idx # Blocks
    BY <1>4 DEF Ends
  <2>3. idx' \in First..Blocks
    BY <2>1, <2>2, Basics
  <2>4. /\ toClient' \subseteq toClient /\ toServer' \subseteq toServer
        /\ \A q \in toClient' : q.i + Lifetime >= idx + 1
        /\ \A q \in toServer' : q.i + Lifetime >= idx + 1
    BY <2>1 DEF Fresh
  <2>5. /\ \A q \in toClient : q.i \in Nat
        /\ \A q \in toServer : q.i \in Nat
    BY DEF TransferInv, TypeOK, Datagram
  <2>6. TypeOK'
    BY <1>2, <2>1, <2>3, <2>4 DEF TransferInv, TypeOK
  <2>7. InOrder'
    BY <1>2 DEF TransferInv, InOrder
  <2>8. LockStep'
    BY <1>1, <1>2, <2>1, Basics DEF LockStep
  <2>9. DoneMeansDelivered'
    BY <2>1 DEF DoneMeansDelivered
  <2>10. DataRecent'
    <3> SUFFICES ASSUME NEW q \in toClient'
                 PROVE  /\ q.kind = "data" /\ q.blk = q.i % BlockMod
                        /\ q.i <= idx' /\ q.i + BlockMod > idx' + 1
      BY DEF DataRecent
    <3>1. q.kind = "data" /\ q.blk = q.i % BlockMod /\ q.i <= idx
      BY <2>4 DEF TransferInv, DataRecent
    <3>2. q.i \in Nat /\ q.i + Lifetime >= idx + 1
      BY <2>4, <2>5
    <3> QED
      BY <2>1, <3>1, <3>2, Basics
  <2>11. AcksRecent'
    <3> SUFFICES ASSUME NEW q \in toServer', q.kind = "ack"
                 PROVE  /\ q.blk = q.i % BlockMod
                        /\ q.i <= Len(got') /\ q.i + BlockMod > idx'
      BY DEF AcksRecent
    <3>1. q.blk = q.i % BlockMod /\ q.i <= Len(got)
      BY <2>4 DEF TransferInv, AcksRecent
    <3>2. q.i \in Nat /\ q.i + Lifetime >= idx + 1
      BY <2>4, <2>5
    <3> QED
      BY <1>2, <2>1, <3>1, <3>2, Basics
  <2>12. (spc = "send" => tries < MaxRetries)'
    BY <2>1
  <2>13. (cpc = "asked" => got = <<>>)'
    BY <1>2 DEF TransferInv
  <2> QED
    BY <2>6, <2>7, <2>8, <2>9, <2>10, <2>11, <2>12, <2>13 DEF TransferInv
<1> QED
  BY <1>3, <1>4

LEMMA TakeOackInv ==
  ASSUME TransferInv, NEW p \in toClient, TakeOack(p)
  PROVE  TransferInv'
<1>1. got = <<>> /\ Len(got) = 0
  BY DEF TransferInv, TakeOack
<1>2. /\ Packet("ack", 0) \in Datagram
      /\ Packet("ack", 0).i = 0
      /\ Packet("ack", 0).blk = 0 % BlockMod
  BY PacketType
<1>3. idx < 0 + BlockMod /\ 0 <= Len(got)
  BY <1>1, Basics
<1> QED
  BY <1>2, <1>3, AnswerStep DEF TakeOack

LEMMA AgainInv ==
  ASSUME TransferInv, NEW p \in toClient, Again(p)
  PROVE  TransferInv'
<1>1. Len(got) \in Nat /\ Len(got) <= Len(got) /\ Len(got) + BlockMod > idx
  BY Basics
<1>2. /\ Packet("ack", Len(got)) \in Datagram
      /\ Packet("ack", Len(got)).i = Len(got)
      /\ Packet("ack", Len(got)).blk = Len(got) % BlockMod
  BY <1>1, PacketType
<1> QED
  BY <1>1, <1>2, AnswerStep DEF Again

LEMMA LeaveInv == TransferInv /\ Leave => TransferInv'
<1> SUFFICES ASSUME TransferInv, Leave PROVE TransferInv'
  OBVIOUS
<1>1. /\ Packet("error", idx) \in Datagram
      /\ Packet("error", idx).kind = "error"
  BY Basics, PacketType
<1>2. \/ toServer' = toServer \cup {Packet("error", idx)}
      \/ toServer' = toServer
  BY DEF Leave
<1> QED
  BY <1>1, <1>2, AnswerStep DEF Leave

LEMMA JunkInv == TransferInv /\ Junk => TransferInv'
<1> SUFFICES ASSUME TransferInv, Junk PROVE TransferInv'
  OBVIOUS
<1>1. /\ Packet("junk", idx) \in Datagram
      /\ Packet("junk", idx).kind = "junk"
  BY Basics, PacketType
<1> QED
  BY <1>1, AnswerStep DEF Junk

LEMMA TakeBlockInv ==
  ASSUME TransferInv, NEW p \in toClient, TakeBlock(p)
  PROVE  TransferInv'
<1> DEFINE q == Packet("ack", Len(got) + 1)
<1>1. /\ got' = Append(got, p.i)
      /\ cpc' \in {"done", "reading"}
      /\ toServer' = toServer \cup {q}
      /\ spc' = spc /\ idx' = idx /\ tries' = tries /\ toClient' = toClient
  BY DEF TakeBlock
<1>2. p.i = Len(got) + 1 /\ p.i = idx
  BY TakenIsNext DEF TakeBlock
<1>3. /\ Len(got) + 1 \in Nat /\ Len(got) \in Nat
      /\ BlockMod \in Nat /\ BlockMod >= 2
      /\ idx \in Nat /\ idx <= Blocks /\ Blocks \in Nat
  BY Basics
<1>4. q \in Datagram /\ q.i = Len(got) + 1 /\ q.blk = q.i % BlockMod
  <2>1. /\ q \in Datagram
        /\ q.i = Len(got) + 1
        /\ q.blk = (Len(got) + 1) % BlockMod
    BY <1>3, PacketType
  <2> QED
    BY <2>1
<1> HIDE DEF q
<1>5. got \in Seq(Nat)
  BY DEF TransferInv, TypeOK
<1>6. /\ got' \in Seq(Nat)
      /\ Len(got') = Len(got) + 1
      /\ got'[Len(got) + 1] = p.i
      /\ \A k \in 1..Len(got) : got'[k] = got[k]
  BY <1>1, <1>2, <1>3, <1>5, AppendNat
<1>7. TypeOK'
  BY <1>1, <1>4, <1>6 DEF TransferInv, TypeOK
<1>8. InOrder'
  <2> SUFFICES ASSUME NEW k \in 1..Len(got') PROVE got'[k] = k
    BY DEF InOrder
  <2>1. CASE k = Len(got) + 1
    BY <1>2, <1>6, <2>1
  <2>2. CASE k # Len(got) + 1
    <3>1. k \in 1..Len(got)
      BY <1>3, <1>6, <2>2
    <3> QED
      BY <1>6, <3>1 DEF TransferInv, InOrder
  <2> QED
    BY <2>1, <2>2
<1>9. LockStep'
  BY <1>1, <1>2, <1>3, <1>6 DEF LockStep
<1>10. DoneMeansDelivered'
  <2> SUFFICES ASSUME spc = "done" PROVE FALSE
    BY <1>1 DEF DoneMeansDelivered
  <2> QED
    BY <1>2, <1>3 DEF TransferInv, DoneMeansDelivered
<1>11. DataRecent'
  BY <1>1 DEF TransferInv, DataRecent
<1>12. AcksRecent'
  <2> SUFFICES ASSUME NEW r \in toServer', r.kind = "ack"
               PROVE  /\ r.blk = r.i % BlockMod
                      /\ r.i <= Len(got') /\ r.i + BlockMod > idx'
    BY DEF AcksRecent
  <2>1. CASE r = q
    BY <1>1, <1>2, <1>3, <1>4, <1>6, <2>1
  <2>2. CASE r \in toServer
    <3>1. r.blk = r.i % BlockMod /\ r.i <= Len(got) /\ r.i + BlockMod > idx
      BY <2>2 DEF TransferInv, AcksRecent
    <3>2. r.i \in Nat
      BY <2>2 DEF TransferInv, TypeOK, Datagram
    <3> QED
      BY <1>1, <1>3, <1>6, <3>1, <3>2
  <2> QED
    BY <1>1, <2>1, <2>2
<1>13. (spc = "send" => tries < MaxRetries)'
  BY <1>1 DEF TransferInv
<1>14. (cpc = "asked" => got = <<>>)'
  BY <1>1
<1> QED
  BY <1>7, <1>8, <1>9, <1>10, <1>11, <1>12, <1>13, <1>14 DEF TransferInv

-----------------------------------------------------------------------------
LEMMA StepInv == TransferInv /\ [Next]_vars => TransferInv'
<1> SUFFICES ASSUME TransferInv, [Next]_vars PROVE TransferInv'
  OBVIOUS
<1>1. CASE Send
  BY <1>1, SendInv
<1>2. CASE Timeout
  <2>1. /\ spc' \in {"send", "wait", "failed"}
        /\ spc' = "send" => tries < MaxRetries
        /\ toClient' = toClient /\ toServer' = toServer
        /\ UNCHANGED <<idx, tries, cpc, got>>
    BY <1>2 DEF Timeout
  <2> QED
    BY <2>1, QuietStep
<1>3. CASE SocketError
  BY <1>3, QuietStep DEF SocketError
<1>4. ASSUME NEW p \in toServer, Acked(p) PROVE TransferInv'
  BY <1>4, AckedInv
<1>5. ASSUME NEW p \in toServer, PeerError(p) PROVE TransferInv'
  BY <1>5, QuietStep DEF PeerError
<1>6. ASSUME NEW p \in toServer, Skip(p) PROVE TransferInv'
  BY <1>6, QuietStep DEF Skip
<1>7. ASSUME NEW p \in toClient, TakeOack(p) PROVE TransferInv'
  BY <1>7, TakeOackInv
<1>8. ASSUME NEW p \in toClient, TakeBlock(p) PROVE TransferInv'
  BY <1>8, TakeBlockInv
<1>9. ASSUME NEW p \in toClient, Again(p) PROVE TransferInv'
  BY <1>9, AgainInv
<1>10. CASE Leave
  BY <1>10, LeaveInv
<1>11. CASE Junk
  BY <1>11, JunkInv
<1>12. CASE Lose
  BY <1>12, QuietStep DEF Lose
<1>13. CASE Ended \/ UNCHANGED vars
  BY <1>13, QuietStep DEF Ended, vars
<1> QED
  BY <1>1, <1>2, <1>3, <1>4, <1>5, <1>6, <1>7, <1>8, <1>9, <1>10, <1>11, <1>12,
     <1>13 DEF Next, Server, Environment

LEMMA Invariance == Spec => []TransferInv
BY InitInv, StepInv, PTL DEF Spec

\* Every variable of a transfer keeps its type, and no block is sent more
\* than MAX_RETRIES times (send_and_wait_ack).
THEOREM TransferTypeCorrect == Spec => []TypeOK
<1>1. TransferInv => TypeOK
  BY DEF TransferInv
<1> QED
  BY <1>1, Invariance, PTL

\* Whatever the network loses, repeats or reorders, and however often the
\* block number wraps, the client's file is a prefix of the served one
\* (handle_rrq's DATA/ACK loop).
THEOREM FileInOrder == Spec => []InOrder
<1>1. TransferInv => InOrder
  BY DEF TransferInv
<1> QED
  BY <1>1, Invariance, PTL

\* The server goes on to a block only when the client has the one before
\* (send_and_wait_ack, and the offset that handle_rrq advances after it).
THEOREM ServerInLockStep == Spec => []LockStep
<1>1. TransferInv => LockStep
  BY DEF TransferInv
<1> QED
  BY <1>1, Invariance, PTL

\* A transfer reported as completed delivered every block of the file.
THEOREM CompletedIsDelivered == Spec => []DoneMeansDelivered
<1>1. TransferInv => DoneMeansDelivered
  BY DEF TransferInv
<1> QED
  BY <1>1, Invariance, PTL

-----------------------------------------------------------------------------
(***************************************************************************)
(* The transfer implements FileDelivery.                                   *)
(***************************************************************************)

LEMMA InitRefines == Init => Delivery!Init
BY DEF Init, Delivery!Init

\* Taking a block delivers one, the last ACK completes, and whatever ends the
\* transfer early gives up; every other step leaves what the client has and
\* the outcome alone.
LEMMA StepRefines ==
  ASSUME TransferInv, [Next]_vars
  PROVE  [Delivery!Next]_<<Len(got), IF spc \in {"send", "wait"} THEN "running" ELSE spc>>
<1> DEFINE outcome == IF spc \in {"send", "wait"} THEN "running" ELSE spc
<1>1. CASE Send
  BY <1>1 DEF Send
<1>2. CASE Timeout
  BY <1>2 DEF Timeout, Delivery!Next, Delivery!GiveUp
<1>3. CASE SocketError
  BY <1>3 DEF SocketError, Delivery!Next, Delivery!GiveUp
<1>4. ASSUME NEW p \in toServer, Acked(p) PROVE [Delivery!Next]_<<Len(got), outcome>>
  <2>1. Len(got) = idx /\ got' = got /\ spc = "wait"
    BY <1>4, AcceptedIsReceived DEF Acked
  <2>2. CASE Ends(idx)
    BY <1>4, <2>1, <2>2 DEF Acked, Ends, Delivery!Next, Delivery!Complete
  <2>3. CASE ~Ends(idx)
    BY <1>4, <2>1, <2>3 DEF Acked
  <2> QED
    BY <2>2, <2>3
<1>5. ASSUME NEW p \in toServer, PeerError(p) PROVE [Delivery!Next]_<<Len(got), outcome>>
  BY <1>5 DEF PeerError, Delivery!Next, Delivery!GiveUp
<1>6. ASSUME NEW p \in toServer, Skip(p) PROVE UNCHANGED <<Len(got), outcome>>
  BY <1>6 DEF Skip
<1>7. ASSUME NEW p \in toClient, TakeOack(p) PROVE UNCHANGED <<Len(got), outcome>>
  BY <1>7 DEF TakeOack
<1>8. ASSUME NEW p \in toClient, TakeBlock(p) PROVE Delivery!Deliver
  <2>1. p.i = Len(got) + 1 /\ p.i = idx /\ got' = Append(got, p.i) /\ spc' = spc
    BY <1>8, TakenIsNext DEF TakeBlock
  <2>2. got \in Seq(Nat) /\ idx \in Nat
    BY Basics DEF TransferInv, TypeOK
  <2>3. Len(got') = Len(got) + 1
    BY <2>1, <2>2, AppendNat
  <2>4. Len(got) < Blocks
    BY <2>1, Basics
  <2> QED
    BY <2>1, <2>3, <2>4 DEF Delivery!Deliver
<1>9. ASSUME NEW p \in toClient, Again(p) PROVE UNCHANGED <<Len(got), outcome>>
  BY <1>9 DEF Again
<1>10. CASE Leave
  BY <1>10 DEF Leave
<1>11. CASE Junk
  BY <1>11 DEF Junk
<1>12. CASE Lose
  BY <1>12 DEF Lose
<1>13. CASE Ended \/ UNCHANGED vars
  BY <1>13 DEF Ended, vars
<1> QED
  BY <1>1, <1>2, <1>3, <1>4, <1>5, <1>6, <1>7, <1>8, <1>9, <1>10, <1>11, <1>12,
     <1>13 DEF Next, Server, Environment, Delivery!Next

\* A TFTP transfer, with its numbers, timeouts and retransmissions, gives the
\* client the file's blocks one by one and reports completion only at the end
\* (handle_rrq): it implements FileDelivery.
THEOREM TransferImplementsDelivery == Spec => DeliverySpec
<1>1. Init => Delivery!Init
  BY InitRefines
<1>2. TransferInv /\ [Next]_vars =>
        [Delivery!Next]_<<Len(got), IF spc \in {"send", "wait"} THEN "running" ELSE spc>>
  BY StepRefines
<1> QED
  BY <1>1, <1>2, Invariance, PTL DEF Spec, DeliverySpec, Delivery!Spec

\* For every file length, modulus and number of retries, what TransferIsFaithful gathers holds in
\* every state of a transfer (handle_rrq, send_and_wait_ack).
THEOREM TransferAlwaysFaithful == Spec => []TransferIsFaithful
<1>1. TypeOK /\ InOrder /\ LockStep /\ DoneMeansDelivered => TransferIsFaithful
  BY DEF TransferIsFaithful
<1> QED
  BY <1>1, TransferTypeCorrect, FileInOrder, ServerInLockStep, CompletedIsDelivered, PTL
=============================================================================
