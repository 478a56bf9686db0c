--------------------------- MODULE NetBoot_proofs ---------------------------
(***************************************************************************)
(* Proofs about netbootd's DHCP server and TFTP dispatcher, each by itself *)
(* and the two in one process, for any devices on the link, any client     *)
(* ports, tasks and permits, and through restarts; and about how it comes  *)
(* up, on any host and with any number of failing calls.                   *)
(***************************************************************************)
EXTENDS NetBoot, TftpDispatch, NetbootdStart, FiniteSetTheorems, TLAPS

-----------------------------------------------------------------------------
(***************************************************************************)
(* The DHCP server.                                                        *)
(***************************************************************************)

\* What an answer that is being prepared has already done.
AnswerPrepared ==
  /\ dpc = "recv" => reply = "none"
  /\ dpc = "nak" => reply = "nak"
  /\ dpc \in {"pin", "send"} => reply \in {"offer", "ack"} /\ published = req
  /\ dpc = "send" => arp = req \/ unpinned
  /\ dpc # "recv" => req \in Macs

DhcpInv ==
  /\ DhcpTypeOK
  /\ OneClient
  /\ ReachableWhenLeased
  /\ AnswerPrepared

USE DhcpAssumption

-----------------------------------------------------------------------------
LEMMA InitInv == DhcpInit => DhcpInv
BY DEF DhcpInit, DhcpInv, DhcpTypeOK, OneClient, ReachableWhenLeased, AnswerPrepared, Answers

\* What one received request does to the state, by its disposition.
LEMMA ReceiveCases ==
  ASSUME NEW r \in Request, Receive(r)
  PROVE  /\ dpc = "recv" /\ r.mac \in Macs
         /\ arp' = arp /\ replies' = replies /\ unsent' = unsent /\ unpinned' = unpinned
         /\ \/ /\ active' \in {active, r.mac} /\ active \in {NoMac, r.mac, active'}
               /\ published' = published
               /\ dpc' = "recv" /\ req' = NoMac /\ reply' = "none"
            \/ /\ active \in {NoMac, r.mac} /\ active' = r.mac
               /\ published' = published
               /\ dpc' = "nak" /\ req' = r.mac /\ reply' = "nak"
            \/ /\ active \in {NoMac, r.mac} /\ active' = r.mac
               /\ published' = r.mac
               /\ dpc' = "pin" /\ req' = r.mac /\ reply' \in {"offer", "ack"}
<1>1. r.mac \in Macs
  BY DEF Request
<1>2. MessageType(r) \in {"offer", "ack", "nak", "ignore"}
  BY DEF MessageType, RequestVerdict
<1> DEFINE type == MessageType(r)
           served == type \in Answers /\ AcceptClient(r)
           goesOn == served /\ (type = "nak" \/ ~Ignored(r))
<1>3. /\ dpc = "recv"
      /\ active' = IF served THEN r.mac ELSE active
      /\ published' = IF served /\ ~(type = "nak" \/ Ignored(r)) THEN r.mac ELSE published
      /\ dpc' = IF goesOn THEN (IF type = "nak" THEN "nak" ELSE "pin") ELSE "recv"
      /\ req' = IF goesOn THEN r.mac ELSE NoMac
      /\ reply' = IF goesOn THEN type ELSE "none"
      /\ arp' = arp /\ replies' = replies /\ unsent' = unsent /\ unpinned' = unpinned
  BY DEF Receive, LockAfterType, PublishedMac
<1>4. served => active \in {NoMac, r.mac}
  BY DEF AcceptClient
<1>5. type \in {"offer", "ack", "nak", "ignore"} /\ (type \in Answers <=> type # "ignore")
  BY <1>2 DEF Answers
<1> HIDE DEF type, served, goesOn
<1>6. CASE ~goesOn
  <2>1. published' = published
    BY <1>3, <1>6 DEF goesOn
  <2> QED
    BY <1>1, <1>3, <1>4, <1>6, <2>1
<1>7. CASE goesOn /\ type = "nak"
  <2>1. served
    BY <1>7 DEF goesOn
  <2> QED
    BY <1>1, <1>3, <1>4, <1>7, <2>1
<1>8. CASE goesOn /\ type # "nak"
  <2>1. served /\ ~Ignored(r)
    BY <1>8 DEF goesOn
  <2>2. type \in {"offer", "ack"}
    BY <1>5, <1>8, <2>1 DEF served
  <2> QED
    BY <1>1, <1>3, <1>4, <1>8, <2>1, <2>2
<1> QED
  BY <1>6, <1>7, <1>8

\* A device that has had an answer is the locked one.
LEMMA AnsweredIsActive ==
  ASSUME DhcpInv, NEW x \in replies
  PROVE  x[1] = active /\ active # NoMac
BY DEF DhcpInv, OneClient, DhcpTypeOK

LEMMA ReceiveInv ==
  ASSUME DhcpInv, NEW r \in Request, Receive(r)
  PROVE  DhcpInv'
<1>1. DhcpTypeOK'
  BY ReceiveCases DEF DhcpInv, DhcpTypeOK, Answers
<1>2. \A x \in replies : x[1] = active /\ active' = active
  BY AnsweredIsActive, ReceiveCases
<1>3. OneClient'
  BY <1>2, ReceiveCases DEF DhcpInv, OneClient
<1>4. ReachableWhenLeased'
  BY <1>2, ReceiveCases DEF DhcpInv, ReachableWhenLeased
<1>5. AnswerPrepared'
  BY ReceiveCases DEF DhcpInv, AnswerPrepared
<1> QED
  BY <1>1, <1>3, <1>4, <1>5 DEF DhcpInv

LEMMA PinInv == DhcpInv /\ Pin => DhcpInv'
<1> SUFFICES ASSUME DhcpInv, Pin PROVE DhcpInv'
  OBVIOUS
<1>1. /\ dpc = "pin" /\ dpc' = "send"
      /\ (arp' = req /\ unpinned' = unpinned) \/ (unpinned' = TRUE /\ arp' = arp)
      /\ req' = req /\ reply' = reply /\ active' = active /\ published' = published
      /\ replies' = replies /\ unsent' = unsent
  BY DEF Pin
<1>2. DhcpTypeOK'
  BY <1>1 DEF DhcpInv, DhcpTypeOK
<1>3. OneClient'
  BY <1>1 DEF DhcpInv, OneClient
<1>4. ReachableWhenLeased'
  BY <1>1 DEF DhcpInv, OneClient, ReachableWhenLeased
<1>5. AnswerPrepared'
  BY <1>1 DEF DhcpInv, AnswerPrepared
<1> QED
  BY <1>2, <1>3, <1>4, <1>5 DEF DhcpInv

LEMMA ReplyInv == DhcpInv /\ Reply => DhcpInv'
<1> SUFFICES ASSUME DhcpInv, Reply PROVE DhcpInv'
  OBVIOUS
<1>1. /\ dpc \in {"nak", "send"} /\ dpc' = "recv" /\ req' = NoMac /\ reply' = "none"
      /\ \/ replies' = replies \cup {<<req, reply>>} /\ unsent' = unsent
         \/ replies' = replies /\ unsent' = TRUE
      /\ active' = active /\ published' = published /\ arp' = arp /\ unpinned' = unpinned
  BY DEF Reply
<1>2. req \in Macs /\ reply \in Answers /\ req = active
  BY <1>1 DEF DhcpInv, AnswerPrepared, OneClient, Answers
<1>3. DhcpTypeOK'
  <2>1. replies' \subseteq Macs \X Answers
    BY <1>1, <1>2 DEF DhcpInv, DhcpTypeOK
  <2>2. unsent' \in BOOLEAN
    BY <1>1 DEF DhcpInv, DhcpTypeOK
  <2> QED
    BY <1>1, <2>1, <2>2 DEF DhcpInv, DhcpTypeOK
<1>4. OneClient'
  BY <1>1, <1>2 DEF DhcpInv, OneClient
<1>5. reply \in {"offer", "ack"} => published = req /\ (arp = req \/ unpinned)
  BY <1>1 DEF DhcpInv, AnswerPrepared
<1>6. ReachableWhenLeased'
  BY <1>1, <1>5 DEF DhcpInv, ReachableWhenLeased
<1>7. AnswerPrepared'
  BY <1>1 DEF AnswerPrepared
<1> QED
  BY <1>3, <1>4, <1>6, <1>7 DEF DhcpInv

LEMMA RestartInv == DhcpInv /\ Restart => DhcpInv'
BY DEF Restart, DhcpInv, DhcpTypeOK, OneClient, ReachableWhenLeased, AnswerPrepared, Answers

LEMMA StutterInv == DhcpInv /\ UNCHANGED dhcpVars => DhcpInv'
BY DEF dhcpVars, DhcpInv, DhcpTypeOK, OneClient, ReachableWhenLeased, AnswerPrepared

LEMMA Invariance == DhcpSpec => []DhcpInv
<1>1. DhcpInv /\ [DhcpNext]_dhcpVars => DhcpInv'
  BY ReceiveInv, PinInv, ReplyInv, RestartInv, StutterInv DEF DhcpNext
<1> QED
  BY <1>1, InitInv, PTL DEF DhcpSpec

-----------------------------------------------------------------------------
\* Every variable of the DHCP server keeps its type.
THEOREM DhcpTypeCorrect == DhcpSpec => []DhcpTypeOK
<1>1. DhcpInv => DhcpTypeOK
  BY DEF DhcpInv
<1> QED
  BY <1>1, Invariance, PTL

\* However many devices ask, and in whatever order, everything a session hands
\* out goes to one of them (accept_client, disposition).
THEOREM OneClientServed == DhcpSpec => []OneClient
<1>1. DhcpInv => OneClient
  BY DEF DhcpInv
<1> QED
  BY <1>1, Invariance, PTL

\* An OFFER or ACK is only sent to a device whose MAC TFTP already has, and
\* whose ARP entry was set unless that failed (serve).
THEOREM LeasedIsReachable == DhcpSpec => []ReachableWhenLeased
<1>1. DhcpInv => ReachableWhenLeased
  BY DEF DhcpInv
<1> QED
  BY <1>1, Invariance, PTL

\* The single-client lock moves from no device to one, and back only by a
\* restart (accept_client).
THEOREM LockNeverMoves == DhcpSpec => LockIsKept
<1>1. [DhcpNext]_dhcpVars => [active' \in {active, NoMac} \/ active = NoMac]_dhcpVars
  <2> SUFFICES ASSUME DhcpNext PROVE active' \in {active, NoMac} \/ active = NoMac
    OBVIOUS
  <2>1. ASSUME NEW r \in Request, Receive(r)
        PROVE  active' = active \/ active = NoMac
    BY <2>1, ReceiveCases
  <2>2. CASE Pin \/ Reply
    BY <2>2 DEF Pin, Reply
  <2>3. CASE Restart
    BY <2>3 DEF Restart
  <2> QED
    BY <2>1, <2>2, <2>3 DEF DhcpNext
<1> QED
  BY <1>1, PTL DEF DhcpSpec, LockIsKept

\* With an HTTP listener, a request that takes the lock is one that the loop goes on to answer.
LEMMA LockIsForAnswer ==
  ASSUME HttpBound, NEW r \in Request, Receive(r)
  PROVE  dpc' # "recv" \/ active' = active
<1> DEFINE type == MessageType(r)
           served == type \in Answers /\ AcceptClient(r)
<1>1. ~Ignored(r)
  BY DEF Ignored
<1>2. /\ active' = IF served THEN r.mac ELSE active
      /\ dpc' = IF served THEN (IF type = "nak" THEN "nak" ELSE "pin") ELSE "recv"
  BY <1>1 DEF Receive, LockAfterType
<1> QED
  BY <1>2

LEMMA AnsweredStep ==
  ASSUME HttpBound, DhcpInv, LockedIsAnswered, [DhcpNext]_dhcpVars
  PROVE  LockedIsAnswered'
<1>1. ASSUME NEW r \in Request, Receive(r) PROVE LockedIsAnswered'
  <2>1. dpc' # "recv" \/ (active' = active /\ dpc = "recv")
    BY <1>1, LockIsForAnswer, ReceiveCases
  <2> QED BY <1>1, <2>1 DEF Receive, LockedIsAnswered
<1>2. CASE Pin
  BY <1>2 DEF Pin, LockedIsAnswered
<1>3. CASE Reply
  <2>1. req = active /\ active' = active
    BY <1>3 DEF Reply, DhcpInv, OneClient
  <2>2. unsent' \/ <<req, reply>> \in replies'
    BY <1>3 DEF Reply
  <2>3. <<req, reply>>[1] = active
    BY <2>1
  <2> QED BY <2>1, <2>2, <2>3 DEF LockedIsAnswered
<1>4. CASE Restart
  BY <1>4 DEF Restart, LockedIsAnswered
<1>5. CASE UNCHANGED dhcpVars
  BY <1>5 DEF dhcpVars, LockedIsAnswered
<1> QED
  BY <1>1, <1>2, <1>3, <1>4, <1>5 DEF DhcpNext

-----------------------------------------------------------------------------
(***************************************************************************)
(* The TFTP dispatcher.  OneTransferPerTid is inductive with its types;    *)
(* that only a replaced transfer is aborted also needs the map's live      *)
(* entries to name the TID they are filed under.                           *)
(***************************************************************************)

MapAgrees ==
  \A p \in Peers : inflight[p] \in Tasks /\ st[inflight[p]] # "finished" => peer[inflight[p]] = p

DispatchInv ==
  /\ DispatchTypeOK
  /\ SlotsConserved
  /\ OneTransferPerTid
  /\ MapAgrees

LEMMA AnyPeerType == AnyPeer \in Peers
BY DispatchAssumption DEF AnyPeer

\* Only a finished task's entry leaves the map on its own.
LEMMA RetainedFacts ==
  ASSUME DispatchTypeOK
  PROVE  /\ Retained \in [Peers -> Tasks \cup {NoTask}]
         /\ \A p \in Peers : Retained[p] \in {inflight[p], NoTask}
         /\ \A p \in Peers : Retained[p] \in Tasks => st[Retained[p]] # "finished"
         /\ \A p \in Peers : inflight[p] \in Tasks /\ st[inflight[p]] # "finished" =>
              Retained[p] = inflight[p]
BY DispatchAssumption DEF DispatchTypeOK, Retained

\* The running tasks are finitely many, so there are counted permits for them.
LEMMA RunningFinite ==
  IsFiniteSet(Running) /\ Cardinality(Running) \in Nat
<1>1. Running \in SUBSET Tasks
  BY DEF Running
<1> QED BY <1>1, DispatchAssumption, FS_Subset, FS_CardinalityType

LEMMA RefuseDispatch ==
  ASSUME DispatchInv, NEW p \in Peers, Refuse(p)
  PROVE  DispatchInv'
<1>1. DispatchTypeOK'
  BY RetainedFacts DEF DispatchInv, DispatchTypeOK, Refuse
<1>2. SlotsConserved'
  BY DEF DispatchInv, Refuse, SlotsConserved, Running
<1>3. OneTransferPerTid'
  <2> SUFFICES ASSUME NEW t \in Running \ aborted PROVE Retained[peer[t]] = t
    BY DEF Refuse, OneTransferPerTid, Running
  <2>1. t \in Tasks /\ st[t] = "running" /\ peer[t] \in Peers /\ inflight[peer[t]] = t
    BY DEF DispatchInv, DispatchTypeOK, OneTransferPerTid, Running
  <2> QED BY <2>1, RetainedFacts DEF DispatchInv
<1>4. MapAgrees'
  BY RetainedFacts, DispatchAssumption DEF DispatchInv, Refuse, MapAgrees
<1> QED BY <1>1, <1>2, <1>3, <1>4 DEF DispatchInv

LEMMA AcceptDispatch ==
  ASSUME DispatchInv, NEW p \in Peers, NEW t \in Tasks, Accept(p, t)
  PROVE  DispatchInv'
<1>1. /\ DispatchTypeOK /\ free > 0
      /\ free' = free - 1
      /\ aborted' = aborted \cup Replaced(p)
      /\ inflight' = [Retained EXCEPT ![p] = t]
      /\ st' = [st EXCEPT ![t] = "running"]
      /\ peer' = [peer EXCEPT ![t] = p]
      /\ mac' = [mac EXCEPT ![t] = clientMac]
      /\ clientMac' = clientMac
  BY DEF DispatchInv, Accept
<1>2. t \in Unused
  BY DEF Accept
<1>3. st[t] = "finished" /\ \A q \in Peers : Retained[q] # t
  BY <1>2 DEF Unused
<1>4. DispatchTypeOK'
  <2>1. free' \in 0..MaxTransfers
    BY <1>1, DispatchAssumption DEF DispatchTypeOK
  <2>2. Replaced(p) \subseteq Tasks
    BY DEF Replaced
  <2>3. inflight' \in [Peers -> Tasks \cup {NoTask}]
    BY <1>1, RetainedFacts
  <2> QED BY <1>1, <2>1, <2>2, <2>3 DEF DispatchTypeOK
<1>5. SlotsConserved'
  <2>1. t \notin Running /\ Running' = Running \cup {t}
    BY <1>1, <1>3 DEF Running, DispatchTypeOK
  <2>2. Cardinality(Running') = Cardinality(Running) + 1
    BY <2>1, RunningFinite, FS_AddElement
  <2>3. free \in Nat /\ MaxTransfers \in Nat
    BY <1>1, DispatchAssumption DEF DispatchTypeOK
  <2> QED BY <1>1, <2>2, <2>3, RunningFinite DEF SlotsConserved, DispatchInv
<1>6. OneTransferPerTid'
  <2> SUFFICES ASSUME NEW u \in Running' \ aborted' PROVE inflight'[peer'[u]] = u
    BY DEF OneTransferPerTid
  <2>0. /\ u \in Tasks /\ st'[u] = "running"
        /\ Retained \in [Peers -> Tasks \cup {NoTask}] /\ peer \in [Tasks -> Peers]
    BY <1>1, RetainedFacts DEF Running, DispatchTypeOK
  <2>1. CASE u = t
    BY <1>1, <2>0, <2>1
  <2>2. CASE u # t
    <3>1. u \in Running \ aborted /\ peer'[u] = peer[u] /\ peer[u] \in Peers
      BY <1>1, <2>0, <2>2 DEF Running, DispatchTypeOK
    <3>2. inflight[peer[u]] = u /\ st[u] = "running"
      BY <3>1 DEF DispatchInv, OneTransferPerTid, Running
    <3>3. Retained[peer[u]] = u
      BY <1>1, <2>0, <3>1, <3>2, RetainedFacts
    <3>4. peer[u] # p
      BY <1>1, <2>0, <3>3 DEF Replaced
    <3> QED BY <1>1, <2>0, <3>1, <3>3, <3>4
  <2> QED BY <2>1, <2>2
<1>7. MapAgrees'
  <2> SUFFICES ASSUME NEW q \in Peers, inflight'[q] \in Tasks, st'[inflight'[q]] # "finished"
               PROVE  peer'[inflight'[q]] = q
    BY DEF MapAgrees
  <2>1. Retained \in [Peers -> Tasks \cup {NoTask}] /\ peer \in [Tasks -> Peers]
    BY <1>1, RetainedFacts DEF DispatchTypeOK
  <2>2. CASE q = p
    BY <1>1, <2>1, <2>2
  <2>3. CASE q # p
    <3>1. inflight'[q] = Retained[q] /\ Retained[q] # t
      BY <1>1, <1>3, <2>1, <2>3
    <3>2. Retained[q] = inflight[q] /\ st[inflight[q]] # "finished"
      BY <1>1, <3>1, RetainedFacts, DispatchAssumption
    <3>3. peer[inflight[q]] = q
      BY <3>1, <3>2 DEF DispatchInv, MapAgrees
    <3> QED BY <1>1, <2>1, <3>1, <3>2, <3>3
  <2> QED BY <2>2, <2>3
<1> QED BY <1>4, <1>5, <1>6, <1>7 DEF DispatchInv

\* A task that ends, by itself or because it was aborted, gives its permit back.
LEMMA EndDispatch ==
  ASSUME DispatchInv, NEW t \in Tasks, Finish(t) \/ Cancel(t)
  PROVE  DispatchInv'
<1>1. /\ DispatchTypeOK /\ st[t] = "running"
      /\ st' = [st EXCEPT ![t] = "dropped"]
      /\ free' = free + 1
      /\ UNCHANGED <<inflight, aborted, peer, mac, clientMac>>
  BY DEF DispatchInv, Finish, Cancel
<1>2. t \in Running /\ Running' = Running \ {t}
  BY <1>1 DEF Running, DispatchTypeOK
<1>3. Cardinality(Running') = Cardinality(Running) - 1 /\ Cardinality(Running') \in Nat
  <2>1. IsFiniteSet(Running') /\ Cardinality(Running') = Cardinality(Running) - 1
    BY <1>2, RunningFinite, FS_RemoveElement
  <2> QED BY <2>1, FS_CardinalityType
<1>4. free \in Nat /\ MaxTransfers \in Nat /\ free + Cardinality(Running) = MaxTransfers
  BY <1>1, DispatchAssumption DEF DispatchTypeOK, DispatchInv, SlotsConserved
<1>5. SlotsConserved' /\ free' \in 0..MaxTransfers
  BY <1>1, <1>3, <1>4, RunningFinite DEF SlotsConserved
<1>6. DispatchTypeOK'
  BY <1>1, <1>5 DEF DispatchTypeOK
<1>7. OneTransferPerTid'
  BY <1>1, <1>2 DEF DispatchInv, OneTransferPerTid
<1>8. MapAgrees'
  BY <1>1 DEF DispatchInv, MapAgrees, DispatchTypeOK
<1> QED BY <1>5, <1>6, <1>7, <1>8 DEF DispatchInv

LEMMA JoinDispatch ==
  ASSUME DispatchInv, NEW t \in Tasks, Join(t)
  PROVE  DispatchInv'
<1>1. /\ DispatchTypeOK /\ st[t] = "dropped"
      /\ st' = [st EXCEPT ![t] = "finished"]
      /\ aborted' = aborted \ {t}
      /\ peer' = [peer EXCEPT ![t] = AnyPeer]
      /\ mac' = [mac EXCEPT ![t] = NoTftpMac]
      /\ UNCHANGED <<free, inflight, clientMac>>
  BY DEF DispatchInv, Join
<1>2. t \notin Running /\ Running' = Running
  BY <1>1 DEF Running, DispatchTypeOK
<1>3. DispatchTypeOK'
  BY <1>1, AnyPeerType DEF DispatchTypeOK
<1>4. SlotsConserved'
  BY <1>1, <1>2 DEF DispatchInv, SlotsConserved
<1>5. OneTransferPerTid'
  <2> SUFFICES ASSUME NEW u \in Running \ (aborted \ {t}) PROVE inflight[peer'[u]] = u
    BY <1>1, <1>2 DEF OneTransferPerTid
  <2>1. u # t /\ u \in Tasks /\ u \in Running \ aborted
    BY <1>2 DEF Running
  <2>2. peer'[u] = peer[u]
    BY <1>1, <2>1 DEF DispatchTypeOK
  <2> QED BY <2>1, <2>2 DEF DispatchInv, OneTransferPerTid
<1>6. MapAgrees'
  BY <1>1 DEF DispatchInv, MapAgrees, DispatchTypeOK
<1> QED BY <1>3, <1>4, <1>5, <1>6 DEF DispatchInv

LEMMA DispatchInvariance == DispatchSpec => []DispatchInv
<1>1. DispatchInit => DispatchInv
  <2> SUFFICES ASSUME DispatchInit PROVE DispatchInv
    OBVIOUS
  <2>1. Running = {}
    BY DEF DispatchInit, InitTasks, Running
  <2>2. DispatchTypeOK
    BY AnyPeerType, DispatchAssumption DEF DispatchInit, InitTasks, DispatchTypeOK
  <2>3. SlotsConserved
    BY <2>1, FS_EmptySet, DispatchAssumption DEF DispatchInit, InitTasks, SlotsConserved
  <2> QED
    BY <2>1, <2>2, <2>3, DispatchAssumption DEF DispatchInv, OneTransferPerTid, MapAgrees,
       DispatchInit, InitTasks
<1>2. DispatchInv /\ [DispatchNext]_dispatchVars => DispatchInv'
  <2> SUFFICES ASSUME DispatchInv, [DispatchNext]_dispatchVars PROVE DispatchInv'
    OBVIOUS
  <2>1. CASE Dispatch
    BY <2>1, RefuseDispatch, AcceptDispatch DEF Dispatch
  <2>2. CASE Run
    BY <2>2, EndDispatch, JoinDispatch DEF Run
  <2>3. CASE Learn
    BY <2>3 DEF Learn, taskVars, DispatchInv, DispatchTypeOK, SlotsConserved, OneTransferPerTid,
       MapAgrees, Running
  <2>4. CASE UNCHANGED dispatchVars
    BY <2>4 DEF dispatchVars, taskVars, DispatchInv, DispatchTypeOK, SlotsConserved,
       OneTransferPerTid, MapAgrees, Running
  <2> QED BY <2>1, <2>2, <2>3, <2>4 DEF DispatchNext
<1> QED
  BY <1>1, <1>2, PTL DEF DispatchSpec

\* For any number of client ports, tasks and permits: permits and running tasks add up, and a
\* transfer that nobody aborted is the one a repeated request finds (tftp.rs serve).
THEOREM SlotsAndTidsAlwaysHold == DispatchSpec => []SlotsAndTidsHold
<1>1. DispatchInv => SlotsAndTidsHold
  BY DEF DispatchInv, SlotsAndTidsHold
<1> QED
  BY <1>1, DispatchInvariance, PTL

\* A transfer is aborted only in the step that starts its successor at the same client port; a
\* request for which no permit is left tears nothing down (tftp.rs serve).
THEOREM AbortsOnlyReplace == DispatchSpec => AbortOnlyReplaces
<1> DEFINE Replaces == \A t \in aborted' \ aborted : \E u \in Running' \ Running : peer'[u] = peer[t]
<1>1. DispatchInv /\ [DispatchNext]_dispatchVars => [Replaces]_dispatchVars
  <2> SUFFICES ASSUME DispatchInv, DispatchNext, NEW t \in aborted' \ aborted
               PROVE  \E u \in Running' \ Running : peer'[u] = peer[t]
    OBVIOUS
  <2>1. PICK p \in Peers, u \in Tasks : Accept(p, u)
    BY DEF DispatchNext, Dispatch, Run, Learn, taskVars, Refuse, Finish, Cancel, Join
  <2>2. /\ DispatchTypeOK /\ aborted' = aborted \cup Replaced(p)
        /\ st' = [st EXCEPT ![u] = "running"] /\ peer' = [peer EXCEPT ![u] = p]
    BY <2>1 DEF DispatchInv, Accept
  <2>3. st[u] = "finished"
    <3>1. u \in Unused
      BY <2>1 DEF Accept
    <3> QED BY <3>1 DEF Unused
  <2>4. t = Retained[p] /\ t \in Tasks
    BY <2>2 DEF Replaced
  <2>5. inflight[p] = t /\ st[t] # "finished"
    BY <2>2, <2>4, RetainedFacts, DispatchAssumption
  <2>6. peer[t] = p
    BY <2>4, <2>5 DEF DispatchInv, MapAgrees
  <2>7. u \in Running' \ Running /\ peer'[u] = p
    BY <2>2, <2>3 DEF Running, DispatchTypeOK
  <2> QED BY <2>6, <2>7
<1> QED
  BY <1>1, DispatchInvariance, PTL DEF DispatchSpec, AbortOnlyReplaces

-----------------------------------------------------------------------------
(***************************************************************************)
(* The two in one process.                                                 *)
(***************************************************************************)

\* Every step of the process is the DHCP server's or leaves it alone.
LEMMA BootStep == [BootNext]_bootVars => [DhcpNext]_dhcpVars
BY DEF BootNext, DhcpStep, Fetch, TransferStep, BootRestart, DhcpNext, bootVars

\* The process is the DHCP server with transfers beside it: it adds no step to the server, so
\* what is proved of DhcpSpec holds of the process (main.rs run).
THEOREM BootImplementsDhcp == BootSpec => DhcpSpec
<1>1. BootInit => DhcpInit
  BY DEF BootInit
<1> QED
  BY <1>1, BootStep, PTL DEF BootSpec, DhcpSpec

\* The transfers' part of the inductive invariant.
TransfersInv ==
  /\ bootSt \in [BootTasks -> {"running", "dropped", "finished"}]
  /\ bootMac \in [BootTasks -> Macs \cup {NoMac}]
  /\ FramesReachClient

LEMMA TransfersStep ==
  ASSUME DhcpInv, TransfersInv, [BootNext]_bootVars
  PROVE  TransfersInv'
<1> USE DEF TransfersInv, FramesReachClient, T!Running
<1>1. CASE DhcpStep
  <2>1. bootSt' = bootSt /\ bootMac' = bootMac
    BY <1>1 DEF DhcpStep, tftpVars
  <2>2. active # NoMac => active' = active
    BY <1>1, ReceiveCases DEF DhcpStep, Pin, Reply
  <2> QED BY <2>1, <2>2
<1>2. CASE Fetch
  <2>1. active' = active /\ published = active /\ active \in Macs
    <3>1. PICK m \in Macs : <<m, "ack">> \in replies
      BY <1>2 DEF Fetch
    <3>2. m = active /\ published = m
      BY <3>1 DEF DhcpInv, OneClient, ReachableWhenLeased
    <3> QED BY <1>2, <3>1, <3>2 DEF Fetch, dhcpVars
  <2>2. CASE \E p \in BootPeers : T!Refuse(p)
    BY <2>1, <2>2 DEF T!Refuse
  <2>3. ASSUME NEW p \in BootPeers, NEW t \in BootTasks, T!Accept(p, t) PROVE TransfersInv'
    <3>1. bootSt' = [bootSt EXCEPT ![t] = "running"] /\ bootMac' = [bootMac EXCEPT ![t] = published]
      BY <2>3 DEF T!Accept
    <3> QED BY <2>1, <3>1
  <2> QED BY <1>2, <2>2, <2>3 DEF Fetch, T!Dispatch
<1>3. CASE TransferStep
  <2>1. active' = active
    BY <1>3 DEF TransferStep, dhcpVars
  <2>2. PICK t \in BootTasks : T!Finish(t) \/ T!Cancel(t) \/ T!Join(t)
    BY <1>3 DEF TransferStep, T!Run
  <2>3. CASE T!Finish(t) \/ T!Cancel(t)
    BY <2>1, <2>3 DEF T!Finish, T!Cancel
  <2>4. CASE T!Join(t)
    BY <2>1, <2>4 DEF T!Join
  <2> QED BY <2>2, <2>3, <2>4
<1>4. CASE BootRestart
  BY <1>4 DEF BootRestart
<1>5. CASE UNCHANGED bootVars
  BY <1>5 DEF bootVars, tftpVars, dhcpVars
<1> QED
  BY <1>1, <1>2, <1>3, <1>4, <1>5 DEF BootNext

\* With an HTTP listener, for any devices, ports and permits: the session serves one device, which
\* has had its answer and can be reached at what it was leased, and no transfer's frames go to
\* another (dhcp.rs serve, tftp.rs Xfer.client_mac).
THEOREM LeaseAlwaysUsable ==
  ASSUME HttpBound
  PROVE  BootSpec => []LeaseIsUsable
<1> DEFINE BootInv == DhcpInv /\ LockedIsAnswered /\ TransfersInv
<1>1. BootInit => BootInv
  <2> SUFFICES ASSUME BootInit PROVE BootInv
    OBVIOUS
  <2>1. DhcpInv /\ LockedIsAnswered
    BY InitInv DEF BootInit, DhcpInit, LockedIsAnswered
  <2>2. TransfersInv
    BY DEF BootInit, T!InitTasks, TransfersInv, FramesReachClient, T!Running
  <2> QED BY <2>1, <2>2
<1>2. BootInv /\ [BootNext]_bootVars => BootInv'
  <2> SUFFICES ASSUME BootInv, [BootNext]_bootVars PROVE BootInv'
    OBVIOUS
  <2>1. [DhcpNext]_dhcpVars
    BY BootStep
  <2>2. DhcpInv'
    BY <2>1, ReceiveInv, PinInv, ReplyInv, RestartInv, StutterInv DEF DhcpNext
  <2> QED BY <2>1, <2>2, AnsweredStep, TransfersStep
<1>3. BootInv => LeaseIsUsable
  BY DEF DhcpInv, TransfersInv, LeaseIsUsable
<1> QED
  BY <1>1, <1>2, <1>3, PTL DEF BootSpec

-----------------------------------------------------------------------------
(***************************************************************************)
(* How netbootd comes up, for any hosts and any number of failing calls.   *)
(* What each step of the daemon and of the helper may rely on: the helper  *)
(* opens nothing before its two gates and sends only what is complete      *)
(* (HelperInv), the daemon believes only a helper that ended well          *)
(* (HandoffInv), and past the first listener on Linux it is root until it  *)
(* has given everything up in order (DaemonInv).                           *)
(***************************************************************************)
DaemonPcs == {"check", "lock", "dhcp", "tftp", "http", "bpf", "spawn", "close", "recv", "reap", "drop", "setgroups", "setgid",
              "setuid", "verify", "serve", "failed"}
HelperPcs == {"none", "owner", "route", "open", "setif", "hdr", "filter", "send", "exit", "exited"}
Ifaces == {"none"} \cup {h.iface : h \in Hosts}
Device == [mode : {"none", "write"}, iface : Ifaces, hdr : BOOLEAN, filter : BOOLEAN, cloexec : BOOLEAN]
Gids == {h.uid : h \in Hosts} \cup {0, 501, 502}
Credentials == [ruid : Gids, euid : Gids, saved : Gids, gid : Gids, groups : SUBSET Gids]

StartTypes ==
  /\ startHost \in Hosts /\ startPc \in DaemonPcs /\ hpc \in HelperPcs /\ bound \subseteq {"dhcp", "tftp", "http"}
  /\ creds \in Credentials /\ dev \in Device /\ sock \in [ends : SUBSET {"daemon", "helper"}, sent : Device]
  /\ receivedFd \in Device /\ fd \in Device /\ hcode \in {-1, 0, 1, 9} /\ faultsLeft \in Nat

\* What the helper has prepared when it comes to each of its calls.
Opened == [NoDev EXCEPT !.mode = "write"]
OnLink == [Opened EXCEPT !.iface = startHost.iface]
Injecting == [OnLink EXCEPT !.hdr = TRUE]
Filtered == [Injecting EXCEPT !.filter = TRUE]
MayHave == startHost.uid = 0 \/ (startHost.uid = startHost.owner /\ startHost.links = 1)
HelperInv ==
  /\ hpc # "none" => startHost.iface # startHost.route
  /\ hpc \in {"route", "open", "setif", "hdr", "filter", "send", "exit"} => MayHave
  /\ hpc = "setif" => dev = Opened
  /\ hpc = "hdr" => dev = OnLink
  /\ hpc = "filter" => dev = Injecting
  /\ hpc = "send" => dev = Filtered
HandoffInv ==
  /\ sock.sent # NoDev => Contained(sock.sent)
  /\ receivedFd # NoDev => Contained(receivedFd) /\ receivedFd.cloexec
  /\ fd # NoDev =>
       /\ Contained(fd) /\ fd.cloexec /\ hcode = 0 /\ hpc = "exited"
       /\ startPc \in {"drop", "setgroups", "setgid", "setuid", "verify", "serve", "failed"}

\* The daemon: root until it drops it, and dropping only for a user it can name.
Late == {"setgroups", "setgid", "setuid", "verify"}
Drops == /\ startHost.os = "linux" /\ startHost.uid = 0 /\ Parses(startHost.sudoUid) /\ Parses(startHost.sudoGid)
         /\ UidOf(startHost.sudoUid) # 0
DaemonInv ==
  /\ startPc \notin {"check", "failed"} => startHost.iface # startHost.route
  /\ startPc \notin {"setgid", "setuid", "verify", "serve", "failed"} => creds = Root(startHost)
  /\ startPc \notin {"check", "lock", "dhcp", "failed"} =>
       "dhcp" \in bound /\ (startHost.os = "linux" => startHost.uid = 0)
  /\ startPc \notin {"check", "lock", "dhcp", "tftp", "failed"} => "tftp" \in bound
  /\ startPc \in Late => Drops
  /\ startPc \in {"setgid", "setuid", "verify"} => creds.groups = {}
  /\ startPc = "setgid" => creds.ruid = 0
  /\ startPc \in {"setuid", "verify"} => creds.gid = UidOf(startHost.sudoGid)
  /\ startPc = "serve" /\ startHost.os = "linux" /\ startHost.sudoUid # "none" /\ startHost.sudoUid # "0" =>
       /\ creds.ruid = UidOf(startHost.sudoUid) /\ creds.euid = creds.ruid
       /\ creds.saved # 0 /\ creds.groups = {} /\ creds.gid = UidOf(startHost.sudoGid)
StartInv == StartTypes /\ HelperInv /\ HandoffInv /\ DaemonInv

-----------------------------------------------------------------------------
LEMMA StartFaultTyped ==
  ASSUME faultsLeft \in Nat, faultsLeft' = faultsLeft \/ (faultsLeft > 0 /\ faultsLeft' = faultsLeft - 1)
  PROVE  faultsLeft' \in Nat
OBVIOUS

LEMMA DevicesTyped ==
  ASSUME startHost \in Hosts
  PROVE  /\ NoDev \in Device /\ Opened \in Device /\ OnLink \in Device /\ Injecting \in Device /\ Filtered \in Device
         /\ Filtered.mode = "write" /\ Filtered.filter = TRUE /\ Filtered.hdr = TRUE /\ Filtered.iface = startHost.iface
<1> DEFINE i == startHost.iface
<1>1. i \in Ifaces /\ "none" \in Ifaces
  BY DEF Ifaces
<1>2. /\ OnLink = [Opened EXCEPT !.iface = i]
  BY DEF OnLink
<1> HIDE DEF i
<1>3. NoDev \in Device
  BY <1>1 DEF NoDev, Device
<1>4. Opened \in Device /\ Opened.mode = "write"
  BY <1>3 DEF Opened, Device
<1> HIDE DEF Opened
<1>5. OnLink \in Device /\ OnLink.mode = "write" /\ OnLink.iface = i
  BY <1>1, <1>2, <1>4 DEF Device
<1> HIDE DEF OnLink
<1>6. Injecting \in Device /\ Injecting.mode = "write" /\ Injecting.iface = i /\ Injecting.hdr = TRUE
  BY <1>5 DEF Injecting, Device
<1> HIDE DEF Injecting
<1>7. /\ Filtered \in Device /\ Filtered.mode = "write" /\ Filtered.iface = i /\ Filtered.hdr = TRUE
      /\ Filtered.filter = TRUE
  BY <1>6 DEF Filtered, Device
<1> QED BY <1>3, <1>4, <1>5, <1>6, <1>7 DEF i

\* A step of the daemon alone, which takes no part in the hand-off.
LEMMA DaemonMoves ==
  ASSUME StartInv, UNCHANGED <<startHost, receivedFd, fd, helperVars, sock>>, startPc' \in DaemonPcs,
         bound' \subseteq {"dhcp", "tftp", "http"}, creds' \in Credentials,
         faultsLeft' = faultsLeft \/ (faultsLeft > 0 /\ faultsLeft' = faultsLeft - 1),
         startPc \in {"drop", "setgroups", "setgid", "setuid", "verify"} =>
           startPc' \in {"drop", "setgroups", "setgid", "setuid", "verify", "serve", "failed"},
         startPc \in {"check", "lock", "dhcp", "tftp", "http", "bpf", "drop", "setgroups", "setgid", "setuid", "verify"},
         DaemonInv'
  PROVE  StartInv'
<1>1. StartTypes /\ HelperInv /\ HandoffInv /\ faultsLeft \in Nat
  BY DEF StartInv, StartTypes
<1>2. UNCHANGED <<startHost, receivedFd, fd, hpc, dev, hcode, sock>> /\ faultsLeft' \in Nat
  BY <1>1, StartFaultTyped DEF helperVars
<1>3. StartTypes'
  BY <1>1, <1>2 DEF StartTypes
<1>4. HelperInv'
  BY <1>1, <1>2 DEF HelperInv, MayHave, OnLink, Injecting, Filtered
<1>5. HandoffInv'
  BY <1>1, <1>2 DEF HandoffInv, Contained
<1> QED BY <1>3, <1>4, <1>5 DEF StartInv

LEMMA Parsing == \A v : UidOf(v) \in {0, 501, 502} /\ (UidOf(v) = 0 <=> v = "0")
BY DEF UidOf

LEMMA EarlySteps ==
  ASSUME StartInv, CheckStart \/ AcquireInterface \/ BindDhcp \/ BindTftp \/ BindHttp \/ BuildBpfSender PROVE StartInv'
<1>0. /\ DaemonInv /\ startPc \in DaemonPcs /\ bound \subseteq {"dhcp", "tftp", "http"} /\ creds \in Credentials
      /\ startHost.os \in {"macos", "linux"}
  BY StartAssumption DEF StartInv, StartTypes
<1>1. /\ UNCHANGED <<startHost, receivedFd, fd, helperVars, sock, creds>>
      /\ startPc \in {"check", "lock", "dhcp", "tftp", "http", "bpf"}
      /\ bound' \subseteq {"dhcp", "tftp", "http"} /\ bound \subseteq bound'
      /\ faultsLeft' = faultsLeft \/ (faultsLeft > 0 /\ faultsLeft' = faultsLeft - 1)
  <2>1. CASE CheckStart
    BY <1>0, <2>1 DEF CheckStart
  <2>2. CASE AcquireInterface
    BY <1>0, <2>2 DEF AcquireInterface, Goes
  <2>3. CASE BindDhcp
    BY <1>0, <2>3 DEF BindDhcp, BindListener
  <2>4. CASE BindTftp
    BY <1>0, <2>4 DEF BindTftp, BindListener
  <2>5. CASE BindHttp
    BY <1>0, <2>5 DEF BindHttp, BindListener
  <2>6. CASE BuildBpfSender
    BY <1>0, <2>6 DEF BuildBpfSender, Goes
  <2> QED BY <2>1, <2>2, <2>3, <2>4, <2>5, <2>6
<1>2. \/ startPc' = "failed"
      \/ startPc = "check" /\ startPc' = "lock" /\ startHost.iface # startHost.route
      \/ startPc = "lock" /\ startPc' = "dhcp"
      \/ startPc = "dhcp" /\ startPc' = "tftp" /\ "dhcp" \in bound' /\ (startHost.os = "macos" \/ creds.euid = 0)
      \/ startPc = "tftp" /\ startPc' = "http" /\ "tftp" \in bound'
      \/ startPc = "http" /\ startPc' = "bpf"
      \/ startPc = "bpf" /\ startPc' \in {"spawn", "drop"}
  <2>1. CASE CheckStart
    BY <2>1 DEF CheckStart, IsPrimary
  <2>2. CASE AcquireInterface
    BY <2>2 DEF AcquireInterface, Goes
  <2>3. CASE BindDhcp
    BY <2>3 DEF BindDhcp, BindListener, MayBind
  <2>4. CASE BindTftp
    BY <2>4 DEF BindTftp, BindListener
  <2>5. CASE BindHttp
    BY <2>5 DEF BindHttp, BindListener
  <2>6. CASE BuildBpfSender
    BY <2>6 DEF BuildBpfSender, Goes
  <2> QED BY <2>1, <2>2, <2>3, <2>4, <2>5, <2>6
<1>3. Root(startHost).euid = startHost.uid
  BY DEF Root
<1>4. startPc = "dhcp" => creds.euid = startHost.uid
  BY <1>0, <1>3 DEF DaemonInv
<1>5. DaemonInv'
  <2>1. CASE startPc' = "failed"
    BY <2>1 DEF DaemonInv, Late
  <2>2. CASE startPc' # "failed"
    BY <1>0, <1>1, <1>2, <1>4, <2>2 DEF DaemonInv, Late, Root
  <2> QED BY <2>1, <2>2
<1> QED BY <1>0, <1>1, <1>2, <1>5, DaemonMoves DEF DaemonPcs

\* Giving root back.
LEMMA DropStart == ASSUME StartInv, DropPrivileges PROVE StartInv'
<1>0. /\ DaemonInv /\ bound \subseteq {"dhcp", "tftp", "http"} /\ creds \in Credentials /\ startPc = "drop"
      /\ startHost.os \in {"macos", "linux"}
  BY StartAssumption DEF StartInv, StartTypes, DropPrivileges
<1>1. UNCHANGED <<startHost, bound, creds, receivedFd, fd, helperVars, sock, faultsLeft>>
  BY DEF DropPrivileges
<1>2. /\ startHost.iface # startHost.route /\ creds = Root(startHost) /\ {"dhcp", "tftp"} \subseteq bound
      /\ (startHost.os = "linux" => startHost.uid = 0) /\ creds.ruid = startHost.uid
  BY <1>0 DEF DaemonInv, Root
<1>3. Nobody.kind = "nobody" /\ Refused.kind = "refused"
  BY DEF Nobody, Refused
<1>4. CASE startHost.os = "macos"
  <2>1. startPc' = "serve"
    BY <1>4 DEF DropPrivileges
  <2>2. DaemonInv'
    BY <1>1, <1>2, <1>4, <2>1 DEF DaemonInv, Late
  <2> QED BY <1>0, <1>1, <2>1, <2>2, DaemonMoves DEF DaemonPcs
<1>5. CASE startHost.os = "linux" /\ (startHost.sudoUid = "none" /\ startHost.sudoGid = "none")
  <2>1. DropTarget = Nobody
    BY <1>5 DEF DropTarget
  <2>2. startPc' = "serve"
    BY <2>1 DEF DropPrivileges
  <2>3. DaemonInv'
    BY <1>1, <1>2, <1>5, <2>2 DEF DaemonInv, Late
  <2> QED BY <1>0, <1>1, <2>2, <2>3, DaemonMoves DEF DaemonPcs
<1>6. CASE /\ startHost.os = "linux" /\ ~(startHost.sudoUid = "none" /\ startHost.sudoGid = "none")
           /\ ~(Parses(startHost.sudoUid) /\ Parses(startHost.sudoGid))
  <2>1. DropTarget = Refused
    BY <1>2, <1>6 DEF DropTarget
  <2>2. startPc' = "failed"
    BY <1>3, <1>6, <2>1 DEF DropPrivileges
  <2>3. DaemonInv'
    BY <2>2 DEF DaemonInv, Late
  <2> QED BY <1>0, <1>1, <2>2, <2>3, DaemonMoves DEF DaemonPcs
<1>7. CASE /\ startHost.os = "linux" /\ ~(startHost.sudoUid = "none" /\ startHost.sudoGid = "none")
           /\ Parses(startHost.sudoUid) /\ Parses(startHost.sudoGid)
  <2>1. CASE UidOf(startHost.sudoUid) = 0
    <3>1. DropTarget = Nobody
      BY <1>7, <2>1 DEF DropTarget
    <3>2. startPc' = "serve"
      BY <3>1 DEF DropPrivileges
    <3>3. startHost.sudoUid = "0"
      BY <2>1, Parsing
    <3>4. DaemonInv'
      BY <1>1, <1>2, <3>2, <3>3 DEF DaemonInv, Late
    <3> QED BY <1>0, <1>1, <3>2, <3>4, DaemonMoves DEF DaemonPcs
  <2>2. CASE UidOf(startHost.sudoUid) # 0
    <3>1. DropTarget.kind = "user"
      BY <1>2, <1>7, <2>2 DEF DropTarget
    <3>2. startPc' = "setgroups"
      BY <1>3, <1>7, <3>1 DEF DropPrivileges
    <3>3. Drops
      BY <1>2, <1>7, <2>2 DEF Drops
    <3>4. DaemonInv'
      BY <1>1, <1>2, <3>2, <3>3 DEF DaemonInv, Late, Drops, Root
    <3> QED BY <1>0, <1>1, <3>2, <3>4, DaemonMoves DEF DaemonPcs
  <2> QED BY <2>1, <2>2
<1> QED BY <1>0, <1>4, <1>5, <1>6, <1>7

LEMMA CredentialSteps == ASSUME StartInv, SetGroups \/ SetGid \/ SetUid \/ VerifyDrop PROVE StartInv'
<1> DEFINE u == UidOf(startHost.sudoUid)
           g == UidOf(startHost.sudoGid)
           s == IF startHost.keepsRoot THEN 0 ELSE u
<1>0. /\ DaemonInv /\ bound \subseteq {"dhcp", "tftp", "http"} /\ creds \in Credentials /\ startPc \in Late
  BY DEF StartInv, StartTypes, SetGroups, SetGid, SetUid, VerifyDrop, Credential, Late
<1>1. UNCHANGED <<startHost, bound, receivedFd, fd, helperVars, sock>>
      /\ (faultsLeft' = faultsLeft \/ (faultsLeft > 0 /\ faultsLeft' = faultsLeft - 1))
  BY DEF SetGroups, SetGid, SetUid, VerifyDrop, Credential
<1>2. /\ startHost.iface # startHost.route /\ {"dhcp", "tftp"} \subseteq bound /\ Drops /\ startHost.uid = 0
      /\ u \in Gids /\ g \in Gids /\ s \in Gids /\ u # 0 /\ 0 \in Gids
  BY <1>0, Parsing DEF DaemonInv, Late, Drops, Gids
<1>3. CASE startPc' = "failed" /\ UNCHANGED creds
  <2>1. DaemonInv'
    BY <1>3 DEF DaemonInv, Late
  <2> QED BY <1>0, <1>1, <1>3, <2>1, DaemonMoves DEF DaemonPcs, Late
<1>4. CASE startPc = "setgroups" /\ startPc' = "setgid" /\ creds' = [creds EXCEPT !.groups = {}]
  <2>1. creds.ruid = 0
    BY <1>0, <1>2, <1>4 DEF DaemonInv, Root
  <2>2. creds' \in Credentials /\ creds'.groups = {} /\ creds'.ruid = creds.ruid
    BY <1>0, <1>4 DEF Credentials
  <2>3. DaemonInv'
    BY <1>1, <1>2, <1>4, <2>1, <2>2 DEF DaemonInv, Late, Drops
  <2> QED BY <1>0, <1>1, <1>4, <2>2, <2>3, DaemonMoves DEF DaemonPcs
<1>5. CASE startPc = "setgid" /\ startPc' = "setuid" /\ creds' = [creds EXCEPT !.gid = DropTarget.gid]
  <2>1. creds.ruid = 0 /\ creds.groups = {}
    BY <1>0, <1>5 DEF DaemonInv
  <2>2. startHost.sudoUid # "none" /\ Parses(startHost.sudoUid) /\ Parses(startHost.sudoGid)
    BY <1>2 DEF Drops, Parses
  <2>3. DropTarget = [kind |-> "user", uid |-> u, gid |-> g]
    BY <1>2, <2>1, <2>2 DEF DropTarget
  <2>4. DropTarget.gid = g
    BY <2>3
  <2> HIDE DEF g
  <2>5. creds' \in Credentials /\ creds'.groups = {} /\ creds'.gid = g
    BY <1>0, <1>2, <1>5, <2>1, <2>4 DEF Credentials
  <2>6. DaemonInv'
    BY <1>1, <1>2, <1>5, <2>5 DEF DaemonInv, Late, Drops, g
  <2> QED BY <1>0, <1>1, <1>5, <2>5, <2>6, DaemonMoves DEF DaemonPcs
<1>6. CASE /\ startPc = "setuid" /\ startPc' = "verify"
           /\ creds' = [creds EXCEPT !.ruid = UidOf(startHost.sudoUid), !.euid = UidOf(startHost.sudoUid),
                                     !.saved = IF startHost.keepsRoot THEN 0 ELSE UidOf(startHost.sudoUid)]
  <2>1. creds.groups = {} /\ creds.gid = g
    BY <1>0, <1>6 DEF DaemonInv
  <2>2. creds' = [creds EXCEPT !.ruid = u, !.euid = u, !.saved = s]
    BY <1>6
  <2> HIDE DEF g, u, s
  <2>5. creds' \in Credentials /\ creds'.groups = {} /\ creds'.gid = g
    BY <1>0, <1>2, <2>1, <2>2 DEF Credentials
  <2>6. DaemonInv'
    BY <1>1, <1>2, <1>6, <2>5 DEF DaemonInv, Late, Drops, g
  <2> QED BY <1>0, <1>1, <1>6, <2>5, <2>6, DaemonMoves DEF DaemonPcs
<1>7. CASE VerifyDrop /\ startPc' = "serve"
  <2>1. startPc = "verify" /\ UNCHANGED creds /\ creds.ruid = u /\ creds.euid = creds.ruid /\ creds.saved # 0
    BY <1>7 DEF VerifyDrop
  <2>2. creds.groups = {} /\ creds.gid = g
    BY <1>0, <2>1 DEF DaemonInv
  <2>3. DaemonInv'
    BY <1>1, <1>2, <1>7, <2>1, <2>2 DEF DaemonInv, Late
  <2> QED BY <1>0, <1>1, <1>7, <2>1, <2>3, DaemonMoves DEF DaemonPcs
<1>8. VerifyDrop => UNCHANGED creds /\ startPc' \in {"serve", "failed"}
  BY DEF VerifyDrop
<1> QED BY <1>3, <1>4, <1>5, <1>6, <1>7, <1>8 DEF SetGroups, SetGid, SetUid, Credential

-----------------------------------------------------------------------------
\* The hand-off, the daemon's side.
LEMMA HandoffSteps == ASSUME StartInv, SpawnHelper \/ DropChildEnd \/ RecvFd \/ Reap PROVE StartInv'
<1>0. /\ StartTypes /\ HelperInv /\ HandoffInv /\ DaemonInv /\ startHost \in Hosts /\ faultsLeft \in Nat
      /\ sock \in [ends : SUBSET {"daemon", "helper"}, sent : Device] /\ fd = NoDev /\ receivedFd \in Device
      /\ startPc \in {"spawn", "close", "recv", "reap"} /\ hpc \in HelperPcs /\ NoDev \in Device
  <2>1. startPc \in {"spawn", "close", "recv", "reap"}
    BY DEF SpawnHelper, DropChildEnd, RecvFd, Reap
  <2>2. StartTypes /\ HelperInv /\ HandoffInv /\ DaemonInv
    BY DEF StartInv
  <2>3. fd = NoDev
    BY <2>1, <2>2 DEF HandoffInv
  <2> QED BY <2>1, <2>2, <2>3, DevicesTyped DEF StartTypes
<1>1. /\ UNCHANGED <<startHost, bound, creds, dev, hcode>> /\ startPc' \in {"close", "recv", "reap", "drop"}
      /\ (faultsLeft' = faultsLeft \/ (faultsLeft > 0 /\ faultsLeft' = faultsLeft - 1))
  BY DEF SpawnHelper, DropChildEnd, RecvFd, Reap, helperVars
<1>2. DaemonInv'
  BY <1>0, <1>1 DEF DaemonInv, Late
<1>3. hpc' \in HelperPcs /\ HelperInv' /\ (hpc' = hpc \/ (hpc' = "owner" /\ startPc = "spawn"))
  <2>1. CASE hpc' = hpc
    BY <1>0, <1>1, <2>1 DEF HelperInv, MayHave, OnLink, Injecting, Filtered
  <2>2. CASE startPc = "spawn" /\ hpc' = "owner"
    <3>1. startHost.iface # startHost.route
      BY <1>0, <2>2 DEF DaemonInv
    <3> QED BY <1>1, <2>2, <3>1 DEF HelperInv, HelperPcs
  <2>3. hpc' = hpc \/ (startPc = "spawn" /\ hpc' = "owner")
    BY DEF SpawnHelper, DropChildEnd, RecvFd, Reap, helperVars
  <2> QED BY <1>0, <2>1, <2>2, <2>3
<1>4. /\ sock' \in [ends : SUBSET {"daemon", "helper"}, sent : Device]
      /\ sock'.sent = sock.sent \/ sock'.sent = NoDev
  <2>1. CASE SpawnHelper
    BY <1>0, <2>1 DEF SpawnHelper
  <2>2. CASE DropChildEnd
    BY <1>0, <2>2 DEF DropChildEnd
  <2>3. CASE RecvFd
    BY <1>0, <2>3 DEF RecvFd
  <2>4. CASE Reap
    BY <1>0, <2>4 DEF Reap
  <2> QED BY <2>1, <2>2, <2>3, <2>4
<1>5. receivedFd' \in Device /\ (receivedFd' # NoDev => Contained(receivedFd') /\ receivedFd'.cloexec)
  <2>1. CASE receivedFd' = receivedFd
    BY <1>0, <2>1 DEF HandoffInv
  <2>2. CASE sock.sent # NoDev /\ receivedFd' = [sock.sent EXCEPT !.cloexec = TRUE]
    <3> DEFINE d == sock.sent
    <3>1. d \in Device /\ Contained(d)
      BY <1>0, <2>2 DEF HandoffInv
    <3>2. receivedFd' = [d EXCEPT !.cloexec = TRUE]
      BY <2>2
    <3> HIDE DEF d
    <3>3. /\ receivedFd' \in Device /\ receivedFd'.cloexec = TRUE /\ receivedFd'.mode = d.mode /\ receivedFd'.filter = d.filter
          /\ receivedFd'.hdr = d.hdr /\ receivedFd'.iface = d.iface
      BY <3>1, <3>2 DEF Device
    <3> QED BY <3>1, <3>3 DEF Contained
  <2> QED BY <2>1, <2>2 DEF SpawnHelper, DropChildEnd, RecvFd, Reap
<1>6. /\ fd' \in Device
      /\ fd' # NoDev => Contained(fd') /\ fd'.cloexec /\ hcode' = 0 /\ hpc' = "exited" /\ startPc' = "drop"
  <2>1. CASE fd' = fd
    BY <1>0, <2>1
  <2>2. CASE Reap
    <3>1. hpc = "exited" /\ UNCHANGED <<hpc, hcode>> /\ startPc' = "drop" /\ fd' = IF hcode = 0 THEN receivedFd ELSE NoDev
      BY <2>2 DEF Reap, helperVars
    <3>2. receivedFd # NoDev => Contained(receivedFd) /\ receivedFd.cloexec
      BY <1>0 DEF HandoffInv
    <3> QED BY <1>0, <3>1, <3>2
  <2> QED BY <2>1, <2>2 DEF SpawnHelper, DropChildEnd, RecvFd
<1>7. HandoffInv'
  <2>1. sock'.sent # NoDev => Contained(sock'.sent)
    BY <1>0, <1>4 DEF HandoffInv
  <2>2. \A d : Contained(d)' <=> Contained(d)
    BY <1>1 DEF Contained
  <2> QED BY <1>1, <1>5, <1>6, <2>1 DEF HandoffInv, Contained
<1>8. faultsLeft' \in Nat
  BY <1>0, <1>1, StartFaultTyped
<1>9. StartTypes'
  BY <1>0, <1>1, <1>3, <1>4, <1>5, <1>6, <1>8 DEF StartTypes, DaemonPcs
<1> QED BY <1>2, <1>3, <1>7, <1>9 DEF StartInv

\* The helper: a step that sends nothing, one that ends it, and the one that sends.
LEMMA HelperMoves ==
  ASSUME StartInv, UNCHANGED <<startHost, daemonVars>>, hpc \notin {"none", "exited"},
         faultsLeft' = faultsLeft \/ (faultsLeft > 0 /\ faultsLeft' = faultsLeft - 1),
         hpc' \in HelperPcs \ {"none"}, dev' \in Device, hcode' \in {-1, 0, 1, 9},
         sock' \in [ends : SUBSET {"daemon", "helper"}, sent : Device],
         sock'.sent # NoDev => sock'.sent = sock.sent \/ Contained(sock'.sent),
         hpc' \in {"route", "open", "setif", "hdr", "filter", "send", "exit"} => MayHave,
         hpc' = "setif" => dev' = Opened,
         hpc' = "hdr" => dev' = OnLink,
         hpc' = "filter" => dev' = Injecting,
         hpc' = "send" => dev' = Filtered
  PROVE  StartInv'
<1>0. StartTypes /\ HelperInv /\ HandoffInv /\ DaemonInv /\ faultsLeft \in Nat
  BY DEF StartInv, StartTypes
<1>1. UNCHANGED <<startHost, startPc, bound, creds, receivedFd, fd>> /\ faultsLeft' \in Nat
  BY <1>0, StartFaultTyped DEF daemonVars
<1>2. StartTypes'
  BY <1>0, <1>1 DEF StartTypes
<1>3. HelperInv'
  BY <1>0, <1>1 DEF HelperInv, MayHave, OnLink, Injecting, Filtered
<1>4. fd = NoDev
  BY <1>0 DEF HandoffInv
<1>5. HandoffInv'
  BY <1>0, <1>1, <1>4 DEF HandoffInv, Contained
<1>6. DaemonInv'
  BY <1>0, <1>1 DEF DaemonInv, Late, Drops
<1> QED BY <1>2, <1>3, <1>5, <1>6 DEF StartInv

LEMMA HelperEnds ==
  ASSUME StartInv, UNCHANGED <<startHost, daemonVars>>, hpc \notin {"none", "exited"},
         faultsLeft' = faultsLeft \/ (faultsLeft > 0 /\ faultsLeft' = faultsLeft - 1),
         NEW code \in {0, 1, 9}, HelperExits(code)
  PROVE  StartInv'
<1>1. sock \in [ends : SUBSET {"daemon", "helper"}, sent : Device] /\ NoDev \in Device
  BY DevicesTyped DEF StartInv, StartTypes
<1>2. hpc' = "exited" /\ hcode' = code /\ dev' = NoDev /\ sock' = [sock EXCEPT !.ends = @ \ {"helper"}]
  BY DEF HelperExits
<1>3. sock' \in [ends : SUBSET {"daemon", "helper"}, sent : Device] /\ sock'.sent = sock.sent
  BY <1>1, <1>2
<1>4. hpc' \in HelperPcs \ {"none"} /\ hcode' \in {-1, 0, 1, 9} /\ dev' \in Device
  BY <1>1, <1>2 DEF HelperPcs
<1> QED BY <1>2, <1>3, <1>4, HelperMoves

LEMMA HelperSteps == ASSUME StartInv, HelperStep PROVE StartInv'
<1>0. /\ HelperInv /\ dev \in Device /\ hcode \in {-1, 0, 1, 9} /\ startHost \in Hosts
      /\ sock \in [ends : SUBSET {"daemon", "helper"}, sent : Device]
  BY DEF StartInv, StartTypes
<1>1. CASE HelperOwner
  <2>1. CallerAllowed => MayHave
    BY DEF CallerAllowed, MayHave, OwnerKnown
  <2>2. CASE CallerAllowed
    BY <1>0, <1>1, <2>1, <2>2, HelperMoves DEF HelperOwner, HelperGoes, HelperPcs
  <2>3. CASE ~CallerAllowed
    BY <1>1, <2>3, HelperEnds DEF HelperOwner
  <2> QED BY <2>2, <2>3
<1>2. CASE HelperRoute
  <2>1. MayHave
    BY <1>0, <1>2 DEF HelperInv, HelperRoute
  <2>2. CASE ~InterfaceRefused
    BY <1>0, <1>2, <2>1, <2>2, HelperMoves DEF HelperRoute, HelperGoes, HelperPcs
  <2>3. CASE InterfaceRefused
    BY <1>2, <2>3, HelperEnds DEF HelperRoute
  <2> QED BY <2>2, <2>3
<1>3. CASE OpenBpf
  <2>1. MayHave
    BY <1>0, <1>3 DEF HelperInv, OpenBpf
  <2>2. CASE HelperExits(1) /\ UNCHANGED faultsLeft
    BY <1>3, <2>2, HelperEnds DEF OpenBpf
  <2>3. CASE hpc' = "setif" /\ dev' = [NoDev EXCEPT !.mode = "write"] /\ UNCHANGED <<hcode, sock, faultsLeft>>
    <3>1. dev' = Opened /\ dev' \in Device
      BY <1>0, <2>3, DevicesTyped DEF Opened
    <3> QED BY <1>0, <1>3, <2>1, <2>3, <3>1, HelperMoves DEF OpenBpf, HelperPcs
  <2> QED BY <1>3, <2>2, <2>3 DEF OpenBpf
<1>4. CASE SetInterface \/ SetHeaderComplete \/ SetFilter
  <2>1. MayHave /\ hpc \in {"setif", "hdr", "filter"} /\ UNCHANGED <<startHost, daemonVars>>
    BY <1>0, <1>4 DEF HelperInv, SetInterface, SetHeaderComplete, SetFilter, Ioctl
  <2>2. CASE HelperFails
    BY <2>1, <2>2, HelperEnds DEF HelperFails
  <2>3. CASE UNCHANGED <<hcode, sock, faultsLeft>> /\ hpc = "setif" /\ hpc' = "hdr" /\ dev' = [dev EXCEPT !.iface = startHost.iface]
    <3>1. dev' = OnLink /\ dev' \in Device
      BY <1>0, <2>3, DevicesTyped DEF HelperInv, OnLink
    <3> QED BY <1>0, <2>1, <2>3, <3>1, HelperMoves DEF HelperPcs
  <2>4. CASE UNCHANGED <<hcode, sock, faultsLeft>> /\ hpc = "hdr" /\ hpc' = "filter" /\ dev' = [dev EXCEPT !.hdr = TRUE]
    <3>1. dev' = Injecting /\ dev' \in Device
      BY <1>0, <2>4, DevicesTyped DEF HelperInv, Injecting
    <3> QED BY <1>0, <2>1, <2>4, <3>1, HelperMoves DEF HelperPcs
  <2>5. CASE UNCHANGED <<hcode, sock, faultsLeft>> /\ hpc = "filter" /\ hpc' = "send" /\ dev' = [dev EXCEPT !.filter = TRUE]
    <3>1. dev' = Filtered /\ dev' \in Device
      BY <1>0, <2>5, DevicesTyped DEF HelperInv, Filtered
    <3> QED BY <1>0, <2>1, <2>5, <3>1, HelperMoves DEF HelperPcs
  <2> QED BY <1>4, <2>2, <2>3, <2>4, <2>5 DEF SetInterface, SetHeaderComplete, SetFilter, Ioctl
<1>5. CASE SendFd
  <2>1. MayHave /\ dev = Filtered /\ startHost.iface # startHost.route /\ hpc = "send" /\ UNCHANGED <<startHost, daemonVars>>
    BY <1>0, <1>5 DEF HelperInv, SendFd
  <2>2. CASE HelperFails
    BY <2>1, <2>2, HelperEnds DEF HelperFails
  <2>3. CASE hpc' = "exit" /\ sock' = [sock EXCEPT !.sent = dev] /\ UNCHANGED <<dev, hcode, faultsLeft>>
    <3>1. Contained(dev)
      BY <1>0, <2>1, DevicesTyped DEF Contained, MayHave
    <3>2. sock' \in [ends : SUBSET {"daemon", "helper"}, sent : Device] /\ sock'.sent = dev
      BY <1>0, <2>3
    <3> QED BY <1>0, <2>1, <2>3, <3>1, <3>2, HelperMoves DEF HelperPcs
  <2> QED BY <1>5, <2>2, <2>3 DEF SendFd
<1>6. CASE HelperDone
  BY <1>6, HelperEnds DEF HelperDone
<1>7. CASE HelperKilled
  BY <1>7, HelperEnds DEF HelperKilled
<1> QED BY <1>1, <1>2, <1>3, <1>4, <1>5, <1>6, <1>7 DEF HelperStep

LEMMA StartInitInv == StartInit => StartInv
<1> SUFFICES ASSUME StartInit PROVE StartInv
  OBVIOUS
<1>1. /\ startHost \in Hosts /\ startPc = "check" /\ hpc = "none" /\ bound = {} /\ creds = Root(startHost) /\ dev = NoDev
      /\ sock = [ends |-> {}, sent |-> NoDev] /\ receivedFd = NoDev /\ hcode = -1 /\ fd = NoDev /\ faultsLeft = StartFaults
      /\ NoDev \in Device
  BY DevicesTyped DEF StartInit
<1>2. sock \in [ends : SUBSET {"daemon", "helper"}, sent : Device] /\ sock.sent = NoDev
  BY <1>1
<1>3. creds \in Credentials
  <2> DEFINE u == startHost.uid
  <2>1. u \in Gids /\ creds = [ruid |-> u, euid |-> u, saved |-> u, gid |-> u, groups |-> {u}]
    BY <1>1 DEF Gids, Root
  <2> HIDE DEF u
  <2> QED BY <2>1 DEF Credentials
<1>4. StartTypes
  BY <1>1, <1>2, <1>3, StartAssumption DEF StartTypes, DaemonPcs, HelperPcs
<1>5. HelperInv /\ DaemonInv
  BY <1>1 DEF HelperInv, DaemonInv, Late
<1>6. HandoffInv
  BY <1>1, <1>2 DEF HandoffInv
<1> QED BY <1>4, <1>5, <1>6 DEF StartInv

\* What each step of the daemon's start and of its helper relies on.
THEOREM StartInvariant == StartSpec => []StartInv
<1>1. ASSUME StartInv, [StartNext]_startVars PROVE StartInv'
  <2>1. CASE UNCHANGED startVars
    <3>1. UNCHANGED <<startHost, startPc, bound, creds, receivedFd, fd, hpc, dev, hcode, sock, faultsLeft>>
      BY <2>1 DEF startVars, daemonVars, helperVars
    <3>2. StartTypes' /\ DaemonInv'
      BY <1>1, <3>1 DEF StartInv, StartTypes, DaemonInv, Late, Drops
    <3>3. HelperInv' /\ HandoffInv'
      BY <1>1, <3>1 DEF StartInv, HelperInv, MayHave, OnLink, Injecting, Filtered, HandoffInv, Contained
    <3> QED BY <3>2, <3>3 DEF StartInv
  <2> QED BY <1>1, <2>1, EarlySteps, DropStart, CredentialSteps, HandoffSteps, HelperSteps DEF StartNext, StartDaemonStep
<1> QED BY <1>1, StartInitInv, PTL DEF StartSpec

\* Whatever leaves the setuid helper can only inject on the requested link, and a daemon that
\* serves has given root back for good (handoff.rs, netbootd-bpf-helper.rs, privdrop.rs).
THEOREM RawLinkAlwaysSafe == StartSpec => []RawLinkIsSafe
<1>1. StartInv => RawLinkIsSafe
  <2> SUFFICES ASSUME StartInv PROVE RawLinkIsSafe
    OBVIOUS
  <2>1. StartTypes /\ HandoffInv /\ DaemonInv
    BY DEF StartInv
  <2>2. StartTypeOK
    <3>1. creds.ruid \in Nat /\ sock.ends \subseteq {"daemon", "helper"}
      BY <2>1, StartAssumption DEF StartTypes, Credentials, Gids
    <3> QED BY <2>1, <3>1 DEF StartTypeOK, StartTypes, DaemonPcs, HelperPcs
  <2>3. HandleIsContained
    BY <2>1 DEF HandleIsContained, HandoffInv
  <2>4. ServesUnprivileged
    BY <2>1 DEF ServesUnprivileged, DaemonInv
  <2> QED BY <2>2, <2>3, <2>4 DEF RawLinkIsSafe
<1> QED BY <1>1, StartInvariant, PTL

=============================================================================
