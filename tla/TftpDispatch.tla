---------------------------- MODULE TftpDispatch ----------------------------
(***************************************************************************)
(* netbootd's TFTP dispatcher (netbootd/src/tftp.rs run): one task per     *)
(* read request, at most MAX_TRANSFERS of them, and a repeated request     *)
(* from a client port replaces the transfer to it.                         *)
(*                                                                         *)
(* abort() is a request: on the multi-threaded runtime the aborted task    *)
(* keeps its slot until a worker drops its future, and may run to its end  *)
(* first.  A task drops its permit when its future is dropped, before its  *)
(* JoinHandle says that it is finished.                                    *)
(*                                                                         *)
(* Datagrams that are too short, that come from another address than the   *)
(* leased one, and write requests (answered with an ERROR) leave all of    *)
(* this alone.  What a task does until it ends is TftpTransfer.            *)
(***************************************************************************)
EXTENDS Integers, FiniteSets

CONSTANTS
  Peers,         \* the client's TIDs: its address with one of its ports
  Tasks,         \* names for tasks; one is used again when nothing holds it
  MaxTransfers,  \* MAX_TRANSFERS
  TftpMacs, NoTftpMac,   \* what DHCP may have learned
  NoTask

ASSUME DispatchAssumption ==
  /\ Peers # {}
  /\ IsFiniteSet(Tasks)
  /\ NoTask \notin Tasks
  /\ MaxTransfers \in Nat \ {0}

VARIABLES
  free,       \* permits of the semaphore `transfers`
  inflight,   \* the dispatcher's map from TID to task
  st,         \* a task runs, has dropped its future, or is finished
  aborted,    \* the tasks that abort() was called on
  peer,       \* the TID a task serves
  mac,        \* Xfer.client_mac of a task
  clientMac   \* mac_rx

taskVars == <<free, inflight, st, aborted, peer, mac>>
dispatchVars == <<taskVars, clientMac>>

Running == {t \in Tasks : st[t] = "running"}

DispatchTypeOK ==
  /\ free \in 0..MaxTransfers
  /\ inflight \in [Peers -> Tasks \cup {NoTask}]
  /\ st \in [Tasks -> {"running", "dropped", "finished"}]
  /\ aborted \subseteq Tasks
  /\ peer \in [Tasks -> Peers]
  /\ mac \in [Tasks -> TftpMacs \cup {NoTftpMac}]
  /\ clientMac \in TftpMacs \cup {NoTftpMac}

AnyPeer == CHOOSE p \in Peers : TRUE

\* A name that was never used is like that of a task long finished.
InitTasks ==
  /\ free = MaxTransfers
  /\ inflight = [p \in Peers |-> NoTask]
  /\ st = [t \in Tasks |-> "finished"]
  /\ aborted = {}
  /\ peer = [t \in Tasks |-> AnyPeer]
  /\ mac = [t \in Tasks |-> NoTftpMac]

DispatchInit == InitTasks /\ clientMac = NoTftpMac

-----------------------------------------------------------------------------

\* inflight.retain: the entries of finished tasks are dropped.
Retained ==
  [p \in Peers |-> IF inflight[p] \in Tasks /\ st[inflight[p]] = "finished"
                   THEN NoTask ELSE inflight[p]]

\* A request when no slot is free is dropped.
Refuse(p) ==
  /\ free = 0
  /\ inflight' = Retained
  /\ UNCHANGED <<free, st, aborted, peer, mac, clientMac>>

\* Names that neither a task nor the map holds.
Unused == {t \in Tasks : st[t] = "finished" /\ \A p \in Peers : Retained[p] # t}

\* Mutant: the transfer that is replaced is not aborted.
ReplacedNot(p) == {}

\* The transfer that a request from p replaces, if there is one.
Replaced(p) == {Retained[p]} \cap Tasks

\* A request takes a slot; what it replaces is aborted, and a task spawned
\* with the MAC that DHCP has learned.
Accept(p, t) ==
  /\ free > 0
  /\ Unused # {} /\ t = CHOOSE u \in Unused : TRUE
  /\ free' = free - 1
  /\ aborted' = aborted \cup Replaced(p)
  /\ inflight' = [Retained EXCEPT ![p] = t]
  /\ st' = [st EXCEPT ![t] = "running"]
  /\ peer' = [peer EXCEPT ![t] = p]
  /\ mac' = [mac EXCEPT ![t] = clientMac]
  /\ UNCHANGED clientMac

\* Mutant: a task that returns keeps its permit.
FinishLeaks(t) ==
  /\ st[t] = "running"
  /\ st' = [st EXCEPT ![t] = "dropped"]
  /\ UNCHANGED <<free, inflight, aborted, peer, mac, clientMac>>

\* handle_rrq returns: the request was refused, or the transfer has ended.
Finish(t) ==
  /\ st[t] = "running"
  /\ st' = [st EXCEPT ![t] = "dropped"]
  /\ free' = free + 1
  /\ UNCHANGED <<inflight, aborted, peer, mac, clientMac>>

\* The runtime drops the future of an aborted task, and the permit with it.
Cancel(t) ==
  /\ t \in aborted
  /\ st[t] = "running"
  /\ st' = [st EXCEPT ![t] = "dropped"]
  /\ free' = free + 1
  /\ UNCHANGED <<inflight, aborted, peer, mac, clientMac>>

\* is_finished becomes true, and the task is forgotten.
Join(t) ==
  /\ st[t] = "dropped"
  /\ st' = [st EXCEPT ![t] = "finished"]
  /\ aborted' = aborted \ {t}
  /\ peer' = [peer EXCEPT ![t] = AnyPeer]
  /\ mac' = [mac EXCEPT ![t] = NoTftpMac]
  /\ UNCHANGED <<free, inflight, clientMac>>

Dispatch == \E p \in Peers : Refuse(p) \/ \E t \in Tasks : Accept(p, t)

Run == \E t \in Tasks : Finish(t) \/ Cancel(t) \/ Join(t)

\* DHCP publishes a client's MAC.
Learn ==
  /\ clientMac' \in TftpMacs
  /\ UNCHANGED taskVars

DispatchNext == Dispatch \/ Run \/ Learn

DispatchSpec == DispatchInit /\ [][DispatchNext]_dispatchVars

\* Every transfer ends (TftpTransfer's TransferEnds), and the runtime gets
\* round to every task.
DispatchFairSpec ==
  /\ DispatchSpec
  /\ \A t \in Tasks : WF_dispatchVars(Finish(t)) /\ WF_dispatchVars(Join(t))

-----------------------------------------------------------------------------
(***************************************************************************)
(* Properties.                                                             *)
(***************************************************************************)

\* No exit path of a task, abort included, loses a slot or returns it twice:
\* the semaphore's permits and the running tasks always add up.
SlotsConserved == free + Cardinality(Running) = MaxTransfers

\* A transfer that nobody aborted is the one the map has for its TID: there is
\* never a second one to the same TID, nor one a repeated request cannot stop.
OneTransferPerTid ==
  \A t \in Running \ aborted : inflight[peer[t]] = t

\* A transfer is only aborted for one that takes its place: a request that
\* finds no slot does not tear down the transfer it would have replaced.
AbortOnlyReplaces ==
  [][\A t \in aborted' \ aborted :
       \E u \in Running' \ Running : peer'[u] = peer[t]]_dispatchVars

\* A client that keeps asking is not shut out for ever: slots come back.
SlotComesBack == []<>(free > 0)

\* However requests, aborts and task ends interleave, no slot is lost or returned twice and no
\* TID has a transfer that a repeated request cannot stop (tftp.rs serve).
SlotsAndTidsHold ==
  /\ DispatchTypeOK
  /\ SlotsConserved
  /\ OneTransferPerTid
=============================================================================
