------------------------------ MODULE NetBoot ------------------------------
(***************************************************************************)
(* netbootd's DHCP and TFTP servers in one process (netbootd/src/main.rs): *)
(* two tasks that share the watch channel on which DHCP publishes its      *)
(* client's MAC, and TFTP reads it for the raw frames of a transfer.  The  *)
(* DHCP server is Dhcp's, whose properties hold of it here as they do by   *)
(* itself; the dispatcher is TftpDispatch's.                               *)
(*                                                                         *)
(* A client asks TFTP for a file from the leased address, so once it has   *)
(* been given that address.                                                *)
(***************************************************************************)
EXTENDS Dhcp

CONSTANTS BootPeers, BootTasks, NoBootTask, BootTransfers

VARIABLES bootFree, bootInflight, bootSt, bootAborted, bootPeer, bootMac

tftpVars == <<bootFree, bootInflight, bootSt, bootAborted, bootPeer, bootMac>>
bootVars == <<dhcpVars, tftpVars>>

T == INSTANCE TftpDispatch WITH
       TftpMacs <- Macs, NoTftpMac <- NoMac, clientMac <- published,
       Peers <- BootPeers, Tasks <- BootTasks, NoTask <- NoBootTask, MaxTransfers <- BootTransfers,
       free <- bootFree, inflight <- bootInflight, st <- bootSt, aborted <- bootAborted,
       peer <- bootPeer, mac <- bootMac

BootInit == DhcpInit /\ T!InitTasks

\* The DHCP task runs up to its next await.
DhcpStep ==
  /\ (\E r \in Request : Receive(r)) \/ Pin \/ Reply
  /\ UNCHANGED tftpVars

\* The client has been acknowledged, and asks for a file.
Fetch ==
  /\ \E m \in Macs : <<m, "ack">> \in replies
  /\ T!Dispatch
  /\ UNCHANGED dhcpVars

TransferStep == T!Run /\ UNCHANGED dhcpVars

\* The process is stopped, its transfers with it, and started again.
BootRestart ==
  /\ Restart
  /\ bootFree' = BootTransfers
  /\ bootInflight' = [p \in BootPeers |-> NoBootTask]
  /\ bootSt' = [t \in BootTasks |-> "finished"]
  /\ bootAborted' = {}
  /\ bootPeer' = [t \in BootTasks |-> T!AnyPeer]
  /\ bootMac' = [t \in BootTasks |-> NoMac]

BootNext == DhcpStep \/ Fetch \/ TransferStep \/ BootRestart

BootSpec == BootInit /\ [][BootNext]_bootVars

-----------------------------------------------------------------------------
\* A transfer's frames are addressed to the device that DHCP gave the address
\* to, in this session: whoever fetches has a published MAC, the MAC is of the
\* locked client, and a transfer does not outlive the lock it was started
\* under (Xfer.client_mac, a snapshot taken when the request arrives).
FramesReachClient ==
  \A t \in T!Running : bootMac[t] # NoMac /\ bootMac[t] = active

\* One device is served in a session, it can be reached at what it was given, and the frames of
\* its transfers carry its address and not a later client's (dhcp.rs serve, tftp.rs Xfer).
LeaseIsUsable ==
  /\ DhcpTypeOK
  /\ OneClient
  /\ ReachableWhenLeased
  /\ LockedIsAnswered
  /\ FramesReachClient
=============================================================================
