---------------------------- MODULE TftpTransfer ----------------------------
(***************************************************************************)
(* One read transfer of netbootd's TFTP server (netbootd/src/tftp.rs:      *)
(* handle_rrq from the OACK on, send_and_wait_ack) against a client and a  *)
(* network that loses, duplicates and reorders datagrams.                  *)
(*                                                                         *)
(* Block numbers on the wire are a u16 that wraps; `idx` is the number of  *)
(* the block that the server really sends, 0 being the OACK.  A datagram   *)
(* carries its true index only to say what its payload is: neither side    *)
(* looks at it.  The client and the network are not part of the repository *)
(* and are modelled from what the server expects of them.                  *)
(***************************************************************************)
EXTENDS Integers, Sequences

CONSTANTS
  Blocks,      \* blocks of the file: the last one is shorter than blksize
  BlockMod,    \* 2^16: block numbers wrap here
  MaxRetries,  \* MAX_RETRIES
  Options,     \* the request has an option the server honours
  Lifetime     \* by how many blocks a datagram may be overtaken

ASSUME TransferAssumption ==
  /\ Blocks \in Nat \ {0}
  /\ BlockMod \in Nat
  /\ MaxRetries \in Nat \ {0}
  /\ Options \in BOOLEAN
  /\ Lifetime \in Nat
  /\ Lifetime + 2 <= BlockMod

VARIABLES
  spc,       \* where the server is: sending, waiting for an ACK, or finished
  idx,       \* the block it sends
  tries,     \* sends of it so far
  toClient,  \* datagrams on their way to the client
  toServer,  \* datagrams on their way to the server
  cpc,       \* where the client is
  got        \* the true indices of the blocks it accepted

vars == <<spc, idx, tries, toClient, toServer, cpc, got>>

First == IF Options THEN 0 ELSE 1

Datagram == [kind : {"data", "ack", "error", "junk"}, blk : Nat, i : Nat]

TypeOK ==
  /\ spc \in {"send", "wait", "done", "failed"}
  /\ idx \in First..Blocks
  /\ tries \in 0..MaxRetries
  /\ toClient \subseteq Datagram
  /\ toServer \subseteq Datagram
  /\ cpc \in {"asked", "reading", "done", "gone"}
  /\ got \in Seq(Nat)

Init ==
  /\ spc = "send"
  /\ idx = First
  /\ tries = 0
  /\ toClient = {}
  /\ toServer = {}
  /\ cpc = IF Options THEN "asked" ELSE "reading"
  /\ got = <<>>

Packet(kind, i) == [kind |-> kind, blk |-> i % BlockMod, i |-> i]

-----------------------------------------------------------------------------
(***************************************************************************)
(* The server.                                                             *)
(***************************************************************************)

\* The OACK, or the block read at its offset; a retransmission has the same
\* bytes.
Block == Packet("data", idx)

\* send_and_wait_ack sends it.
Send ==
  /\ spc = "send"
  /\ toClient' = toClient \cup {Block}
  /\ tries' = tries + 1
  /\ spc' = "wait"
  /\ UNCHANGED <<idx, toServer, cpc, got>>

\* The attempt's deadline passes: send again, or give up after MAX_RETRIES.
Timeout ==
  /\ spc = "wait"
  /\ spc' = IF tries < MaxRetries THEN "send" ELSE "failed"
  /\ UNCHANGED <<idx, tries, toClient, toServer, cpc, got>>

\* Datagrams that a block further on can no longer meet.
Fresh(S, n) == {p \in S : p.i + Lifetime >= n}

\* Mutant: the ACK of an earlier block is taken for this one's.
AcceptsEarlier(p) == p.kind = "ack" /\ p.blk <= idx % BlockMod

\* The ACK of the block in flight, as told by its number alone.
Accepts(p) == p.kind = "ack" /\ p.blk = idx % BlockMod

\* Mutant: the last full block ends the transfer, and an empty one that
\* should follow it is never sent.
EndsFull(i) == i + 1 >= Blocks

\* The last block is the one shorter than blksize, and may be empty.
Ends(i) == i = Blocks

\* handle_rrq's loop: block and offset advance; an acknowledged last block
\* ends the transfer.
Acked(p) ==
  /\ spc = "wait"
  /\ p \in toServer
  /\ Accepts(p)
  /\ IF Ends(idx)
     THEN spc' = "done" /\ UNCHANGED <<idx, tries, toClient, toServer>>
     ELSE /\ spc' = "send"
          /\ idx' = idx + 1
          /\ tries' = 0
          /\ toClient' = Fresh(toClient, idx + 1)
          /\ toServer' = Fresh(toServer, idx + 1)
  /\ UNCHANGED <<cpc, got>>

\* An ERROR from the client ends the transfer ...
PeerError(p) ==
  /\ spc = "wait"
  /\ p \in toServer
  /\ p.kind = "error"
  /\ spc' = "failed"
  /\ UNCHANGED <<idx, tries, toClient, toServer, cpc, got>>

\* ... as does a read of the file, a send or a receive that fails.
SocketError ==
  /\ spc \in {"send", "wait"}
  /\ spc' = "failed"
  /\ UNCHANGED <<idx, tries, toClient, toServer, cpc, got>>

\* Any other datagram is read and skipped, without touching the deadline.
Skip(p) ==
  /\ spc = "wait"
  /\ p \in toServer
  /\ ~Accepts(p)
  /\ p.kind # "error"
  /\ toServer' = toServer \ {p}
  /\ UNCHANGED <<spc, idx, tries, toClient, cpc, got>>

Server ==
  \/ Send
  \/ Timeout
  \/ SocketError
  \/ \E p \in toServer : Acked(p) \/ PeerError(p) \/ Skip(p)

-----------------------------------------------------------------------------
(***************************************************************************)
(* The client and the network (external).  A delivered datagram may stay   *)
(* on the network, and be delivered again.                                 *)
(***************************************************************************)

\* The client accepts the OACK, and acknowledges it as block 0.
TakeOack(p) ==
  /\ cpc = "asked"
  /\ p.i = 0
  /\ cpc' = "reading"
  /\ toServer' = toServer \cup {Packet("ack", 0)}
  /\ UNCHANGED <<spc, idx, tries, toClient, got>>

\* The client accepts the block after its last, as told by its number.
TakeBlock(p) ==
  /\ cpc = "reading"
  /\ p.i # 0
  /\ p.blk = (Len(got) + 1) % BlockMod
  /\ got' = Append(got, p.i)
  /\ cpc' = IF p.i = Blocks THEN "done" ELSE "reading"
  /\ toServer' = toServer \cup {Packet("ack", Len(got) + 1)}
  /\ UNCHANGED <<spc, idx, tries, toClient>>

\* The client acknowledges its last block, or the OACK, once more.
Again(p) ==
  /\ cpc \in {"reading", "done"}
  /\ p.blk = Len(got) % BlockMod
  /\ Len(got) = 0 => Options
  /\ toServer' = toServer \cup {Packet("ack", Len(got))}
  /\ UNCHANGED <<spc, idx, tries, toClient, cpc, got>>

\* The client gives up: it may say so, and listens no more.
Leave ==
  /\ cpc # "gone"
  /\ cpc' = "gone"
  /\ toServer' = toServer \cup {p \in {Packet("error", idx)} : cpc # "done"}
  /\ UNCHANGED <<spc, idx, tries, toClient, got>>

\* A datagram from elsewhere, or a short one, reaches the reply socket.
Junk ==
  /\ spc = "wait"
  /\ toServer' = toServer \cup {Packet("junk", idx)}
  /\ UNCHANGED <<spc, idx, tries, toClient, cpc, got>>

Lose ==
  /\ \/ \E p \in toClient : toClient' = toClient \ {p} /\ UNCHANGED toServer
     \/ \E p \in toServer : toServer' = toServer \ {p} /\ UNCHANGED toClient
  /\ UNCHANGED <<spc, idx, tries, cpc, got>>

Environment ==
  \/ \E p \in toClient : TakeOack(p) \/ TakeBlock(p) \/ Again(p)
  \/ Leave
  \/ Junk
  \/ Lose

Ended ==
  /\ spc \in {"done", "failed"}
  /\ UNCHANGED vars

Next == Server \/ Environment \/ Ended

Spec == Init /\ [][Next]_vars

\* The server's task runs, and its deadlines pass; nothing is asked of the
\* client or the network.
FairSpec == Spec /\ WF_vars(Send) /\ WF_vars(Timeout)

-----------------------------------------------------------------------------
(***************************************************************************)
(* Properties.                                                             *)
(***************************************************************************)

\* The client's file is the served one as far as it goes: it took the blocks
\* in order, none twice and none skipped, although numbers wrap and datagrams
\* are repeated (the DATA/ACK loop of handle_rrq).
InOrder == \A k \in 1..Len(got) : got[k] = k

\* The server is never more than one block from the client: what it goes on
\* from has been received (send_and_wait_ack before offset advances).
LockStep == Len(got) <= idx /\ idx <= Len(got) + 1

\* "completed" is only logged for a transfer whose every block arrived.
DoneMeansDelivered == spc = "done" => Len(got) = Blocks

\* Any transfer ends: no client can hold it, or the slot that goes with it,
\* longer than MAX_RETRIES attempts for each block.
TransferEnds == spc = "wait" ~> spc \in {"done", "failed"}

\* The transfer implements FileDelivery.
Delivery == INSTANCE FileDelivery
  WITH delivered <- Len(got),
       outcome <- IF spc \in {"send", "wait"} THEN "running" ELSE spc

DeliverySpec == Delivery!Spec

\* Through lost, repeated and late datagrams and block numbers that wrap, the client has a prefix
\* of the file, the server is one block from it, and "completed" means all of it (handle_rrq).
TransferIsFaithful ==
  /\ TypeOK
  /\ InOrder
  /\ LockStep
  /\ DoneMeansDelivered
=============================================================================
