-------------------------------- MODULE Dhcp --------------------------------
(***************************************************************************)
(* netbootd's DHCP server (netbootd/src/dhcp.rs): one address, one client. *)
(*                                                                         *)
(* The first request that the server decides to answer locks its sender in *)
(* as the session's client.  The server's loop handles one request at a    *)
(* time, but awaits twice while it does: for the ARP pin (netcfg.rs        *)
(* set_arp, a child process that may fail) and for the send, so TFTP       *)
(* requests are served in between.  A packet that parse_request refuses is *)
(* as if it had never arrived.                                             *)
(***************************************************************************)
CONSTANTS
  Macs,       \* hardware addresses of the devices on the link
  NoMac,      \* None
  HttpBound,  \* http_endpoint is Some(port)
  SendMayFail \* send_to may return an error

ASSUME DhcpAssumption ==
  /\ NoMac \notin Macs
  /\ HttpBound \in BOOLEAN
  /\ SendMayFail \in BOOLEAN

VARIABLES
  dpc,        \* where the loop is: recv, nak, pin (set_arp) or send
  req,        \* the sender of the request it handles
  reply,      \* and the message type it answers with
  active,     \* active_mac
  published,  \* the value of the watch channel mac_tx / mac_rx
  arp,        \* the host's permanent ARP entry for the leased address
  replies,    \* what this process has sent: a set of <<mac, type>>
  unsent,     \* history: a send of this process failed
  unpinned    \* history: a pin of this process failed

dhcpVars == <<dpc, req, reply, active, published, arp, replies, unsent, unpinned>>

\* What parse_request and choose_boot see of a request; "us" and "lease" are
\* the server's address and the leased one, "none" an absent option or a zero
\* ciaddr.
Request ==
  [mac : Macs,
   type : {"discover", "request", "other"},
   server : {"none", "us", "other"},
   wants : {"none", "lease", "other"},
   ciaddr : {"none", "lease", "other"},
   class : {"http", "pxe", "none"}]

Answers == {"offer", "ack", "nak"}

DhcpTypeOK ==
  /\ dpc \in {"recv", "nak", "pin", "send"}
  /\ req \in Macs \cup {NoMac}
  /\ reply \in Answers \cup {"none"}
  /\ active \in Macs \cup {NoMac}
  /\ published \in Macs \cup {NoMac}
  /\ arp \in Macs \cup {NoMac}
  /\ replies \subseteq Macs \X Answers
  /\ unsent \in BOOLEAN
  /\ unpinned \in BOOLEAN

\* An ARP entry may be left over from an earlier session.
DhcpInit ==
  /\ dpc = "recv"
  /\ req = NoMac
  /\ reply = "none"
  /\ active = NoMac
  /\ published = NoMac
  /\ arp \in Macs \cup {NoMac}
  /\ replies = {}
  /\ unsent = FALSE
  /\ unpinned = FALSE

-----------------------------------------------------------------------------
\* Another server's request, an address that is not leased here, or ours.
RequestVerdict(r) ==
  IF r.server = "other" THEN "ignore"
  ELSE IF r.wants = "other" \/ r.ciaddr = "other" THEN "nak"
  ELSE "ack"

\* The answer that the message type calls for, before any lock is looked at.
MessageType(r) ==
  CASE r.type = "discover" -> "offer"
    [] r.type = "request" -> RequestVerdict(r)
    [] OTHER -> "ignore"

\* Mutant: whoever asks is accepted, and the last one is the client.
AcceptAnyone(r) == TRUE

\* accept_client: the first to be answered, and after that the same one.
AcceptClient(r) == active \in {NoMac, r.mac}

\* An HTTP Boot client gets no answer where there is no HTTP listener.
Ignored(r) == r.class = "http" /\ ~HttpBound

\* Mutant: only an OFFER publishes, so a client that starts with a REQUEST
\* for the address it had is never known to TFTP.
PublishedOnOffer(r, type) == IF type = "offer" /\ ~Ignored(r) THEN r.mac ELSE published

\* The MAC that goes to the TFTP task, in the same step as the decision to
\* offer or acknowledge: there is no await before it.
PublishedMac(r, type) == IF type = "nak" \/ Ignored(r) THEN published ELSE r.mac

\* disposition: only a message type that is answered takes the lock.
LockAfterType(r, type) ==
  IF type \in Answers /\ AcceptClient(r) THEN r.mac ELSE active

\* serve: a request is received and disposed of, up to the first await.
Receive(r) ==
  /\ dpc = "recv"
  /\ LET type == MessageType(r)
         served == type \in Answers /\ AcceptClient(r)
         goesOn == served /\ (type = "nak" \/ ~Ignored(r))
     IN /\ active' = LockAfterType(r, type)
        /\ published' = IF served THEN PublishedMac(r, type) ELSE published
        /\ dpc' = IF goesOn THEN (IF type = "nak" THEN "nak" ELSE "pin") ELSE "recv"
        /\ req' = IF goesOn THEN r.mac ELSE NoMac
        /\ reply' = IF goesOn THEN type ELSE "none"
  /\ UNCHANGED <<arp, replies, unsent, unpinned>>

\* set_arp returns; a failure is only logged.
Pin ==
  /\ dpc = "pin"
  /\ dpc' = "send"
  /\ \/ arp' = req /\ UNCHANGED unpinned
     \/ unpinned' = TRUE /\ UNCHANGED arp
  /\ UNCHANGED <<req, reply, active, published, replies, unsent>>

\* The OFFER, ACK or NAK is broadcast; a failed send is only logged.
Reply ==
  /\ dpc \in {"nak", "send"}
  /\ dpc' = "recv"
  /\ req' = NoMac
  /\ reply' = "none"
  /\ \/ replies' = replies \cup {<<req, reply>>} /\ UNCHANGED unsent
     \/ SendMayFail /\ unsent' = TRUE /\ UNCHANGED replies
  /\ UNCHANGED <<active, published, arp, unpinned>>

\* netbootd is stopped and started for another boot session: its memory is
\* gone, and the host's ARP entry is not.
Restart ==
  /\ dpc' = "recv"
  /\ req' = NoMac
  /\ reply' = "none"
  /\ active' = NoMac
  /\ published' = NoMac
  /\ replies' = {}
  /\ unsent' = FALSE
  /\ unpinned' = FALSE
  /\ UNCHANGED arp

DhcpNext ==
  \/ \E r \in Request : Receive(r)
  \/ Pin
  \/ Reply
  \/ Restart

DhcpSpec == DhcpInit /\ [][DhcpNext]_dhcpVars

-----------------------------------------------------------------------------
(***************************************************************************)
(* Properties.                                                             *)
(***************************************************************************)

\* Whatever a session hands out, answers, the address for TFTP's raw frames
\* and what it is about to send, goes to one device, the locked one; a second
\* device never gets the lease, a NAK or the handoff (accept_client).
OneClient ==
  /\ \A x \in replies : x[1] = active
  /\ published \in {NoMac, active}
  /\ dpc # "recv" => req = active

\* A device that was offered or given the address can be reached at it: its
\* MAC is published, and pinned unless the pin failed (serve sets both before
\* it sends).
ReachableWhenLeased ==
  \A x \in replies : x[2] \in {"offer", "ack"} =>
    /\ published = x[1]
    /\ arp = x[1] \/ unpinned

\* Only a request that is answered takes the single-client lock: when the
\* server is back in its loop, the client it is locked to has had an answer.
LockedIsAnswered ==
  active # NoMac /\ dpc = "recv" => unsent \/ \E x \in replies : x[1] = active

\* The lock is never moved to another device within a session: only a restart
\* clears it.
LockIsKept == [][active' \in {active, NoMac} \/ active = NoMac]_dhcpVars
=============================================================================
