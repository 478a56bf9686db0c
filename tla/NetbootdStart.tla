---------------------------- MODULE NetbootdStart ----------------------------
(***************************************************************************)
(* How netbootd comes up (src/netbootd/src/main.rs, pin.rs, privdrop.rs)   *)
(* and, on macOS, gets its raw-frame descriptor from the setuid helper     *)
(* (handoff.rs, bin/netbootd-bpf-helper.rs): the daemon's steps and the    *)
(* helper's interleave, every call may fail, and the helper may be killed. *)
(* The host (platform, users, default route, how the helper is installed)  *)
(* is chosen once; uids are numbers, 0 is root, and an unparsable          *)
(* environment value is "bad".                                             *)
(***************************************************************************)
EXTENDS Integers, Sequences, FiniteSets, SequencesExt, FiniteSetsExt

CONSTANTS
    Hosts,          \* the hosts netbootd may be started on
    StartFaults,    \* how many calls may fail
    Datagrams,      \* [srcIp, dstIp, srcPort, dstPort, len, bytes]
    Writes          \* what write(2) may return: "all", "short" or "failed"

ASSUME StartAssumption ==
    /\ StartFaults \in Nat
    /\ \A h \in Hosts : h.os \in {"macos", "linux"} /\ h.uid \in Nat /\ h.owner \in Nat

VARIABLES
    startHost,      \* the host
    startPc, hpc,   \* where the daemon and the helper are
    bound,          \* listeners bound and pinned
    creds,          \* the daemon's [ruid, euid, saved, gid, groups]
    dev,            \* the descriptor the helper is preparing
    sock,           \* the socketpair: who holds the helper's end, what was sent
    receivedFd,     \* what recv_fd returned
    hcode,          \* the helper's exit status
    fd,             \* the descriptor the daemon sends frames with
    faultsLeft

daemonVars == <<startPc, bound, creds, receivedFd, fd>>
helperVars == <<hpc, dev, hcode>>
startVars == <<startHost, daemonVars, helperVars, sock, faultsLeft>>

NoDev == [mode |-> "none", iface |-> "none", hdr |-> FALSE, filter |-> FALSE, cloexec |-> FALSE]
Root(h) == [ruid |-> h.uid, euid |-> h.uid, saved |-> h.uid, gid |-> h.uid,
            groups |-> {h.uid}]

StartInit ==
    /\ startHost \in Hosts
    /\ startPc = "check" /\ hpc = "none"
    /\ bound = {} /\ creds = Root(startHost)
    /\ dev = NoDev /\ sock = [ends |-> {}, sent |-> NoDev] /\ receivedFd = NoDev
    /\ hcode = -1 /\ fd = NoDev /\ faultsLeft = StartFaults

(* A call that fails leads to `bad`, otherwise the step goes to `good`. *)
Goes(good, bad) ==
    \/ startPc' = good /\ UNCHANGED faultsLeft
    \/ faultsLeft > 0 /\ startPc' = bad /\ faultsLeft' = faultsLeft - 1

----------------------------------------------------------------------------
(* The daemon, up to its listeners. *)

IsPrimary == startHost.iface = startHost.route
CheckStart ==
    /\ startPc = "check"
    /\ startPc' = IF IsPrimary THEN "failed" ELSE "lock"
    /\ UNCHANGED <<startHost, bound, creds, receivedFd, fd, helperVars, sock, faultsLeft>>

(* macOS: the interface's lock file, held for the daemon's life. *)
AcquireInterface ==
    /\ startPc = "lock"
    /\ IF startHost.os = "macos" THEN Goes("dhcp", "failed")
       ELSE startPc' = "dhcp" /\ UNCHANGED faultsLeft
    /\ UNCHANGED <<startHost, bound, creds, receivedFd, fd, helperVars, sock>>

(* A low port and, on Linux, the pin are root's; HTTP is the one that may  *)
(* be done without.                                                        *)
MayBind == startHost.os = "macos" \/ creds.euid = 0
BindListener(l, next, failed) ==
    /\ startPc = l
    /\ \/ /\ MayBind /\ startPc' = next /\ bound' = bound \union {l} /\ UNCHANGED faultsLeft
       \/ /\ ~MayBind /\ startPc' = failed /\ UNCHANGED <<bound, faultsLeft>>
       \/ /\ MayBind /\ faultsLeft > 0 /\ startPc' = failed /\ faultsLeft' = faultsLeft - 1
          /\ UNCHANGED bound
    /\ UNCHANGED <<startHost, creds, receivedFd, fd, helperVars, sock>>
BindDhcp == BindListener("dhcp", "tftp", "failed")
BindTftp == BindListener("tftp", "http", "failed")
BindHttp == BindListener("http", "bpf", "bpf")

----------------------------------------------------------------------------
(* The hand-off, the daemon's side. *)

(* Nothing to ask for off macOS, or without a MAC address. *)
BuildBpfSender ==
    /\ startPc = "bpf"
    /\ IF startHost.os # "macos" \/ ~startHost.mac THEN startPc' = "drop" /\ UNCHANGED faultsLeft
       ELSE Goes("spawn", "drop")
    /\ UNCHANGED <<startHost, bound, creds, receivedFd, fd, helperVars, sock>>

SpawnHelper ==
    /\ startPc = "spawn"
    /\ \/ /\ startPc' = "close" /\ hpc' = "owner"
          /\ sock' = [sock EXCEPT !.ends = {"daemon", "helper"}]
          /\ UNCHANGED faultsLeft
       \/ /\ faultsLeft > 0 /\ faultsLeft' = faultsLeft - 1
          /\ startPc' = "drop" /\ UNCHANGED <<hpc, sock>>
    /\ UNCHANGED <<startHost, bound, creds, receivedFd, fd, dev, hcode>>

DropChildEnd ==
    /\ startPc = "close" /\ startPc' = "recv"
    /\ sock' = [sock EXCEPT !.ends = @ \ {"daemon"}]
    /\ UNCHANGED <<startHost, bound, creds, receivedFd, fd, helperVars, faultsLeft>>

(* It returns once something was sent or nobody is left to send. *)
RecvFd ==
    /\ startPc = "recv"
    /\ \/ /\ sock.sent # NoDev
          /\ receivedFd' = [sock.sent EXCEPT !.cloexec = TRUE]
       \/ /\ sock.sent = NoDev /\ sock.ends = {} /\ UNCHANGED receivedFd
    /\ sock' = [sock EXCEPT !.sent = NoDev]
    /\ startPc' = "reap"
    /\ UNCHANGED <<startHost, bound, creds, fd, helperVars, faultsLeft>>

(* A helper that did not exit well is not believed, whatever it sent. *)
ReapAny ==
    /\ startPc = "reap" /\ hpc = "exited"
    /\ fd' = receivedFd
    /\ startPc' = "drop"
    /\ UNCHANGED <<startHost, bound, creds, receivedFd, helperVars, sock, faultsLeft>>
Reap ==
    /\ startPc = "reap" /\ hpc = "exited"
    /\ fd' = IF hcode = 0 THEN receivedFd ELSE NoDev
    /\ startPc' = "drop"
    /\ UNCHANGED <<startHost, bound, creds, receivedFd, helperVars, sock, faultsLeft>>

----------------------------------------------------------------------------
(* The helper. *)

HelperExits(code) ==
    /\ hpc' = "exited" /\ hcode' = code /\ dev' = NoDev
    /\ sock' = [sock EXCEPT !.ends = @ \ {"helper"}]
HelperGoes(to) == hpc' = to /\ UNCHANGED <<dev, hcode, sock>>
HelperFails == faultsLeft > 0 /\ faultsLeft' = faultsLeft - 1 /\ HelperExits(1)

(* Gate 1: the real uid against the owner of the helper's directory, once  *)
(* the file it runs from is known to be the one `paniolo setup` installed. *)
EffectiveUid == IF startHost.setuid THEN 0 ELSE startHost.uid
OwnerKnown == startHost.links = 1 /\ (EffectiveUid = 0 => startHost.setuid)
CallerAllowed == startHost.uid = 0 \/ (OwnerKnown /\ startHost.uid = startHost.owner)
HelperOwner ==
    /\ hpc = "owner"
    /\ IF CallerAllowed THEN HelperGoes("route") ELSE HelperExits(1)
    /\ UNCHANGED <<startHost, daemonVars, faultsLeft>>

(* Gate 2: never the interface of the default route; no route, no refusal. *)
InterfaceRefused == startHost.route # "none" /\ startHost.iface = startHost.route
HelperRoute ==
    /\ hpc = "route"
    /\ IF InterfaceRefused THEN HelperExits(1) ELSE HelperGoes("open")
    /\ UNCHANGED <<startHost, daemonVars, faultsLeft>>

(* open_bpf: a busy device is passed over, anything else ends it; then the *)
(* interface, the header flag and the filter, each a call that may fail.   *)
OpenBpf ==
    /\ hpc = "open"
    /\ \/ /\ startHost.validName /\ EffectiveUid = 0 /\ startHost.freeDevice
          /\ hpc' = "setif" /\ dev' = [NoDev EXCEPT !.mode = "write"]
          /\ UNCHANGED <<hcode, sock, faultsLeft>>
       \/ /\ ~(startHost.validName /\ EffectiveUid = 0 /\ startHost.freeDevice)
          /\ HelperExits(1) /\ UNCHANGED faultsLeft
    /\ UNCHANGED <<startHost, daemonVars>>
Ioctl(at, next, d) ==
    /\ hpc = at
    /\ \/ /\ hpc' = next /\ dev' = d /\ UNCHANGED <<hcode, sock, faultsLeft>>
       \/ HelperFails
    /\ UNCHANGED <<startHost, daemonVars>>
SetInterface == Ioctl("setif", "hdr", [dev EXCEPT !.iface = startHost.iface])
SetHeaderComplete == Ioctl("hdr", "filter", [dev EXCEPT !.hdr = TRUE])
SetFilter == Ioctl("filter", "send", [dev EXCEPT !.filter = TRUE])

SendFd ==
    /\ hpc = "send"
    /\ \/ /\ hpc' = "exit" /\ sock' = [sock EXCEPT !.sent = dev]
          /\ UNCHANGED <<dev, hcode, faultsLeft>>
       \/ HelperFails
    /\ UNCHANGED <<startHost, daemonVars>>
HelperDone == hpc = "exit" /\ HelperExits(0) /\ UNCHANGED <<startHost, daemonVars, faultsLeft>>
HelperKilled ==
    /\ hpc \notin {"none", "exited"} /\ faultsLeft > 0
    /\ faultsLeft' = faultsLeft - 1
    /\ HelperExits(9) /\ UNCHANGED <<startHost, daemonVars>>

----------------------------------------------------------------------------
(* Giving root back: groups, then the gid, then the uid, then a second     *)
(* look at what was really given up.                                       *)

(* drop_target: who to drop to, or nobody, or an environment not to guess  *)
(* from.                                                                   *)
Nobody == [kind |-> "nobody", uid |-> 0, gid |-> 0]
Refused == [kind |-> "refused", uid |-> 0, gid |-> 0]
Parses(v) == v \notin {"none", "bad"}
UidOf(v) == CASE v = "0" -> 0 [] v = "501" -> 501 [] OTHER -> 502
DropTarget ==
    LET u == startHost.sudoUid g == startHost.sudoGid
    IN IF creds.ruid # 0 \/ (u = "none" /\ g = "none") THEN Nobody
       ELSE IF ~Parses(u) \/ ~Parses(g) THEN Refused
       ELSE IF UidOf(u) = 0 THEN Nobody
       ELSE [kind |-> "user", uid |-> UidOf(u), gid |-> UidOf(g)]

DropPrivileges ==
    /\ startPc = "drop"
    /\ startPc' = IF startHost.os # "linux" \/ DropTarget = Nobody THEN "serve"
              ELSE IF DropTarget = Refused THEN "failed" ELSE "setgroups"
    /\ UNCHANGED <<startHost, bound, creds, receivedFd, fd, helperVars, sock, faultsLeft>>

(* Each of the three calls is root's. *)
Credential(at, next, c) ==
    /\ startPc = at
    /\ \/ creds.euid = 0 /\ creds' = c /\ startPc' = next /\ UNCHANGED faultsLeft
       \/ creds.euid # 0 /\ startPc' = "failed" /\ UNCHANGED <<creds, faultsLeft>>
       \/ /\ faultsLeft > 0 /\ faultsLeft' = faultsLeft - 1
          /\ startPc' = "failed" /\ UNCHANGED creds
    /\ UNCHANGED <<startHost, bound, receivedFd, fd, helperVars, sock>>
SetGroups == Credential("setgroups", "setgid", [creds EXCEPT !.groups = {}])
SetGid == Credential("setgid", "setuid", [creds EXCEPT !.gid = DropTarget.gid])
SetUid ==
    Credential("setuid", "verify",
               [creds EXCEPT !.ruid = UidOf(startHost.sudoUid), !.euid = UidOf(startHost.sudoUid),
                             !.saved = IF startHost.keepsRoot THEN 0 ELSE UidOf(startHost.sudoUid)])
VerifyDrop ==
    /\ startPc = "verify"
    /\ startPc' = IF creds.ruid = UidOf(startHost.sudoUid) /\ creds.euid = creds.ruid /\ creds.saved # 0
              THEN "serve" ELSE "failed"
    /\ UNCHANGED <<startHost, bound, creds, receivedFd, fd, helperVars, sock, faultsLeft>>

StartDaemonStep ==
    \/ CheckStart \/ AcquireInterface \/ BindDhcp \/ BindTftp \/ BindHttp
    \/ BuildBpfSender \/ SpawnHelper \/ DropChildEnd \/ RecvFd \/ Reap
    \/ DropPrivileges \/ SetGroups \/ SetGid \/ SetUid \/ VerifyDrop
HelperStep ==
    \/ HelperOwner \/ HelperRoute \/ OpenBpf \/ SetInterface \/ SetHeaderComplete
    \/ SetFilter \/ SendFd \/ HelperDone \/ HelperKilled
StartNext == StartDaemonStep \/ HelperStep
StartSpec == StartInit /\ [][StartNext]_startVars

----------------------------------------------------------------------------
(* Type of the variables. *)
StartTypeOK ==
    /\ startPc \in {"check", "lock", "dhcp", "tftp", "http", "bpf", "spawn", "close", "recv",
                "reap", "drop", "setgroups", "setgid", "setuid", "verify", "serve", "failed"}
    /\ hpc \in {"none", "owner", "route", "open", "setif", "hdr", "filter", "send", "exit",
                "exited"}
    /\ bound \subseteq {"dhcp", "tftp", "http"} /\ sock.ends \subseteq {"daemon", "helper"}
    /\ creds.ruid \in Nat /\ hcode \in {-1, 0, 1, 9}

(* Whatever leaves the setuid helper can inject on the requested link and  *)
(* do nothing else: write-only, capturing nothing, never the interface of  *)
(* the default route, only for the user who installed the helper; and what *)
(* the daemon keeps also stays out of its children and comes from a helper *)
(* that ended well (handoff.rs, netbootd-bpf-helper.rs).                   *)
Contained(d) ==
    /\ d.mode = "write" /\ d.filter /\ d.hdr
    /\ d.iface = startHost.iface /\ d.iface # startHost.route
    /\ startHost.uid = 0 \/ (startHost.uid = startHost.owner /\ startHost.links = 1)
HandleIsContained ==
    /\ sock.sent # NoDev => Contained(sock.sent)
    /\ fd # NoDev => Contained(fd) /\ fd.cloexec /\ hcode = 0

(* A netbootd that serves packets on Linux after `sudo` is the invoking    *)
(* user for good, in no other group, with both boot listeners bound before *)
(* that (main.rs 158-213, privdrop.rs).                                    *)
ServesUnprivileged ==
    startPc = "serve" =>
        /\ {"dhcp", "tftp"} \subseteq bound
        /\ (startHost.os = "linux" /\ startHost.sudoUid # "none" /\ startHost.sudoUid # "0") =>
            /\ creds.ruid = UidOf(startHost.sudoUid) /\ creds.euid = creds.ruid
            /\ creds.saved # 0 /\ creds.groups = {} /\ creds.gid = UidOf(startHost.sudoGid)

(* Whatever leaves the setuid helper can only inject on the requested      *)
(* link, and a daemon that serves has given root back for good.            *)
RawLinkIsSafe ==
  /\ StartTypeOK
  /\ HandleIsContained
  /\ ServesUnprivileged

(* The hand-off never holds the daemon up: a helper that refuses, fails or *)
(* is killed ends the wait for its descriptor (request_bpf_fd).            *)
HandoffEnds == startPc = "spawn" ~> startPc \in {"serve", "failed"}
-----------------------------------------------------------------------------
(* The raw frames sent through that descriptor (frame.rs, bpf.rs): an      *)
(* Ethernet / IPv4 / UDP frame built around a payload, with both           *)
(* checksums, written whole or left to the kernel.  Bytes are numbers.  A  *)
(* payload is its length and its first bytes; the rest of it is zeros,     *)
(* which add nothing to a checksum.                                        *)
VARIABLES dgram, frame, outcome
frameVars == <<dgram, frame, outcome>>

Be16(n) == <<n \div 256, n % 256>>
WordSum(bytes) ==
    MapThenSumSet(LAMBDA i : bytes[i] * (IF (i % 2) = 1 THEN 256 ELSE 1),
                  1..Len(bytes))

(* The carries come back until none is left; of a 32-bit sum, twice. *)
FoldOnce(sum) == (sum % 65536) + (sum \div 65536)
Folded(sum) == FoldOnce(FoldOnce(sum))
InetChecksum(bytes) == 65535 - Folded(WordSum(bytes))
NoFrame == [ip |-> <<>>, udp |-> <<>>, len |-> 0]

(* None past what the 16-bit lengths can say. *)
Fits(d) == 20 + 8 + d.len <= 65535

IpHeader(d, ck) ==
    <<69, 0>> \o Be16(20 + 8 + d.len) \o Be16(0) \o Be16(16384) \o <<64, 17>> \o Be16(ck)
    \o d.srcIp \o d.dstIp
UdpHeader(d, ck) == Be16(d.srcPort) \o Be16(d.dstPort) \o Be16(8 + d.len) \o Be16(ck)
PseudoHeader(d) == d.srcIp \o d.dstIp \o <<0, 17>> \o Be16(8 + d.len)

BuildUdpFrame(d) ==
    IF ~Fits(d) THEN NoFrame
    ELSE [ip |-> IpHeader(d, InetChecksum(IpHeader(d, 0))),
          udp |-> UdpHeader(d, InetChecksum(PseudoHeader(d) \o UdpHeader(d, 0) \o d.bytes))
                  \o d.bytes,
          len |-> 14 + 20 + 8 + d.len]

FrameInit == dgram \in Datagrams /\ frame = NoFrame /\ outcome = "none"

(* send_udp: only a frame written whole was sent. *)
SendUdp ==
    /\ outcome = "none"
    /\ frame' = BuildUdpFrame(dgram)
    /\ \E w \in Writes :
        outcome' = IF BuildUdpFrame(dgram) # NoFrame /\ w = "all" THEN "sent" ELSE "kernel"
    /\ UNCHANGED dgram
FrameSpec == FrameInit /\ [][SendUdp]_frameVars

U16(bytes, i) == bytes[i] * 256 + bytes[i + 1]

(* A receiver accepts every frame that is built, whatever its length,      *)
(* ports and addresses: both checksums sum to zero in one's complement      *)
(* over what they cover, odd lengths included, and the two length fields, which are 16    *)
(* bits wide, describe the bytes that follow; a payload that no datagram   *)
(* can carry is left to the kernel (build_udp_frame, frame.rs 47-117).     *)
FrameIsAccepted ==
    outcome # "none" =>
        IF dgram.len > 65507 THEN frame = NoFrame /\ outcome = "kernel"
        ELSE /\ (WordSum(frame.ip) % 65535) = 0
             /\ (WordSum(PseudoHeader(dgram) \o frame.udp) % 65535) = 0
             /\ U16(frame.ip, 3) = frame.len - 14 /\ U16(frame.udp, 5) = frame.len - 34
=============================================================================
