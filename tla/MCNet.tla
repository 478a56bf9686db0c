------------------------------- MODULE MCNet -------------------------------
(***************************************************************************)
(* Network boot: netbootd's DHCP with TFTP, a TFTP transfer, the TFTP      *)
(* dispatcher, the HTTP boot server, its start with the helper that opens  *)
(* the link, and the frames it sends.  A behaviour is one part's, chosen   *)
(* by `part`; the others stay where they begin.                            *)
(***************************************************************************)
EXTENDS TftpTransfer, TftpDispatch, NetBoot, HttpBoot, NetbootdStart, TLC

CONSTANTS c1, c2

VARIABLE part

\* HTTP: a root with a file, a directory, a link out of it and one inside it.
File == [kind |-> "file", to |-> <<>>]
Dir == [kind |-> "dir", to |-> <<>>]
LinkTo(p) == [kind |-> "link", to |-> p]
MCRoot == <<"r">>
MCTree == (<<>> :> Dir) @@ (MCRoot :> Dir) @@ (<<"r", "k">> :> File) @@ (<<"r", "d">> :> Dir)
          @@ (<<"r", "l">> :> LinkTo(<<"s">>)) @@ (<<"r", "m">> :> LinkTo(<<"r", "k">>))
          @@ (<<"s">> :> File)
Kern == <<"r", "k">>
Path(names, absolute, chars) == [names |-> names, absolute |-> absolute, chars |-> chars]
MCPaths ==
    {Path(Kern, FALSE, <<"/", "k">>), Path(Kern, TRUE, <<"h", "/", "m", "?", "k">>),
     Path(Gone, TRUE, <<"h">>), Path(Gone, FALSE, <<"/", "k", "/">>),
     Path(Kern, FALSE, <<"/", "d", "%", "2", "f", "%", "2", "e", ".", "/", "k">>),
     Path(Gone, FALSE, <<"%", "2", "e", "%", "2", "e", "/", "s">>),
     Path(Gone, FALSE, <<"%", "2", "5", "2", "e", ".", "/", "r", "/", "k">>),
     Path(Gone, FALSE, <<"/", "/", "l">>), Path(Gone, FALSE, <<"k", "%", "2">>)}
Req(m, v, cn, p, h, d, b) ==
    [method |-> m, version |-> v, connection |-> cn, target |-> p, head |-> h,
     declared |-> d, body |-> b, ends |-> TRUE]
PathK == Path(Kern, FALSE, <<"/", "k">>)
Get == Req("GET", "1.1", "none", PathK, 1, 0, 0)
GetClose == [Get EXCEPT !.connection = "close"]
MCScripts ==
    {<<Req("HEAD", "1.1", "close", p, 1, 0, 0)>> : p \in MCPaths}
    \union {<<>>, <<GetClose>>, <<Req("HEAD", "1.1", "none", PathK, 1, 0, 0), Get>>,
            <<Req("POST", "1.1", "none", PathK, 2, 1, 1), Get>>,
            <<Req("GET", "1.0", "none", PathK, 1, 0, 0), Get>>,
            <<Req("GET", "1.0", "keep-alive", PathK, 1, 0, 0), Req("GET", "1.1", "close", PathK, 1, 2, 1)>>,
            <<[Req("GET", "1.1", "none", PathK, 3, 0, 0) EXCEPT !.ends = FALSE]>>}
MCConversations(on) ==
    IF on THEN {f \in [Clients -> MCScripts] : f[c2] = <<>>} ELSE {[c \in Clients |-> <<>>]}

\* Hosts netbootd starts on.
Mac == [os |-> "macos", uid |-> 501, owner |-> 501, links |-> 1, setuid |-> TRUE, mac |-> TRUE,
        iface |-> "en5", route |-> "en0", validName |-> TRUE, freeDevice |-> TRUE,
        sudoUid |-> "none", sudoGid |-> "none", keepsRoot |-> FALSE]
Sudo(u, g) == [Mac EXCEPT !.os = "linux", !.uid = 0, !.sudoUid = u, !.sudoGid = g]
MCHosts ==
    {[Mac EXCEPT !.owner = o, !.links = l, !.setuid = s, !.route = r, !.freeDevice = f] :
        o \in {501, 502}, l \in {1, 2}, s \in BOOLEAN, r \in {"en0", "en5", "none"}, f \in BOOLEAN}
    \union {[Mac EXCEPT !.mac = FALSE], [Mac EXCEPT !.validName = FALSE], [Mac EXCEPT !.uid = 0]}
    \union {Sudo(u, g) : u \in {"none", "0", "501", "bad"}, g \in {"none", "501", "bad"}}
    \union {[Sudo("501", "501") EXCEPT !.keepsRoot = TRUE], [Sudo("501", "501") EXCEPT !.uid = 501]}

\* Datagrams of odd and even length, at the edges of the length fields.
HostIp == <<192, 168, 99, 1>>
MCDatagrams ==
    {[srcIp |-> HostIp, dstIp |-> d, srcPort |-> p, dstPort |-> q, len |-> n.len, bytes |-> n.bytes] :
        d \in {<<192, 168, 99, 100>>, <<255, 255, 255, 255>>}, p \in {69, 65535, 49152}, q \in {0, 65535, 2070},
        n \in {[len |-> 0, bytes |-> <<>>], [len |-> 1, bytes |-> <<255>>],
               [len |-> 3, bytes |-> <<255, 255, 1>>], [len |-> 4, bytes |-> <<255, 255, 255, 255>>],
               [len |-> 516, bytes |-> <<0, 3, 0, 1>>], [len |-> 65507, bytes |-> <<0, 3>>],
               [len |-> 65508, bytes |-> <<0, 3>>], [len |-> 65536, bytes |-> <<>>]}}

MCInit ==
  /\ part \in {"transfer", "dispatch", "boot", "http", "start", "frame"}
  /\ Init /\ DispatchInit
  /\ BootInit /\ (part # "boot" => arp = NoMac)
  /\ size = [f \in Files |-> 1] /\ script \in MCConversations(part = "http") /\ HttpInit
  /\ startHost \in (IF part = "start" THEN Hosts ELSE {Mac}) /\ StartInit
  /\ dgram \in (IF part = "frame" THEN Datagrams ELSE {CHOOSE d \in Datagrams : TRUE}) /\ FrameInit

MCNext ==
  \/ /\ part = "transfer" /\ Next
     /\ UNCHANGED <<part, dispatchVars, bootVars, httpVars, startVars, frameVars>>
  \/ /\ part = "dispatch" /\ DispatchNext
     /\ UNCHANGED <<part, vars, bootVars, httpVars, startVars, frameVars>>
  \/ /\ part = "boot" /\ BootNext
     /\ UNCHANGED <<part, vars, dispatchVars, httpVars, startVars, frameVars>>
  \/ /\ part = "http" /\ HttpNext
     /\ UNCHANGED <<part, vars, dispatchVars, bootVars, startVars, frameVars>>
  \/ /\ part = "start" /\ StartNext
     /\ UNCHANGED <<part, vars, dispatchVars, bootVars, httpVars, frameVars>>
  \/ /\ part = "frame" /\ SendUdp
     /\ UNCHANGED <<part, vars, dispatchVars, bootVars, httpVars, startVars>>

netVars == <<part, vars, dispatchVars, bootVars, httpVars, startVars, frameVars>>

\* Every part's own tasks run; nothing is asked of the network or the client,
\* but that an HTTP client goes on reading what it asked for.
OthersRun ==
  /\ WF_vars(part = "transfer" /\ Send) /\ WF_vars(part = "transfer" /\ Timeout)
  /\ \A t \in Tasks : WF_dispatchVars(part = "dispatch" /\ Finish(t)) /\ WF_dispatchVars(part = "dispatch" /\ Join(t))
  /\ WF_startVars(part = "start" /\ StartNext)

MCSpec ==
  /\ MCInit /\ [][MCNext]_netVars /\ OthersRun
  /\ WF_httpVars(part = "http" /\ (ServerStep \/ \E c \in Clients : ClientRead(c)))

\* What leaves netbootd is what it says it is: on every path through an HTTP connection, timeouts,
\* resets and a file that shrinks included, the slot is accounted for, the framing holds and only
\* what the target names is served; and every raw frame is one that a receiver accepts (http.rs,
\* frame.rs).
SentIsHonest ==
  /\ HttpTypeOK
  /\ EverySlotAccounted
  /\ FramingHolds
  /\ ServedIsNamed
  /\ ClosedWhenDone
  /\ FrameIsAccepted

\* No client can hold netbootd up: transfers end, slots come back and are not taken by a request
\* that cannot use them, connections end, and so does the hand-off at the start.
NetProgress ==
  /\ TransferEnds
  /\ AbortOnlyReplaces
  /\ SlotComesBack
  /\ ConnectionSlotReturns
  /\ HandoffEnds
=============================================================================
