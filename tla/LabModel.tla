------------------------------ MODULE LabModel ------------------------------
(***************************************************************************)
(* The lab: hosts, and targets whose channels are each wired to a host.    *)
(* What a lab may say, where a channel is, and the part of a lab that one  *)
(* host is sent.                                                           *)
(***************************************************************************)
EXTENDS Integers, Sequences, FiniteSets, SequencesExt, TLC

Local == "local"
Unset == "unset"
ChannelKinds == {"netboot", "power", "video", "hid", "usb", "adb", "actions"}
DefaultNet == "net77"

\* A channel: its host, its daemon's port (0: any), the link's interface and /24, the serial
\* interface a power channel senses, the video device, the power levels or actions it names.
Blank == [host |-> Unset, port |-> 0, iface |-> Unset, net |-> Unset, ref |-> Unset, dev |-> Unset,
          subs |-> {}, doctor |-> FALSE]
\* A target: its default host, its channels by kind, its serial interfaces in order.
NewTarget(h) == [host |-> h, ch |-> [k \in {} |-> Blank], serial |-> << >>]
EmptyLab == [hosts |-> {}, targets |-> [t \in {} |-> NewTarget(Unset)]]

Or(h, default) == IF h = Unset THEN default ELSE h
DefaultHost(t) == Or(t.host, Local)
HostOf(t, c) == Or(c.host, DefaultHost(t))
Net(c) == Or(c.net, DefaultNet)

\* resolved_target: the channels, each with the host it is wired to.
Resolved(t) ==
  { [kind |-> k, name |-> k, host |-> HostOf(t, t.ch[k])] : k \in DOMAIN t.ch }
    \cup { [kind |-> "serial", name |-> s.name, host |-> HostOf(t, s)] : s \in ToSet(t.serial) }
TargetHosts(t) ==
  LET hs == { c.host : c \in Resolved(t) } IN IF hs = {} THEN {DefaultHost(t)} ELSE hs

\* channel_host: where a command for this channel runs, or "error".
ChannelHost(t, kind, name) ==
  LET rs == { c \in Resolved(t) : c.kind = kind }
      hs == { c.host : c \in rs }
  IN IF kind = "serial" /\ name # Unset
     THEN IF \E c \in rs : c.name = name THEN (CHOOSE c \in rs : c.name = name).host ELSE "error"
     ELSE IF rs = {} THEN DefaultHost(t)
     ELSE IF Cardinality(hs) > 1 THEN "error" ELSE CHOOSE h \in hs : TRUE

(***************************************************************************)
(* The rules.                                                              *)
(***************************************************************************)
HostsDeclared(lab, t) ==
  {DefaultHost(t)} \cup { c.host : c \in Resolved(t) } \subseteq lab.hosts \cup {Local}
DeviceAllowed(t) ==
  "video" \in DOMAIN t.ch =>
    /\ t.ch["video"].dev # "bad"
    /\ t.ch["video"].dev = "rfb+hid" =>
         "hid" \in DOMAIN t.ch /\ HostOf(t, t.ch["hid"]) = HostOf(t, t.ch["video"])
SerialPorts(t) == { s.port : s \in ToSet(t.serial) } \ {0}
SerialSound(t) ==
  /\ Cardinality({ s.name : s \in ToSet(t.serial) }) = Len(t.serial)
  /\ Cardinality(SerialPorts(t)) <= 1

\* check_fixed_ports: <<target, kind, host, port>>; serial claims once, for the first
\* interface that sets a port.
ChannelClaims(n, t) ==
  { <<n, k, HostOf(t, t.ch[k]), t.ch[k].port>> : k \in { k \in {"video", "hid"} \cap DOMAIN t.ch : t.ch[k].port # 0 } }
SerialClaims(n, t) ==
  LET set == SelectSeq(t.serial, LAMBDA s : s.port # 0)
  IN IF set = << >> THEN {} ELSE { <<n, "serial", HostOf(t, set[1]), set[1].port>> }
CheckFixedPorts(lab) ==
  LET claims == UNION { ChannelClaims(n, lab.targets[n]) \cup SerialClaims(n, lab.targets[n]) : n \in DOMAIN lab.targets }
  IN \A a, b \in claims : a[3] = b[3] /\ a[4] = b[4] => a = b

Validate(lab) ==
  /\ \A n \in DOMAIN lab.targets :
       LET t == lab.targets[n] IN HostsDeclared(lab, t) /\ DeviceAllowed(t) /\ SerialSound(t)
  /\ CheckFixedPorts(lab)

\* netboot_subnet_clash: another link of the host in the same /24, on another interface.
Link(t) == IF "netboot" \in DOMAIN t.ch THEN t.ch["netboot"] ELSE Blank
Clashes(lab, a) ==
  { b \in DOMAIN lab.targets \ {a} :
      LET s == lab.targets[a]
          t == lab.targets[b]
      IN /\ Link(s).iface # Unset /\ Link(t).iface # Unset /\ Link(s).iface # Link(t).iface
         /\ HostOf(s, Link(s)) = HostOf(t, Link(t)) /\ Net(Link(s)) = Net(Link(t)) }

SensesOwn(t) ==
  "power" \in DOMAIN t.ch /\ t.ch["power"].ref # Unset => t.ch["power"].ref \in { s.name : s \in ToSet(t.serial) }
ValidateForSaveLoosely(lab) == Validate(lab)
ValidateForSave(lab) ==
  /\ Validate(lab) /\ \A n \in DOMAIN lab.targets : SensesOwn(lab.targets[n])

(***************************************************************************)
(* build_slice: the one target, with the channels that are on the host,    *)
(* as a lab of which that host is the local one.                           *)
(***************************************************************************)
Here(c) == [c EXCEPT !.host = Unset]
BuildSlice(lab, n, h) ==
  LET t == lab.targets[n]
      on == { k \in DOMAIN t.ch : HostOf(t, t.ch[k]) = h /\ (k = "actions" => t.ch[k].subs # {}) }
      serial == SelectSeq(t.serial, LAMBDA s : HostOf(t, s) = h)
  IN [ hosts |-> {},
       targets |-> (n :> [ host |-> Unset, ch |-> [k \in on |-> Here(t.ch[k])],
                           serial |-> [i \in DOMAIN serial |-> Here(serial[i])] ]) ]

Propose(inv, h) ==
  [ NewTarget(h) EXCEPT
      !.ch = [ k \in {"netboot"} \cup { k \in {"video", "adb"} : Len(inv[k]) = 1 } |->
                 IF k = "netboot" THEN [Blank EXCEPT !.iface = IF inv.eth = << >> THEN Unset ELSE inv.eth[1]]
                 ELSE [Blank EXCEPT !.dev = inv[k][1]] ],
      !.serial = IF inv.serial = << >> THEN << >> ELSE <<[name |-> "console", host |-> Unset, port |-> 0]>> ]
=============================================================================
