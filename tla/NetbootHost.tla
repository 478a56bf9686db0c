----------------------------- MODULE NetbootHost -----------------------------
(***************************************************************************)
(* The control host of netboot links: paniolo's netboot and netif commands *)
(* (start, stop, the link modes), the netbootd processes they spawn and    *)
(* signal, the state file per target, and the addresses of each interface, *)
(* which netbootd's monitor keeps there. No lock orders two commands.      *)
(***************************************************************************)
EXTENDS Integers, Sequences, FiniteSets, SequencesExt

CONSTANTS Targets, Ifaces,
          PidLimit,  \* process ids are 1..PidLimit
          LinkSites  \* hosts and what is asked of them; see site

\* A lab without a netboot_subnet_clash, on a host whose own links are apart.
ASSUME HostAssumption ==
  /\ PidLimit \in Nat \ {0} /\ "none" \notin Ifaces
  /\ \A s \in LinkSites :
       /\ s.primary \in Ifaces /\ s.iface \in [Targets -> Ifaces] /\ s.ip \in [Targets -> Nat \X Nat]
       /\ s.prior \in [Ifaces -> Seq(Nat \X Nat)]
       /\ \A n \in DOMAIN s.jobs : s.jobs[n].target \in Targets
       /\ \A n \in DOMAIN s.jobs : s.jobs[n].verb \in {"start", "stop", "netboot", "link", "ffx", "off", "down"}
       /\ \A t, u \in Targets : s.iface[t] # s.iface[u] => s.ip[t][1] # s.ip[u][1]
       /\ \A i, j \in Ifaces : \A n \in DOMAIN s.prior[i], m \in DOMAIN s.prior[j] :
            i # j => s.prior[i][n][1] # s.prior[j][m][1]

VARIABLES
  site,    \* fixed: [mac, sudo, promote : BOOLEAN, primary : interface, iface, ip : target -> ...,
           \* prior : interface -> addresses, fault, jobs : seq of [verb, target], serial : BOOLEAN]
  linkCmd, \* per job: where the command is
  netState,\* per target: netboot.json, [pid |-> 0] when there is none
  proc,    \* per pid: what runs
  addr,    \* per interface: its IPv4 addresses <<net, host>> in the kernel's order
  ll,      \* interfaces with the ffx link-local address
  carrier, \* interfaces with carrier
  hit      \* strangers that were signalled

hostVars == <<site, linkCmd, netState, proc, addr, ll, carrier, hit>>

Procs == 1..PidLimit
Jobs == DOMAIN site.jobs
NoProc == [prog |-> "none", iface |-> "none", ip |-> <<0, 0>>, at |-> "none", child |-> 0]
NoState == [pid |-> 0, iface |-> "none"]
TargetOf(c) == site.jobs[c].target
IfaceOf(c) == site.iface[TargetOf(c)]
IpOf(c) == site.ip[TargetOf(c)]
Holds(i, a) == \E n \in DOMAIN addr[i] : addr[i][n] = a

(***************************************************************************)
(* Who is running. The command line of the sudo that netbootd was started  *)
(* through names netbootd too.                                             *)
(***************************************************************************)
IsPidAlive(p) == p \in Procs /\ proc[p].prog # "none"
IsNamedChildAlive(p) == p \in Procs /\ proc[p].prog \in {"netbootd", "sudo"}
IsNetbootRunning(t) == IsNamedChildAlive(netState[t].pid)
RunningNetboots == { t \in Targets : IsNetbootRunning(t) }
InterfaceConflict(t, i) == \E other \in RunningNetboots \ {t} : netState[other].iface = i
IsPrimaryInterface(i) == i = site.primary

(***************************************************************************)
(* The commands, as lists of steps.                                        *)
(***************************************************************************)
ConfigureInterface ==
  IF site.mac THEN <<"subnet", "ifconfig">> ELSE <<"subnet", "replace", "others", "up">>
Start == <<"notrunning", "primary", "conflict", "cleanup">> \o ConfigureInterface \o <<"spawn", "watch", "save">>
Stop == <<"term", "wait", "kill", "wait", "forget", "restore">>
ModeNetboot == <<"primary", "delll", "unless">> \o Start
ModeLink == <<"primary", "ifstop", "delll">> \o ConfigureInterface
ModeFfx == <<"primary", "ifstop", "addll">>
ModeOff == <<"primary", "ifstop", "delll", "delip">>
DownHard == <<"primary">> \o ModeOff \o <<"down">>
VerbSteps(verb) ==
  CASE verb = "start" -> Start [] verb = "stop" -> Stop [] verb = "netboot" -> ModeNetboot [] verb = "link" -> ModeLink
    [] verb = "ffx" -> ModeFfx [] verb = "off" -> ModeOff [] verb = "down" -> DownHard

Cmd0(c) == [todo |-> VerbSteps(site.jobs[c].verb), exit |-> "none", live |-> 0, iface |-> "none", was |-> << >>]
HostInit ==
  /\ site \in LinkSites
  /\ linkCmd = [c \in Jobs |-> Cmd0(c)]
  /\ netState = [t \in Targets |-> NoState] /\ proc = [p \in Procs |-> NoProc]
  /\ addr = site.prior /\ ll = {} /\ carrier = Ifaces /\ hit = {}

AtStep(c, s) ==
  /\ linkCmd[c].exit = "none" /\ Head(linkCmd[c].todo) = s
  /\ site.serial => \A b \in 1..(c - 1) : linkCmd[b].exit # "none"
StepOn(c, cmd) == [cmd EXCEPT !.todo = Tail(@), !.exit = IF Len(linkCmd[c].todo) = 1 THEN "ok" ELSE "none"]
StepsOn(c) == linkCmd' = [linkCmd EXCEPT ![c] = StepOn(c, @)]
Fails(c, why) == linkCmd' = [linkCmd EXCEPT ![c].exit = why]
RefuseIf(c, refused) == IF refused THEN Fails(c, "refused") ELSE StepsOn(c)
Links == <<addr, ll, carrier>>
FixedOnes == <<site, hit>>

CheckPrimary(c) == AtStep(c, "primary") /\ RefuseIf(c, IsPrimaryInterface(IfaceOf(c))) /\ UNCHANGED <<netState, proc, Links, FixedOnes>>
CheckNotRunning(c) == AtStep(c, "notrunning") /\ RefuseIf(c, IsNetbootRunning(TargetOf(c))) /\ UNCHANGED <<netState, proc, Links, FixedOnes>>
CheckConflict(c) ==
  AtStep(c, "conflict") /\ RefuseIf(c, InterfaceConflict(TargetOf(c), IfaceOf(c))) /\ UNCHANGED <<netState, proc, Links, FixedOnes>>
UnlessRunning(c) ==
  /\ AtStep(c, "unless")
  /\ IF IsNetbootRunning(TargetOf(c)) THEN Fails(c, "ok") ELSE StepsOn(c)
  /\ UNCHANGED <<netState, proc, Links, FixedOnes>>
IfRunningStop(c) ==
  /\ AtStep(c, "ifstop")
  /\ linkCmd' = [linkCmd EXCEPT ![c].todo = (IF IsNetbootRunning(TargetOf(c)) THEN Stop ELSE << >>) \o Tail(@)]
  /\ UNCHANGED <<netState, proc, Links, FixedOnes>>

(***************************************************************************)
(* Signals. A netbootd told to terminate exits by itself later; a deaf one *)
(* does not listen, a stuck one survives even KILL. sudo passes TERM on    *)
(* and cannot pass KILL on.                                                *)
(***************************************************************************)
Told(p, sig) ==
  IF proc[p].at = "stuck" \/ (proc[p].at = "deaf" /\ sig = "TERM") THEN proc ELSE [proc EXCEPT ![p].at = "dying"]
Signal(p, sig) ==
  CASE proc[p].prog = "sudo" /\ sig = "TERM" -> proc' = Told(proc[p].child, sig) /\ UNCHANGED hit
    [] proc[p].prog = "sudo" /\ sig = "KILL" -> proc' = [proc EXCEPT ![p] = NoProc] /\ UNCHANGED hit
    [] proc[p].prog = "netbootd" -> proc' = Told(p, sig) /\ UNCHANGED hit
    [] OTHER -> proc' = [proc EXCEPT ![p] = NoProc] /\ hit' = hit \cup {p}

\* cleanup_stale: no waiting, and no sudo for a daemon that runs as root.
CleanupStale(c) ==
  LET p == netState[TargetOf(c)].pid IN
  /\ AtStep(c, "cleanup") /\ StepsOn(c)
  /\ IF IsNamedChildAlive(p) /\ ~site.sudo THEN Signal(p, "TERM") ELSE UNCHANGED <<proc, hit>>
  /\ netState' = [netState EXCEPT ![TargetOf(c)] = NoState]
  /\ UNCHANGED <<site, Links>>

\* The state is read, and the pid it names verified before TERM, again before KILL, and
\* a third time before the state is forgotten.
IsVerifiedNetbootd(p) == IsPidAlive(p) /\ IsNamedChildAlive(p)
StopTerm(c) ==
  LET s == netState[TargetOf(c)] IN
  /\ AtStep(c, "term")
  /\ IF s.pid = 0 THEN Fails(c, "no state") /\ UNCHANGED <<proc, hit>>
     ELSE LET live == IF IsVerifiedNetbootd(s.pid) THEN s.pid ELSE 0 IN
          /\ linkCmd' = [linkCmd EXCEPT ![c] = [StepOn(c, @) EXCEPT !.live = live, !.iface = s.iface]]
          /\ IF live # 0 THEN Signal(live, "TERM") ELSE UNCHANGED <<proc, hit>>
  /\ UNCHANGED <<site, netState, Links>>
WaitForExit(c) == AtStep(c, "wait") /\ StepsOn(c) /\ UNCHANGED <<netState, proc, Links, FixedOnes>>
StopKillBlind(c) ==
  /\ AtStep(c, "kill") /\ StepsOn(c)
  /\ IF IsPidAlive(linkCmd[c].live) THEN Signal(linkCmd[c].live, "KILL") ELSE UNCHANGED <<proc, hit>>
  /\ UNCHANGED <<site, netState, Links>>
StopKill(c) ==
  /\ AtStep(c, "kill") /\ StepsOn(c)
  /\ IF IsVerifiedNetbootd(linkCmd[c].live) THEN Signal(linkCmd[c].live, "KILL") ELSE UNCHANGED <<proc, hit>>
  /\ UNCHANGED <<site, netState, Links>>
StopForget(c) ==
  /\ AtStep(c, "forget")
  /\ IF IsVerifiedNetbootd(linkCmd[c].live) THEN Fails(c, "survivor") /\ UNCHANGED netState
     ELSE StepsOn(c) /\ netState' = [netState EXCEPT ![TargetOf(c)] = NoState]
  /\ UNCHANGED <<proc, Links, FixedOnes>>
\* Back to the operating system: on Linux every address goes, on macOS one may outlive -setdhcp.
RestoreInterface(c) ==
  LET i == linkCmd[c].iface IN
  /\ AtStep(c, "restore") /\ StepsOn(c)
  /\ IF site.mac THEN addr' \in {addr, [addr EXCEPT ![i] = << >>]} /\ UNCHANGED ll
     ELSE addr' = [addr EXCEPT ![i] = << >>] /\ ll' = ll \ {i}
  /\ UNCHANGED <<netState, proc, carrier, FixedOnes>>

(***************************************************************************)
(* Addresses.                                                              *)
(***************************************************************************)
SharedSubnetHolder(i, a) == \E j \in Ifaces \ {i} : \E n \in DOMAIN addr[j] : addr[j][n][1] = a[1]
GuardSharedSubnet(c) ==
  /\ AtStep(c, "subnet")
  /\ IF SharedSubnetHolder(IfaceOf(c), IpOf(c)) THEN Fails(c, "refused")
     ELSE linkCmd' = [linkCmd EXCEPT ![c] = [StepOn(c, @) EXCEPT !.was = addr[IfaceOf(c)]]]
  /\ UNCHANGED <<netState, proc, Links, FixedOnes>>
\* ip addr replace: added, unless it is there.
ReplacedIn(i, a) == IF Holds(i, a) THEN addr ELSE [addr EXCEPT ![i] = Append(@, a)]
IpAddrReplace(c) ==
  /\ AtStep(c, "replace")
  /\ \/ StepsOn(c) /\ addr' = ReplacedIn(IfaceOf(c), IpOf(c))
     \/ Fails(c, "assign") /\ UNCHANGED addr
  /\ UNCHANGED <<netState, proc, ll, carrier, FixedOnes>>
\* The other addresses go. A primary one takes its net's secondaries with it, unless the
\* kernel promotes them; so ours is asserted again when any went.
Survives(i, a) ==
  site.promote \/ \A n \in DOMAIN addr[i] : addr[i][n][1] = a[1] => \E m \in 1..n : addr[i][m] = a
AfterOthers(i, a) == IF Holds(i, a) /\ Survives(i, a) THEN <<a>> ELSE << >>
DeleteOthers(c) ==
  LET i == IfaceOf(c)
      cmd == StepOn(c, linkCmd[c])
      some == \E n \in DOMAIN addr[i] : addr[i][n] # IpOf(c) IN
  /\ AtStep(c, "others")
  /\ addr' = [addr EXCEPT ![i] = IF some THEN AfterOthers(i, IpOf(c)) ELSE @]
  /\ linkCmd' = [linkCmd EXCEPT ![c] = [cmd EXCEPT !.todo = (IF some THEN <<"again">> ELSE << >>) \o @]]
  /\ UNCHANGED <<netState, proc, ll, carrier, FixedOnes>>
ReassertIp(c) ==
  /\ AtStep(c, "again")
  /\ \/ StepsOn(c) /\ addr' = ReplacedIn(IfaceOf(c), IpOf(c))
     \/ Fails(c, "reassert") /\ UNCHANGED addr
  /\ UNCHANGED <<netState, proc, ll, carrier, FixedOnes>>
\* macOS: ifconfig sets the interface's address and brings it up.
Ifconfig(c) ==
  /\ AtStep(c, "ifconfig")
  /\ \/ StepsOn(c) /\ addr' = [addr EXCEPT ![IfaceOf(c)] = <<IpOf(c)>>] /\ carrier' = carrier \cup {IfaceOf(c)}
     \/ Fails(c, "assign") /\ UNCHANGED <<addr, carrier>>
  /\ UNCHANGED <<netState, proc, ll, FixedOnes>>
LinkUp(c) ==
  AtStep(c, "up") /\ StepsOn(c) /\ carrier' = carrier \cup {IfaceOf(c)} /\ UNCHANGED <<netState, proc, addr, ll, FixedOnes>>
DelHostLl(c) == AtStep(c, "delll") /\ StepsOn(c) /\ ll' = ll \ {IfaceOf(c)} /\ UNCHANGED <<netState, proc, addr, carrier, FixedOnes>>
AddHostLl(c) ==
  /\ AtStep(c, "addll")
  /\ \/ StepsOn(c) /\ ll' = ll \cup {IfaceOf(c)} /\ carrier' = carrier \cup {IfaceOf(c)}
     \/ Fails(c, "assign") /\ UNCHANGED <<ll, carrier>>
  /\ UNCHANGED <<netState, proc, addr, FixedOnes>>
DelHostIp(c) ==
  /\ AtStep(c, "delip") /\ StepsOn(c)
  /\ addr' = IF Holds(IfaceOf(c), IpOf(c))
             THEN [addr EXCEPT ![IfaceOf(c)] = RemoveAt(@, CHOOSE n \in DOMAIN @ : @[n] = IpOf(c))] ELSE addr
  /\ UNCHANGED <<netState, proc, ll, carrier, FixedOnes>>
AdminDown(c) ==
  AtStep(c, "down") /\ StepsOn(c) /\ carrier' = carrier \ {IfaceOf(c)} /\ UNCHANGED <<netState, proc, addr, ll, FixedOnes>>

(***************************************************************************)
(* The spawn, watched through STARTUP_GRACE before it is recorded.         *)
(***************************************************************************)
Netbootd(c) == [prog |-> "netbootd", iface |-> IfaceOf(c), ip |-> IpOf(c), at |-> "starting", child |-> 0]
SpawnNetbootd(c) ==
  /\ AtStep(c, "spawn")
  /\ \E p, q \in { x \in Procs : ~IsPidAlive(x) } :
       /\ site.sudo <=> p # q
       /\ proc' = IF site.sudo THEN [proc EXCEPT ![p] = [NoProc EXCEPT !.prog = "sudo", !.child = q], ![q] = Netbootd(c)]
                  ELSE [proc EXCEPT ![p] = Netbootd(c)]
       /\ linkCmd' = [linkCmd EXCEPT ![c] = [StepOn(c, @) EXCEPT !.live = p]]
  /\ UNCHANGED <<netState, Links, FixedOnes>>
WatchStartup(c) ==
  /\ AtStep(c, "watch")
  /\ IF IsNamedChildAlive(linkCmd[c].live) THEN StepsOn(c) ELSE Fails(c, "died")
  /\ UNCHANGED <<netState, proc, Links, FixedOnes>>
SaveNetbootState(c) ==
  /\ AtStep(c, "save") /\ StepsOn(c)
  /\ netState' = [netState EXCEPT ![TargetOf(c)] = [pid |-> linkCmd[c].live, iface |-> IfaceOf(c)]]
  /\ UNCHANGED <<proc, Links, FixedOnes>>

(***************************************************************************)
(* netbootd, and what the host does to its processes and links.            *)
(***************************************************************************)
Serves(p) == proc[p].prog = "netbootd" /\ proc[p].at \in {"serving", "deaf", "stuck"}
Alone(p) == \A q \in Procs \ {p} : Serves(q) => proc[q].iface # proc[p].iface
\* A process that ends takes the sudo above it along.
EndedAt(p) == [q \in Procs |-> IF q = p \/ (proc[q].prog = "sudo" /\ proc[q].child = p) THEN NoProc ELSE proc[q]]
\* main: not on a primary NIC; the interface claimed, every listener bound, or it exits.
NetbootdStarts(p) ==
  /\ proc[p].prog = "netbootd" /\ proc[p].at = "starting"
  /\ \/ /\ ~IsPrimaryInterface(proc[p].iface) /\ Alone(p)
        /\ proc' = [proc EXCEPT ![p].at = "serving"]
     \/ proc' = EndedAt(p)
  /\ UNCHANGED <<linkCmd, netState, Links, FixedOnes>>
NetbootdExits(p) == proc[p].at = "dying" /\ proc' = EndedAt(p) /\ UNCHANGED <<linkCmd, netState, Links, FixedOnes>>
NetbootdHangs(p) ==
  /\ proc[p].at = "serving" /\ site.fault \in {"deaf", "stuck"}
  /\ proc' = [proc EXCEPT ![p].at = site.fault] /\ UNCHANGED <<linkCmd, netState, Links, FixedOnes>>
NetbootdDies(p) ==
  proc[p].at = "serving" /\ site.fault = "crash" /\ proc' = EndedAt(p) /\ UNCHANGED <<linkCmd, netState, Links, FixedOnes>>
\* The pid of a netbootd that is gone is given to another program.
StrangerStarts(p) ==
  /\ site.fault \in {"crash", "recycle"} /\ ~IsPidAlive(p)
  /\ \/ \E t \in Targets : netState[t].pid = p
     \/ \E c \in Jobs : linkCmd[c].live = p
  /\ \A q \in Procs : proc[q].prog # "stranger"
  /\ proc' = [proc EXCEPT ![p] = [NoProc EXCEPT !.prog = "stranger"]] /\ UNCHANGED <<linkCmd, netState, Links, FixedOnes>>
\* The netboot client power-cycles: no carrier, and the address may go with it.
LinkFlaps(i) ==
  /\ site.fault = "flap" /\ i \in carrier /\ i # site.primary /\ carrier' = carrier \ {i}
  /\ addr' \in {addr, [addr EXCEPT ![i] = << >>]} /\ UNCHANGED <<linkCmd, netState, proc, ll, FixedOnes>>
LinkReturns(i) ==
  /\ site.fault = "flap" /\ i \notin carrier /\ carrier' = carrier \cup {i}
  /\ UNCHANGED <<linkCmd, netState, proc, addr, ll, FixedOnes>>
MonitorInterface(p) ==
  /\ Serves(p) /\ proc[p].at = "serving" /\ ~IsPrimaryInterface(proc[p].iface)
  /\ ~Holds(proc[p].iface, proc[p].ip) /\ proc[p].iface \in carrier
  /\ addr' = IF site.mac THEN [addr EXCEPT ![proc[p].iface] = <<proc[p].ip>>] ELSE ReplacedIn(proc[p].iface, proc[p].ip)
  /\ UNCHANGED <<linkCmd, netState, proc, ll, carrier, FixedOnes>>

LinkStep(c) ==
  \/ CheckPrimary(c) \/ CheckNotRunning(c) \/ CheckConflict(c) \/ UnlessRunning(c) \/ IfRunningStop(c) \/ CleanupStale(c)
  \/ StopTerm(c) \/ WaitForExit(c) \/ StopKill(c) \/ StopForget(c) \/ RestoreInterface(c)
  \/ GuardSharedSubnet(c) \/ IpAddrReplace(c) \/ DeleteOthers(c) \/ ReassertIp(c) \/ Ifconfig(c) \/ LinkUp(c)
  \/ DelHostLl(c) \/ AddHostLl(c) \/ DelHostIp(c) \/ AdminDown(c)
  \/ SpawnNetbootd(c) \/ WatchStartup(c) \/ SaveNetbootState(c)
DaemonStep(p) == NetbootdStarts(p) \/ NetbootdExits(p) \/ MonitorInterface(p)
HostMishap(p) == NetbootdHangs(p) \/ NetbootdDies(p) \/ StrangerStarts(p)
HostNext ==
  \/ \E c \in Jobs : LinkStep(c)
  \/ \E p \in Procs : DaemonStep(p) \/ HostMishap(p)
  \/ \E i \in Ifaces : LinkFlaps(i) \/ LinkReturns(i)

HostSpec == HostInit /\ [][HostNext]_hostVars

(***************************************************************************)
(* get_status: the mode is probed, never stored.                           *)
(***************************************************************************)
GetStatus(t) ==
  CASE IsNetbootRunning(t) -> "netboot"
    [] ~IsNetbootRunning(t) /\ site.iface[t] \in ll -> "ffx"
    [] ~IsNetbootRunning(t) /\ site.iface[t] \notin ll /\ Holds(site.iface[t], site.ip[t]) -> "link"
    [] OTHER -> "off"

(***************************************************************************)
(* Properties.                                                             *)
(***************************************************************************)
HostTypeOK ==
  /\ \A c \in Jobs : linkCmd[c].live \in 0..PidLimit
  /\ \A t \in Targets : netState[t].pid \in 0..PidLimit /\ netState[t].iface \in Ifaces \cup {"none"}
  /\ \A p \in Procs : proc[p].prog \in {"none", "netbootd", "sudo", "stranger"} /\ proc[p].child \in 0..PidLimit
  /\ ll \subseteq Ifaces /\ carrier \subseteq Ifaces /\ hit \subseteq Procs

CmdEnded(c) == linkCmd[c].exit # "none"
AllEnded == \A c \in Jobs : CmdEnded(c)
Between == site.serial /\ \A c \in Jobs : CmdEnded(c) \/ linkCmd[c] = Cmd0(c)

\* Only a process that runs netbootd is ever signalled: a recorded pid that the kernel has
\* given to another program is forgotten (should_signal), even when that happens while
\* stop waits between TERM and KILL.
StrangerSpared == hit = {}

\* Whatever is asked, by whomever, the interface with the default route keeps its addresses
\* and its carrier.
PrimaryUntouched ==
  addr[site.primary] = site.prior[site.primary] /\ site.primary \in carrier \ ll

\* No two interfaces are ever put into one /24, whether the other address was given by
\* paniolo or by hand (guard_shared_subnet).
LinksInDistinctSubnets ==
  \A i, j \in Ifaces : \A n \in DOMAIN addr[i] : \A m \in DOMAIN addr[j] : i # j => addr[i][n][1] # addr[j][m][1]

\* Commands one after the other leave no netbootd that no state file records: stop reports
\* a stop that happened. Through sudo this needs a netbootd that listens to TERM.
NothingServesUnrecorded ==
  Between /\ (site.sudo => site.fault \notin {"deaf", "stuck"}) =>
    \A p \in Procs : Serves(p) => \E t \in Targets :
      netState[t].pid = p \/ (IsPidAlive(netState[t].pid) /\ proc[netState[t].pid].child = p)

\* One netboot per interface: commands one after the other never spawn a netbootd on a link
\* another one serves.
SpawnedOnFreeLink ==
  site.serial /\ (site.sudo => site.fault \notin {"deaf", "stuck"}) =>
    \A p \in Procs : proc[p].at = "starting" => Alone(p)

\* A first assignment that fails leaves the interface's addresses as they were; and a link
\* mode that succeeds leaves exactly its own, in whatever order the kernel held the others.
AssignmentIsWhole ==
  site.serial /\ site.fault = "none" => \A c \in Jobs :
    (IF c = Len(site.jobs) THEN TRUE ELSE linkCmd[c + 1] = Cmd0(c + 1))
      /\ ~(\E p \in Procs : Serves(p) /\ proc[p].iface = IfaceOf(c)) =>
    /\ linkCmd[c].exit = "assign" /\ site.jobs[c].verb \in {"link", "start"} => addr[IfaceOf(c)] = linkCmd[c].was
    /\ linkCmd[c].exit = "ok" /\ site.jobs[c].verb = "link" => addr[IfaceOf(c)] = <<IpOf(c)>>

\* The mode that status reports after a mode command that succeeded is the one asked for,
\* while no netbootd of another target serves the same interface.
ModeIsTaken ==
  site.serial /\ site.fault = "none" => \A c \in Jobs :
    linkCmd[c].exit = "ok" /\ (IF c = Len(site.jobs) THEN TRUE ELSE linkCmd[c + 1] = Cmd0(c + 1))
      /\ ~(\E t \in Targets \ {TargetOf(c)} : IsNetbootRunning(t) /\ netState[t].iface = IfaceOf(c)) =>
    /\ site.jobs[c].verb \in {"link", "ffx", "off"} => GetStatus(TargetOf(c)) = site.jobs[c].verb
    /\ site.jobs[c].verb = "down" => GetStatus(TargetOf(c)) = "off"

\* Every command comes to an end, also when a netbootd survives its signals: the waits are
\* bounded.
LinkCommandsEnd == (Jobs # {}) ~> AllEnded

\* A served link that has lost its address gets it back once it has carrier.
AddressComesBack ==
  LET Bare(p) == proc[p].at = "serving" /\ proc[p].iface \in carrier /\ ~Holds(proc[p].iface, proc[p].ip) IN
  (\E p \in Procs : Bare(p)) ~> (\A p \in Procs : ~Bare(p))

\* Whatever the netboot commands do beside each other, to dead pids, failing tools and foreign
\* addresses, no stranger is signalled and no other link is harmed (netboot.rs).
LinksAreKept ==
  /\ HostTypeOK
  /\ StrangerSpared
  /\ PrimaryUntouched
  /\ LinksInDistinctSubnets

-----------------------------------------------------------------------------
(***************************************************************************)
(* netboot logs --follow: a reader that polls a log which every start of   *)
(* netbootd removes and creates anew under it. An open handle keeps        *)
(* reading the file it was opened on, unlinked or not.                     *)
(***************************************************************************)
CONSTANTS MaxStarts,  \* how often netbootd is started
          MaxLog      \* bytes of a log

ASSUME LogAssumption == MaxStarts \in Nat \ {0} /\ MaxLog \in Nat

VARIABLES logPath,   \* the file the path names, 0 for none
          logLen,    \* per file: its length
          logStarts, \* files created so far
          follow     \* the reader: where it is, its handle and position, the identity it took for
                     \* the handle's, the one it last saw, and whether those first two differed at first

followVars == <<logPath, logLen, logStarts, follow>>

FollowInit ==
  /\ logPath = 1 /\ logLen = [f \in 1..MaxStarts |-> 0] /\ logStarts = 1
  /\ follow = [at |-> "open", file |-> 0, pos |-> 0, id |-> 0, current |-> 0, raced |-> FALSE]

\* start: removed, and created.
LogRemoved == logPath # 0 /\ logStarts < MaxStarts /\ logPath' = 0 /\ UNCHANGED <<logLen, logStarts, follow>>
LogCreated == logPath = 0 /\ logPath' = logStarts + 1 /\ logStarts' = logStarts + 1 /\ UNCHANGED <<logLen, follow>>
LogWritten ==
  /\ logPath # 0 /\ logLen[logPath] < MaxLog /\ logLen' = [logLen EXCEPT ![logPath] = @ + 1]
  /\ UNCHANGED <<logPath, logStarts, follow>>

(***************************************************************************)
(* cmd_netboot_logs.                                                       *)
(***************************************************************************)
FileIdentity == logPath
FollowOpen ==
  /\ follow.at = "open"
  /\ follow' = IF logPath = 0 THEN [follow EXCEPT !.at = "ended"] ELSE [follow EXCEPT !.at = "seek", !.file = logPath]
  /\ UNCHANGED <<logPath, logLen, logStarts>>
FollowSeek ==
  follow.at = "seek" /\ follow' = [follow EXCEPT !.at = "identify", !.pos = logLen[follow.file]] /\ UNCHANGED <<logPath, logLen, logStarts>>
FollowIdentify ==
  /\ follow.at = "identify"
  /\ follow' = [follow EXCEPT !.at = "read", !.id = FileIdentity, !.raced = FileIdentity # follow.file]
  /\ UNCHANGED <<logPath, logLen, logStarts>>
FollowRead ==
  /\ follow.at = "read"
  /\ follow' = [follow EXCEPT !.at = "compare", !.pos = logLen[follow.file], !.current = FileIdentity]
  /\ UNCHANGED <<logPath, logLen, logStarts>>
\* Another file than the one opened, or one shorter than what was read.
OnlyTruncated(id, current, pos, len) == len # -1 /\ len < pos
LogWasReplaced(id, current, pos, len) == (current # 0 /\ current # id) \/ (len # -1 /\ len < pos)
FollowCompare ==
  LET len == IF logPath = 0 THEN -1 ELSE logLen[logPath] IN
  /\ follow.at = "compare"
  /\ follow' = IF LogWasReplaced(follow.id, follow.current, follow.pos, len) /\ logPath # 0
               THEN [follow EXCEPT !.at = "read", !.file = logPath, !.pos = 0, !.id = follow.current]
               ELSE [follow EXCEPT !.at = "read"]
  /\ UNCHANGED <<logPath, logLen, logStarts>>

FollowStep == FollowOpen \/ FollowSeek \/ FollowIdentify \/ FollowRead \/ FollowCompare
LogMoves == LogRemoved \/ LogCreated \/ LogWritten
FollowNext == FollowStep \/ LogMoves

\* A follower never goes silent: however often netbootd is restarted meanwhile, the reader
\* ends up on the log that is there and at its end. It may stay on a log replaced before
\* its first look at the file's identity.
FollowerArrives ==
  <>[](follow.at = "ended" \/ follow.raced \/ logPath = 0 \/ (follow.file = logPath /\ follow.pos = logLen[logPath]))
=============================================================================
