------------------------------- MODULE Console -------------------------------
(***************************************************************************)
(* `paniolo console` (src/cli/src/main.rs): the command that brings up a   *)
(* target's video, serial and hid daemons, here or on the host that has    *)
(* the channels, gathers their ports and tokens into one dashboard URL,    *)
(* through ssh tunnels when they are elsewhere (ssh.rs), and hands the URL *)
(* to its reader without letting it into a transcript.  Daemons die and    *)
(* are replaced between any two steps; each incarnation has a port and a   *)
(* token of its own.                                                       *)
(***************************************************************************)
EXTENDS Integers, Sequences, FiniteSets

CONSTANTS
    ConsoleCases,   \* [remote, split, serial, hid, rfb, open, print, ssh, opener, file]:
                    \* where the channels are and which the target has, the
                    \* switches, and what this machine can do
    MaxInc,         \* bound: incarnations of one daemon
    ConsoleFaults   \* bound: starts, tunnels and daemons that fail

ASSUME ConsoleAssumption ==
    /\ MaxInc \in Nat \ {0} /\ ConsoleFaults \in Nat
    /\ \A c \in ConsoleCases : c.hid \in {"none", "here", "elsewhere"}

Legs == {"video", "serial", "hid"}

VARIABLES
    scene,          \* one of ConsoleCases
    up,             \* leg -> incarnation that runs and is discovered, 0 none
    born,           \* leg -> incarnations so far
    step,           \* where the command is
    ends,           \* leg -> the endpoint the command has: [port, token, via], or none
    tunnels,        \* leg -> [to, live] of the ssh child it holds
    told,           \* what reached the reader
    consoleFaults

consoleVars == <<scene, up, born, step, ends, tunnels, told, consoleFaults>>

NoEnd == [port |-> 0, token |-> 0, via |-> "none"]
NoTunnel == [to |-> 0, live |-> FALSE]
Silent == [browser |-> FALSE, printed |-> FALSE, file |-> FALSE, hint |-> {}]

ConsoleInit ==
    /\ scene \in ConsoleCases
    /\ up \in [Legs -> {0, 1}] /\ born = up
    /\ step = "host"
    /\ ends = [l \in Legs |-> NoEnd] /\ tunnels = [l \in Legs |-> NoTunnel]
    /\ told = Silent /\ consoleFaults = ConsoleFaults

Broken == consoleFaults > 0 /\ consoleFaults' = consoleFaults - 1
Kept == UNCHANGED consoleFaults
Goto(s) == step' = s

(* Any return from remote_console drops what it holds. *)
ForwardKept == UNCHANGED tunnels
ForwardDropped == tunnels' = [l \in Legs |-> NoTunnel]
Fail == step' = "failed" /\ ForwardDropped

Started(l) ==
    /\ up[l] = 0 /\ born[l] < MaxInc
    /\ up' = [up EXCEPT ![l] = born[l] + 1] /\ born' = [born EXCEPT ![l] = @ + 1]
Ensured(l) == Started(l) \/ (up[l] # 0 /\ UNCHANGED <<up, born>>)
NotStarted(l) == up[l] = 0 /\ Broken /\ UNCHANGED <<up, born>>
EndpointOf(l) == [port |-> up[l], token |-> up[l], via |-> IF up[l] = 0 THEN "none" ELSE "local"]
HidIsLocal == scene.hid = "here"

----------------------------------------------------------------------------
(* With a serial channel both must share a host. *)
ConsoleHost ==
    /\ step = "host"
    /\ IF scene.serial /\ scene.split THEN Fail
       ELSE Goto(IF scene.remote THEN "watchVideo" ELSE "source") /\ UNCHANGED tunnels
    /\ Kept /\ UNCHANGED <<scene, up, born, ends, told>>

(* The hid daemon first: an rfb+hid: device cannot do without it, another  *)
(* one only loses the view's input.                                        *)
EnsureVideoSource ==
    /\ step = "source"
    /\ \/ up["video"] # 0 /\ Goto("serial") /\ Kept /\ UNCHANGED <<up, born, tunnels>>
       \/ /\ up["video"] = 0 /\ HidIsLocal
          /\ \/ Ensured("hid") /\ Kept /\ Goto("startVideo") /\ UNCHANGED tunnels
             \/ /\ NotStarted("hid")
                /\ IF scene.rfb THEN Fail ELSE Goto("startVideo") /\ UNCHANGED tunnels
       \/ /\ up["video"] = 0 /\ ~HidIsLocal /\ Kept /\ UNCHANGED <<up, born>>
          /\ IF scene.rfb THEN Fail ELSE Goto("startVideo") /\ UNCHANGED tunnels
    /\ UNCHANGED <<scene, ends, told>>

StartVideo ==
    /\ step = "startVideo"
    /\ \/ Ensured("video") /\ Kept /\ Goto("serial") /\ UNCHANGED tunnels
       \/ NotStarted("video") /\ Fail
    /\ UNCHANGED <<scene, ends, told>>
StartSerial ==
    /\ step = "serial"
    /\ \/ ~scene.serial /\ Kept /\ Goto("hid") /\ UNCHANGED <<up, born, tunnels>>
       \/ scene.serial /\ Ensured("serial") /\ Kept /\ Goto("hid") /\ UNCHANGED tunnels
       \/ scene.serial /\ NotStarted("serial") /\ Fail
    /\ UNCHANGED <<scene, ends, told>>
(* The hid leg is optional: its endpoint is taken now, or there is none. *)
StartHid ==
    /\ step = "hid" /\ Goto("read")
    /\ \/ ~HidIsLocal /\ Kept /\ UNCHANGED <<up, born, ends>>
       \/ HidIsLocal /\ Ensured("hid") /\ Kept /\ ends' = [ends EXCEPT !["hid"] = EndpointOf("hid")']
       \/ HidIsLocal /\ NotStarted("hid") /\ UNCHANGED ends
    /\ UNCHANGED <<scene, tunnels, told>>
ReadEndpoints ==
    /\ step = "read"
    /\ IF up["video"] = 0 THEN Fail /\ UNCHANGED ends
       ELSE /\ ends' = [ends EXCEPT !["video"] = EndpointOf("video"),
                                    !["serial"] = IF scene.serial THEN EndpointOf("serial") ELSE NoEnd]
            /\ Goto("show") /\ UNCHANGED tunnels
    /\ Kept /\ UNCHANGED <<scene, up, born, told>>

----------------------------------------------------------------------------
(* Elsewhere: the daemons are started by a command over ssh, then each     *)
(* discovery file is read and its port tunnelled.                          *)

WatchStep == [video |-> "watchVideo", serial |-> "watchSerial"]
SpawnStep == [video |-> "spawnVideo", serial |-> "spawnSerial", hid |-> "spawnHid"]
PollStep == [video |-> "pollVideo", serial |-> "pollSerial", hid |-> "pollHid"]

RemoteWatch(l, next) ==
    /\ step = WatchStep[l]
    /\ \/ Ensured(l) /\ Kept /\ Goto(next) /\ UNCHANGED tunnels
       \/ Broken /\ Fail /\ UNCHANGED <<up, born>>
    /\ UNCHANGED <<scene, ends, told>>

RemoteEndpoint(l, here, next, optional) ==
    /\ step = here
    /\ IF up[l] # 0
       THEN /\ ends' = [ends EXCEPT ![l] = [EndpointOf(l) EXCEPT !.via = "remote"]]
            /\ Goto(SpawnStep[l]) /\ UNCHANGED tunnels
       ELSE /\ UNCHANGED ends
            /\ IF optional THEN Goto(next) /\ UNCHANGED tunnels ELSE Fail
    /\ Kept /\ UNCHANGED <<scene, up, born, told>>

(* forward: ssh -L is spawned on a free local port and polled until it     *)
(* accepts, exits, or 10 s have passed.                                    *)
ForwardSpawn(l) ==
    /\ step = SpawnStep[l] /\ Goto(PollStep[l])
    /\ tunnels' = [tunnels EXCEPT ![l] = [to |-> ends[l].port, live |-> TRUE]]
    /\ Kept /\ UNCHANGED <<scene, up, born, ends, told>>
ForwardAccepts(l, next) ==
    /\ step = PollStep[l] /\ tunnels[l].live /\ Goto(next)
    /\ ends' = [ends EXCEPT ![l] = [port |-> tunnels[l].to, token |-> @.token, via |-> "tunnel"]]
    /\ Kept /\ UNCHANGED <<scene, up, born, tunnels, told>>
ForwardFails(l, next, optional) ==
    /\ step = PollStep[l] /\ Broken
    /\ ends' = [ends EXCEPT ![l] = NoEnd]
    /\ IF optional THEN Goto(next) /\ tunnels' = [tunnels EXCEPT ![l] = NoTunnel] ELSE Fail
    /\ UNCHANGED <<scene, up, born, told>>

(* The hid leg, if its channel is on the same host; every failure of it    *)
(* leaves a console without input.                                         *)
RemoteHidServe ==
    /\ step = "hidServe"
    /\ \/ scene.hid # "here" /\ Kept /\ Goto("show") /\ UNCHANGED <<up, born>>
       \/ scene.hid = "here" /\ Ensured("hid") /\ Kept /\ Goto("readHid")
       \/ scene.hid = "here" /\ Broken /\ Goto("show") /\ UNCHANGED <<up, born>>
    /\ UNCHANGED <<scene, ends, tunnels, told>>

AfterVideo == IF scene.serial THEN "readSerial" ELSE "hidServe"
RemoteConsole ==
    \/ RemoteWatch("video", IF scene.serial THEN "watchSerial" ELSE "readVideo")
    \/ RemoteWatch("serial", "readVideo")
    \/ RemoteEndpoint("video", "readVideo", "failed", FALSE)
    \/ RemoteEndpoint("serial", "readSerial", "failed", FALSE)
    \/ RemoteEndpoint("hid", "readHid", "show", TRUE)
    \/ \E l \in Legs : ForwardSpawn(l)
    \/ ForwardAccepts("video", AfterVideo) \/ ForwardFails("video", "failed", FALSE)
    \/ ForwardAccepts("serial", "hidServe") \/ ForwardFails("serial", "failed", FALSE)
    \/ ForwardAccepts("hid", "show") \/ ForwardFails("hid", "show", TRUE)
    \/ RemoteHidServe

----------------------------------------------------------------------------
(* Handing the dashboard over. *)

(* dashboard_url: the video endpoint, the links, and "serial=none" for a   *)
(* target without the channel.                                             *)
InUrl == {l \in Legs : ends[l].via # "none"}
VideoOnly == ~scene.serial
Ports == InUrl

OverSsh == ~scene.open /\ scene.ssh
OpenInBrowser == scene.opener
WritePrivateUrl == scene.file

ConsoleFallback == [Silent EXCEPT !.file = WritePrivateUrl, !.printed = ~WritePrivateUrl]
ConsoleUrlOverSsh == [Silent EXCEPT !.file = WritePrivateUrl, !.printed = ~WritePrivateUrl]

SshForwardHint == Ports

ShowConsole ==
    /\ step = "show"
    /\ told' =
        IF ~OverSsh /\ OpenInBrowser
        THEN [Silent EXCEPT !.browser = TRUE, !.printed = scene.print]     \* console_banner: no token
        ELSE IF ~OverSsh
        THEN IF scene.print THEN [Silent EXCEPT !.printed = TRUE] ELSE ConsoleFallback
        ELSE [(IF scene.print THEN [Silent EXCEPT !.printed = TRUE] ELSE ConsoleUrlOverSsh)
                EXCEPT !.hint = SshForwardHint]
    /\ Goto(IF scene.remote THEN "holding" ELSE "done")
    /\ Kept /\ UNCHANGED <<scene, up, born, ends, tunnels>>

(* Ctrl-C ends the command and, in its process group, the tunnels. *)
CtrlC ==
    /\ step = "holding" /\ Goto("done") /\ ForwardDropped
    /\ Kept /\ UNCHANGED <<scene, up, born, ends, told>>

(* The daemons' own life: one dies, one is started by someone else; and a  *)
(* tunnel's ssh may end.                                                   *)
Elsewhere ==
    /\ step \notin {"done", "failed"} /\ Broken
    /\ \E l \in Legs :
          \/ up[l] # 0 /\ up' = [up EXCEPT ![l] = 0] /\ UNCHANGED <<born, tunnels>>
          \/ Started(l) /\ UNCHANGED tunnels
          \/ /\ tunnels[l].live /\ tunnels' = [tunnels EXCEPT ![l].live = FALSE]
             /\ UNCHANGED <<up, born>>
    /\ UNCHANGED <<scene, step, ends, told>>

CmdConsole == ConsoleHost \/ EnsureVideoSource \/ StartVideo \/ StartSerial \/ StartHid \/ ReadEndpoints
ConsoleNext == CmdConsole \/ RemoteConsole \/ ShowConsole \/ CtrlC \/ Elsewhere
ConsoleSpec == ConsoleInit /\ [][ConsoleNext]_consoleVars

----------------------------------------------------------------------------
Shown == step \in {"holding", "done"}

(* Type of the variables; no incarnation is older than the ones born.      *)
ConsoleTypeOK ==
    /\ \A l \in Legs : up[l] \in 0..born[l] /\ born[l] \in 0..MaxInc
    /\ \A l \in Legs : ends[l].via \in {"none", "local", "remote", "tunnel"}
    /\ consoleFaults \in 0..ConsoleFaults

(* The URL carries every daemon's token and a transcript is not private:   *)
(* it is printed only when asked for, or when no private file could be     *)
(* written (main.rs 3117-3127, 3151-3163, #196).                           *)
TokenKept == told.printed => scene.print \/ ~WritePrivateUrl

(* Whoever typed the command can open the page: the browser is on their    *)
(* own machine, or the URL was printed or left in the file; over ssh the   *)
(* hint forwards every port the URL names (main.rs 3218-3225, 3267-3304).  *)
ReaderReaches ==
    Shown =>
        /\ told.browser \/ told.printed \/ told.file
        /\ OverSsh => ~told.browser /\ told.hint = InUrl
        /\ "video" \in InUrl

(* In the URL a port and its token are of one incarnation of the daemon,   *)
(* reached as the reader must reach it, through the tunnel the command     *)
(* holds when it is remote; the terminal is dropped only for a target      *)
(* without a serial channel (main.rs 3447-3458, 3500-3516).                *)
LinksAgree ==
    Shown => /\ \A l \in InUrl :
                  /\ ends[l].token = ends[l].port
                  /\ ends[l].via = IF scene.remote THEN "tunnel" ELSE "local"
                  /\ (scene.remote /\ step = "holding") => tunnels[l].to = ends[l].port
             /\ VideoOnly => "serial" \notin InUrl
             /\ (scene.remote /\ scene.serial) => "serial" \in InUrl

(* No ssh child outlives the command, whichever step it failed at (Drop    *)
(* for Forward, ssh.rs 479-484).                                           *)
NoTunnelLeft == step \in {"done", "failed"} => \A l \in Legs : tunnels[l] = NoTunnel

\* While daemons restart under it, the console URL is whole, reachable by its reader, told to
\* nobody else, and its tunnels end with the command (main.rs console, ssh.rs Forward).
ConsoleIsSafe ==
  /\ ConsoleTypeOK
  /\ TokenKept
  /\ ReaderReaches
  /\ LinksAgree
  /\ NoTunnelLeft
=============================================================================
