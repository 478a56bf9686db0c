----------------------------- MODULE DaemonLife -----------------------------
(***************************************************************************)
(* The life of one target's helper daemon (serialcap, hdmicap, or one of   *)
(* the two hid injectors), and of the paniolo commands that start, stop,   *)
(* replace and look for it.  Nothing supervises a daemon: an advisory lock *)
(* keeps a second one out, a discovery record says where the first one is, *)
(* and commands that know nothing of each other read that record, wait,    *)
(* signal and clean up.  A process that dies stays visible, nameless and   *)
(* in possession of its device until the kernel has finished with it, its  *)
(* pid may go to another program, and the record may be aged out of /tmp.  *)
(*                                                                         *)
(* A daemon always gets a pid no daemon had before; only other programs    *)
(* reuse one.  Looking at a process and signalling it is one step.         *)
(***************************************************************************)
EXTENDS Naturals, Sequences, FiniteSets

CONSTANTS Kinds,     \* the daemons a behaviour may be about
          Cmds,      \* paniolo commands running at the same time
          MaxPid,    \* bound: processes ever started
          MaxFaults, \* bound: kills, hangs, reused pids, new builds and agings of /tmp
          Linux      \* TRUE: a running process's own executable can be hashed

ASSUME LifeAssumption ==
  /\ Kinds \subseteq {"serialcap", "hdmicap", "ch9329", "hidrig"}
  /\ MaxPid \in Nat \ {0} /\ MaxFaults \in Nat /\ Linux \in BOOLEAN

VARIABLES which,      \* which daemon this is
          proc,       \* pid -> the process
          disc,       \* the pid in daemon.json (its token is that process's own), 0: no file
          meta,       \* binmeta.json: the pid and the digest recorded at the last spawn
          link,       \* whose terminal the console link leads to, 0: no link
          installed,  \* the build on disk
          faults,     \* how often the bench has interfered
          cmd         \* command -> where it is

lifeVars == <<which, proc, disc, meta, link, installed, faults, cmd>>

Pids == 1..MaxPid
CaptureKinds == {"serialcap", "hdmicap"}

(***************************************************************************)
(* The daemons: what each does from its start to its exit, in order.  The  *)
(* lock file is never unlinked, so the lock is the process's own life.     *)
(***************************************************************************)
SerialcapRun == <<"lock", "publish", "serve", "unpublish", "exit">>
HdmicapRun == <<"lock", "publish", "serve", "unpublish", "exit">>
Ch9329Run == <<"lock", "publish", "serve", "release", "unpublish", "exit">>
HidrigRun ==
  <<"lock", "link", "publish", "serve", "release", "unpublish", "unlink", "exit">>
Run == [serialcap |-> SerialcapRun, hdmicap |-> HdmicapRun, ch9329 |-> Ch9329Run, hidrig |-> HidrigRun][which]

Free == [is |-> "free", pc |-> 0, build |-> 0, locks |-> FALSE, stop |-> FALSE, by |-> {}, wedged |-> FALSE]
Spawned(b) == [Free EXCEPT !.is = "daemon", !.pc = 1, !.build = b]

At(p, step) == proc[p].is = "daemon" /\ ~proc[p].wedged /\ Run[proc[p].pc] = step
Index(step) == CHOOSE i \in 1..Len(Run) : Run[i] = step
\* The device is opened once the lock is held, and is the process's until the kernel is done
\* with it.
HoldsDevice(p) == proc[p].is \in {"daemon", "dying"} /\ proc[p].pc > Index("lock")
Published(p) == proc[p].is = "daemon" /\ proc[p].pc \in (Index("publish") + 1)..Index("unpublish")

\* What a process looks like from outside: whether it is there, and its command line.
Alive(p) == p # 0 /\ proc[p].is \in {"daemon", "dying", "other"}
Cmdline(p) == [daemon |-> which, dying |-> "", other |-> "other", free |-> "", gone |-> ""][proc[p].is]

Step(p) == proc' = [proc EXCEPT ![p].pc = @ + 1]
Dies(f, p) ==
  [f EXCEPT ![p] = [@ EXCEPT !.is = "dying", !.stop = FALSE, !.by = {}, !.wedged = FALSE]]
\* A signal takes effect on whatever process has the pid by then; 0 marks another program's.
Signalled(f, p, sig) ==
  IF f[p].is = "other" THEN [f EXCEPT ![p].by = {0}]
  ELSE IF f[p].is = "daemon" /\ sig = "kill" THEN Dies(f, p)
  ELSE [f EXCEPT ![p].stop = TRUE]

Lock(p) ==
  /\ At(p, "lock")
  /\ IF \E q \in Pids \ {p} : proc[q].locks
     THEN proc' = Dies(proc, p)
     ELSE proc' = [proc EXCEPT ![p].pc = @ + 1, ![p].locks = TRUE]
  /\ UNCHANGED <<disc, link>>
\* A console link left by a daemon that was killed is replaced.
OpenConsole(p) == At(p, "link") /\ link' = p /\ Step(p) /\ UNCHANGED disc
\* The listener may not be bound: the daemon ends before it has published.
Publish(p) ==
  /\ At(p, "publish")
  /\ \/ disc' = p /\ Step(p)
     \/ proc' = Dies(proc, p) /\ UNCHANGED disc
  /\ UNCHANGED link
Shutdown(p) ==
  /\ \/ At(p, "serve") /\ proc[p].stop /\ UNCHANGED <<disc, link>>
     \/ At(p, "release") /\ UNCHANGED <<disc, link>>
     \/ At(p, "unpublish") /\ disc' = 0 /\ UNCHANGED link
     \/ At(p, "unlink") /\ link' = 0 /\ UNCHANGED disc
  /\ Step(p)
Exit(p) == At(p, "exit") /\ proc' = Dies(proc, p) /\ UNCHANGED <<disc, link>>

DaemonGoesOn(p) ==
  /\ Lock(p) \/ OpenConsole(p) \/ Publish(p) \/ Shutdown(p) \/ Exit(p)
  /\ UNCHANGED <<which, meta, installed, faults, cmd>>

\* The kernel finishes with a process: its pid, its lock and its device are free.
Reaped(p) ==
  /\ proc[p].is = "dying"
  /\ proc' = [proc EXCEPT ![p] = [Free EXCEPT !.is = "gone"]]
  /\ UNCHANGED <<which, disc, meta, link, installed, faults, cmd>>

\* What may happen meanwhile: a daemon is killed or stops answering, a pid goes to
\* another program, a new build is installed, /tmp is aged while no command runs.
Fault ==
  \/ /\ \E p \in Pids :
          \/ proc[p].is = "daemon" /\ proc' = Dies(proc, p)
          \/ At(p, "serve") /\ proc' = [proc EXCEPT ![p].wedged = TRUE]
          \/ proc[p].is = "gone" /\ proc' = [proc EXCEPT ![p].is = "other", ![p].build = 3]
     /\ UNCHANGED <<disc, meta, installed>>
  \/ installed = 1 /\ installed' = 2 /\ UNCHANGED <<proc, disc, meta>>
  \/ /\ disc # 0 /\ \A c \in Cmds : cmd[c].at = "idle"
     /\ disc' = 0 /\ meta' = [pid |-> 0, build |-> 0] /\ UNCHANGED <<proc, installed>>
Bench == faults < MaxFaults /\ Fault /\ faults' = faults + 1 /\ UNCHANGED <<which, link, cmd>>

(***************************************************************************)
(* What a command makes of the record, the processes and the binaries.     *)
(***************************************************************************)
\* daemon.json names a live process.
Endpoint == IF disc # 0 /\ Alive(disc) THEN disc ELSE 0

\* Safe to signal: the command line still names the daemon.
RunsOneOf(p) == Alive(p) /\ Cmdline(p) = which
IsNamedProcessPending(p) == Alive(p) /\ Cmdline(p) \in {"", which}

StartDigest(p) ==
  IF Linux /\ proc[p].is # "dying" THEN proc[p].build
  ELSE IF meta.pid = p THEN meta.build ELSE 0
BinaryStatus(p) ==
  IF p = 0 \/ StartDigest(p) = 0 THEN "unknown"
  ELSE IF StartDigest(p) = installed THEN "current" ELSE "changed"

\* Daemon processes of ours that no live record accounts for.
Untracked == { p \in Pids : RunsOneOf(p) /\ p # Endpoint }

Admits(q, token) == token = q

(***************************************************************************)
(* The commands.  A command is where it has got to (`at`), the daemon it   *)
(* replaces (`old`), the orphan it reaped, the record it last read, and    *)
(* the processes it has signalled.                                         *)
(***************************************************************************)
NoCmd == [op |-> "none", at |-> "idle", old |-> 0, orphan |-> 0, rec |-> 0, hit |-> {}]

\* A command that is done, or has failed, is forgotten.
After(r, at) ==
  IF at \in {"idle", "failed"} THEN [NoCmd EXCEPT !.at = at]
  ELSE [r EXCEPT !.at = at, !.rec = 0, !.orphan = IF at = "ready" THEN 0 ELSE r.orphan]
Goes(c, at) == cmd' = [cmd EXCEPT ![c] = After(cmd[c], at)]
Moves(c, op, at) == cmd[c].at = "idle" /\ cmd' = [cmd EXCEPT ![c].op = IF at = "idle" THEN "none" ELSE op, ![c].at = at]
Still == UNCHANGED <<which, link, installed, faults>>
FilesStill == UNCHANGED <<disc, meta>>
OnlyCmd == UNCHANGED proc /\ FilesStill

\* serial watch / video watch: one that runs the current build is left alone.
CmdWatch(c) ==
  /\ which \in CaptureKinds /\ OnlyCmd
  /\ Moves(c, "watch",
       IF Endpoint = 0 THEN "orphan"
       ELSE IF BinaryStatus(Endpoint) = "changed" THEN "old" ELSE "idle")
\* daemons restart: of the daemons the records name.
CmdRestart(c) ==
  which \in CaptureKinds /\ OnlyCmd /\ Moves(c, "restart", IF Endpoint = 0 THEN "idle" ELSE "old")
\* hid serve, console, send: whatever needs the hid daemon starts it.
EnsureHidDaemon(c) ==
  which \notin CaptureKinds /\ OnlyCmd /\ Moves(c, "serve", IF Endpoint = 0 THEN "spawn" ELSE "idle")
CmdHidStop(c) == which \notin CaptureKinds /\ OnlyCmd /\ Moves(c, "hidstop", "old")

\* stop_capture_daemon_and_wait reads the record again before it asks the helper.
OldPid(c) ==
  /\ cmd[c].at = "old" /\ OnlyCmd
  /\ cmd' = [cmd EXCEPT ![c].old = Endpoint, ![c].at = "discover"]

AfterStop(c) ==
  IF cmd[c].old # 0 THEN "wait"
  ELSE IF cmd[c].op = "hidstop" THEN "idle"
  ELSE IF cmd[c].op = "watch" THEN "orphan" ELSE "spawn"

\* The helper's own `stop`: it reads the record, and the capture daemons' reap a stale one.
Discover(c) ==
  /\ cmd[c].at = "discover" /\ OnlyCmd
  /\ cmd' = [cmd EXCEPT ![c].rec = IF Alive(disc) THEN disc ELSE 0,
               ![c].at = IF disc # 0 /\ Alive(disc) THEN "post"
                         ELSE IF disc # 0 /\ which \in CaptureKinds THEN "reapfile" ELSE AfterStop(c)]
DiscoverReaps(c) ==
  cmd[c].at = "reapfile" /\ disc' = 0 /\ Goes(c, AfterStop(c)) /\ UNCHANGED <<proc, meta>>
\* POST /stop goes to whatever listens on the recorded port by now.
RequestStop(c) ==
  /\ cmd[c].at = "post" /\ FilesStill
  /\ \/ \E q \in Pids :
          /\ Published(q) /\ ~proc[q].wedged /\ Admits(q, cmd[c].rec)
          /\ proc' = [proc EXCEPT ![q].stop = TRUE, ![q].by = @ \cup {cmd[c].rec}]
          /\ Goes(c, AfterStop(c))
     \/ UNCHANGED proc /\ Goes(c, IF cmd[c].op = "hidstop" THEN "failed" ELSE AfterStop(c))

\* wait_for_daemon_exit: five seconds, then SIGKILL, two seconds more, then give up.
Waited(c, p, gone, again) ==
  /\ FilesStill
  /\ \/ ~IsNamedProcessPending(p) /\ Goes(c, gone) /\ UNCHANGED proc
     \/ /\ IsNamedProcessPending(p)
        /\ proc' = IF RunsOneOf(p) /\ again # "failed" THEN Signalled(proc, p, "kill") ELSE proc
        /\ Goes(c, again)
WaitForExit(c) ==
  \/ cmd[c].at = "wait" /\ Waited(c, cmd[c].old, "cleanread", "killed")
  \/ cmd[c].at = "killed" /\ Waited(c, cmd[c].old, "cleanread", "failed")

Replaces(c) == IF cmd[c].op = "hidstop" THEN "idle" ELSE "spawn"
\* remove_discovery_for_pid: read, compare, remove.
CleanRead(c) ==
  /\ cmd[c].at = "cleanread" /\ OnlyCmd
  /\ Goes(c, IF disc = cmd[c].old THEN "clean" ELSE Replaces(c))
Clean(c) == cmd[c].at = "clean" /\ disc' = 0 /\ Goes(c, Replaces(c)) /\ UNCHANGED <<proc, meta>>

\* reap_untracked: TERM, five seconds, KILL, two seconds; it waits for the name to go.
Orphan(c) ==
  /\ cmd[c].at = "orphan" /\ FilesStill
  /\ \/ Untracked = {} /\ Goes(c, "spawn") /\ UNCHANGED proc
     \/ \E p \in Untracked :
          /\ proc' = Signalled(proc, p, "term")
          /\ cmd' = [cmd EXCEPT ![c].orphan = p, ![c].at = "reap"]
ReapUntracked(c) ==
  LET p == cmd[c].orphan IN
  /\ FilesStill
  /\ \/ cmd[c].at \in {"reap", "reapkill"} /\ ~RunsOneOf(p) /\ Goes(c, "spawn") /\ UNCHANGED proc
     \/ cmd[c].at = "reap" /\ RunsOneOf(p) /\ proc' = Signalled(proc, p, "kill") /\ Goes(c, "reapkill")
     \/ cmd[c].at = "reapkill" /\ RunsOneOf(p) /\ Goes(c, "failed") /\ UNCHANGED proc

\* The pid is the next one; the capture daemons' executable is recorded after the spawn.
StartDaemon(c) ==
  /\ cmd[c].at = "spawn"
  /\ \E p \in Pids :
       /\ proc[p].is = "free" /\ \A q \in 1..(p - 1) : proc[q].is # "free"
       /\ proc' = [proc EXCEPT ![p] = Spawned(installed)]
       /\ meta' = IF which \in CaptureKinds THEN [pid |-> p, build |-> installed] ELSE meta
  /\ Goes(c, "ready") /\ UNCHANGED disc
OutOfPids(c) ==
  cmd[c].at = "spawn" /\ (\A p \in Pids : proc[p].is # "free") /\ Goes(c, "failed") /\ OnlyCmd
\* Five seconds for a record that does not name the daemon being replaced.
WaitForStarted(c) ==
  /\ cmd[c].at = "ready" /\ OnlyCmd
  /\ \/ Endpoint \notin {0, cmd[c].old} /\ Goes(c, "idle")
     \/ Goes(c, "failed")

\* daemons stop: what the records name, with --all also what they do not; TERM, three
\* seconds, then with --force (here: with --all) KILL.
Victims(op) == { p \in Pids : RunsOneOf(p) /\ (p = Endpoint \/ op = "stopall") }
CmdDaemonsStop(c) ==
  /\ cmd[c].at = "idle" /\ FilesStill
  /\ \E op \in {"stop", "stopall"} :
       /\ proc' = [p \in Pids |-> IF p \in Victims(op) THEN Signalled(proc, p, "term")[p] ELSE proc[p]]
       /\ cmd' = [cmd EXCEPT ![c].op = op, ![c].at = "grace", ![c].hit = Victims(op)]
\* Who is still the daemon after the grace; a recycled pid is not.
StillThere(hit) == { p \in hit : Alive(p) }
StillIt(hit) == { p \in hit : RunsOneOf(p) }
StopGraceLenient(c) ==
  /\ cmd[c].at = "grace" /\ FilesStill /\ Goes(c, "idle") /\ UNCHANGED proc
StopGrace(c) ==
  LET left == StillIt(cmd[c].hit) IN
  /\ cmd[c].at = "grace" /\ FilesStill
  /\ IF cmd[c].op = "stopall"
     THEN /\ proc' = [p \in Pids |-> IF p \in left THEN Signalled(proc, p, "kill")[p] ELSE proc[p]]
          /\ Goes(c, "idle")
     ELSE Goes(c, IF left = {} THEN "idle" ELSE "failed") /\ UNCHANGED proc

\* A failure is seen; the terminal may run the next one.
Prompt(c) == cmd[c].at = "failed" /\ Goes(c, "idle") /\ OnlyCmd

Runs(c) ==
  /\ \/ CmdWatch(c) \/ CmdRestart(c) \/ EnsureHidDaemon(c) \/ CmdHidStop(c) \/ CmdDaemonsStop(c) \/ Prompt(c)
  /\ Still
Command(c) ==
  /\ \/ OldPid(c) \/ Discover(c) \/ DiscoverReaps(c) \/ RequestStop(c) \/ WaitForExit(c)
     \/ CleanRead(c) \/ Clean(c) \/ Orphan(c) \/ ReapUntracked(c) \/ StartDaemon(c)
     \/ OutOfPids(c) \/ WaitForStarted(c) \/ StopGrace(c)
  /\ Still

LifeInit ==
  /\ which \in Kinds
  /\ proc = [p \in Pids |-> Free] /\ disc = 0 /\ meta = [pid |-> 0, build |-> 0] /\ link = 0
  /\ installed = 1 /\ faults = 0 /\ cmd = [c \in Cmds |-> NoCmd]
LifeNext ==
  (\E p \in Pids : DaemonGoesOn(p) \/ Reaped(p)) \/ Bench \/ (\E c \in Cmds : Runs(c) \/ Command(c))
LifeSpec == LifeInit /\ [][LifeNext]_lifeVars

\* Every variable stays in its range.
LifeTypeOK ==
  /\ which \in Kinds /\ disc \in 0..MaxPid /\ link \in 0..MaxPid
  /\ proc \in [Pids -> [is : {"free", "daemon", "dying", "gone", "other"}, pc : 0..Len(Run), build : 0..3,
                        locks : BOOLEAN, stop : BOOLEAN, by : SUBSET (0..MaxPid), wedged : BOOLEAN]]
  /\ meta \in [pid : 0..MaxPid, build : 0..2] /\ installed \in 1..2 /\ faults \in 0..MaxFaults
  /\ \A c \in Cmds : cmd[c].old \in 0..MaxPid /\ cmd[c].orphan \in 0..MaxPid /\ cmd[c].rec \in 0..MaxPid

\* However starts, stops, kills and restarts of several commands interleave, two
\* processes never hold the capture device (acquire_lock, and a lock file that shutdown
\* leaves in place).
OneOwner == \A p, q \in Pids : HoldsDevice(p) /\ HoldsDevice(q) => p = q

\* While a daemon is up, the files in its runtime directory are its own or gone: no start
\* that lost the race for the lock, and no daemon on its way out, overwrites or leads away
\* its record or its console link (run, open_console_bridge, shutdown_cleanup).
RuntimeFilesAreTheHolders ==
  \A p \in Pids : Published(p) =>
    disc \in {0, p} /\ (which = "hidrig" => link = p)

\* A command that replaces a running daemon spawns the replacement only after the old
\* process has let go of the device, be it wedged, killed, or dead and not yet reaped
\* (wait_for_daemon_exit, named_process_pending; GitHub #193).
ReplacementWaits ==
  \A c \in Cmds : cmd[c].at = "spawn" /\ cmd[c].old # 0 => ~HoldsDevice(cmd[c].old)

\* No signal meant for a daemon reaches the program that has its pid by now, however long
\* the command waited in between (pid_runs_one_of before every signal).
InnocentSpared == \A p \in Pids : proc[p].is = "other" => 0 \notin proc[p].by

\* A graceful stop is obeyed only by the daemon whose record the helper read, whoever
\* listens on the port by then (request_stop, auth::require).
StopReachesItsAuthor == \A p \in Pids : proc[p].is = "daemon" => proc[p].by \subseteq {p}

\* A daemon is called stale, and restarted for it, only when the build it runs differs from
\* the installed one, and called current only when it does not: the record of another start
\* proves nothing (compare_binary, record_binmeta).
VerdictIsTrue ==
  \A p \in Pids : proc[p].is = "daemon" /\ p = disc =>
    /\ BinaryStatus(p) = "changed" => proc[p].build # installed
    /\ BinaryStatus(p) = "current" => proc[p].build = installed

\* daemons stop reports success only when none of the daemons it was to stop still runs.
StoppedIsStopped ==
  [][\A c \in Cmds : StopGrace(c) /\ cmd'[c].at = "idle" =>
       \A p \in cmd[c].hit : proc'[p].is # "daemon"]_lifeVars

\* However starts, stops, kills and pid reuse of several commands interleave, one process has the
\* device, the runtime files are its own, and no signal or stop reaches another.
OneDaemonAndItsFiles ==
  /\ LifeTypeOK
  /\ OneOwner
  /\ RuntimeFilesAreTheHolders
  /\ ReplacementWaits
  /\ InnocentSpared
  /\ StopReachesItsAuthor
  /\ VerdictIsTrue
=============================================================================
