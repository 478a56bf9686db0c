------------------------------- MODULE Hooks -------------------------------
(***************************************************************************)
(* Power and action hooks: opaque shell commands that drive one exclusive  *)
(* device, each run under the target's lock file. A hook may itself run    *)
(* paniolo; the environment tells the nested command whose lock is held.   *)
(* A power cycle is confirmed by reading the state back.                   *)
(***************************************************************************)
EXTENDS Integers, Sequences, FiniteSets

CONSTANTS Tops,      \* commands a user starts
          Parent,    \* nested command -> the command whose hook runs it
          Boards,    \* targets
          Benches,   \* what may be asked: [job : command -> [verb, target, level, needs], source]
          LockWait,  \* LOCK_WAIT, in polls
          ConfirmBy, \* POWER_CYCLE_DEADLINE, in polls
          MaxU       \* the largest u64


VARIABLES bench,   \* the jobs, the power levels and their hooks, whether power is wired to
                   \* another host than the actions; fixed
          hook,    \* per command: where it is
          lockOf,  \* per host and target: which command has the lock file locked
          power,   \* per target: whether it is on
          relay,   \* targets a relay board is still cycling by itself
          press    \* a length of a DTR press, and what power-state prints

hookVars == <<bench, hook, lockOf, power, relay>>

Nested == DOMAIN Parent
HookCmds == Tops \cup Nested
Nobody == "nobody"
Verbs == {"on", "off", "cycle", "state", "action"}

\* A nested command runs in the hook of a user's command, or of a command nested there.
ASSUME HooksAssumption ==
  /\ LockWait \in Nat /\ ConfirmBy \in Nat /\ MaxU \in Nat
  /\ Nobody \notin HookCmds /\ "unset" \notin Boards /\ Tops \cap Nested = {}
  /\ \A n \in Nested : Parent[n] \in Tops \/ (Parent[n] \in Nested /\ Parent[Parent[n]] \in Tops)
  /\ \A b \in Benches : b.far \in BOOLEAN /\ IsFiniteSet(DOMAIN b.levels)
                      /\ \A c \in HookCmds : b.job[c].verb \in Verbs /\ b.job[c].target \in Boards

Job(c) == bench.job[c]
NotConfigured == 3
Timeout == 22
HookFailed == 23

(***************************************************************************)
(* What each command does, in order: check (requires_power), hook, read    *)
(* (power-state), confirm.                                                 *)
(***************************************************************************)
LevelHas(level, key) == key \in bench.levels[level]
CmdPowerOn(level) == IF LevelHas(level, "on") THEN <<"hook">> ELSE << >>
CmdPowerOff(level) == IF LevelHas(level, "off") THEN <<"hook">> ELSE << >>
CmdPowerCycle(level) ==
  IF ~LevelHas(level, "cycle") THEN << >> ELSE IF LevelHas(level, "state") THEN <<"hook", "confirm">> ELSE <<"hook">>
\* Without a level, one read for each level that can be read.
CmdPowerState(level) ==
  IF level = "all" THEN [i \in 1..Cardinality({ l \in DOMAIN bench.levels : LevelHas(l, "state") }) |-> "read"]
  ELSE IF LevelHas(level, "state") THEN <<"read">> ELSE << >>
CmdActionRun(needs) == IF needs = "any" THEN <<"hook">> ELSE <<"check", "hook">>
Steps(j) ==
  CASE j.verb = "on" -> CmdPowerOn(j.level)
    [] j.verb = "off" -> CmdPowerOff(j.level)
    [] j.verb = "cycle" -> CmdPowerCycle(j.level)
    [] j.verb = "state" -> CmdPowerState(j.level)
    [] j.verb = "action" -> CmdActionRun(j.needs)

Waiting == [at |-> "new", todo |-> << >>, polls |-> 0, reads |-> 0, saw |-> "none", err |-> 0, exit |-> -1]
HooksInit ==
  /\ bench \in Benches
  /\ hook = [c \in HookCmds |-> Waiting] /\ lockOf = [w \in {"near", "far"} \X Boards |-> Nobody]
  /\ power \in [Boards -> BOOLEAN] /\ relay = {}

HookEnds(c, code) == hook' = [hook EXCEPT ![c].at = "ended", ![c].exit = code]
Begin(c) ==
  /\ hook[c].at = "new" /\ (c \in Nested => hook[Parent[c]].at = "run" /\ Head(hook[Parent[c]].todo) = "hook")
  /\ IF Steps(Job(c)) = << >> THEN HookEnds(c, NotConfigured)
     ELSE hook' = [hook EXCEPT ![c].at = "lock", ![c].todo = Steps(Job(c))]
  /\ UNCHANGED <<bench, lockOf, power, relay>>

(***************************************************************************)
(* The lock.                                                               *)
(***************************************************************************)
\* The host a step runs on: an action's hook near, what concerns power where power is wired.
HostOf(c, step) == IF bench.far /\ (Job(c).verb # "action" \/ step = "check") THEN "far" ELSE "near"
Lock(c) == <<HostOf(c, Head(hook[c].todo)), Job(c).target>>
\* LOCK_HELD_ENV names the target of the command whose hook this runs in; it does not cross
\* to another host, where a step of this command may run.
HeldEnv(c) ==
  IF c \in Nested /\ HostOf(c, Head(hook[c].todo)) = HostOf(Parent[c], "hook") THEN Job(Parent[c]).target ELSE "unset"
InheritsAny(c) == HeldEnv(c) # "unset"
LockInherited(c) == HeldEnv(c) = Job(c).target

GivesUp(c) == hook[c].polls >= LockWait
HookLock(c) ==
  /\ hook[c].at = "lock"
  /\ \/ LockInherited(c) /\ hook' = [hook EXCEPT ![c].at = "run"] /\ UNCHANGED lockOf
     \/ /\ ~LockInherited(c) /\ lockOf[Lock(c)] = Nobody
        /\ lockOf' = [lockOf EXCEPT ![Lock(c)] = c]
        /\ hook' = [hook EXCEPT ![c].at = "run", ![c].polls = 0]
     \/ /\ ~LockInherited(c) /\ lockOf[Lock(c)] # Nobody /\ UNCHANGED lockOf
        /\ IF GivesUp(c) THEN HookEnds(c, Timeout)
           ELSE hook' = [hook EXCEPT ![c].polls = IF @ < LockWait THEN @ + 1 ELSE @]
  /\ UNCHANGED <<bench, power, relay>>
Drops(c) == lockOf' = [w \in DOMAIN lockOf |-> IF lockOf[w] = c THEN Nobody ELSE lockOf[w]]

(***************************************************************************)
(* Hooks and state reads.                                                  *)
(***************************************************************************)
Onward(c, rest, code) ==
  [hook[c] EXCEPT !.at = IF rest = << >> THEN "ended" ELSE "lock", !.todo = rest, !.exit = IF rest = << >> THEN code ELSE -1]
Doing(c, step) == hook[c].at = "run" /\ Head(hook[c].todo) = step

\* The hook is a process that ends when what it runs has ended. cycle_cmd may return while
\* a relay board still times the off period.
Quiet(c) == \A n \in Nested : Parent[n] = c => hook[n].at \in {"new", "ended", "killed"}
Effect(j) ==
  CASE j.verb = "on" -> power' = [power EXCEPT ![j.target] = TRUE] /\ UNCHANGED relay
    [] j.verb = "off" -> power' = [power EXCEPT ![j.target] = FALSE] /\ UNCHANGED relay
    [] j.verb = "cycle" -> \/ power' = [power EXCEPT ![j.target] = TRUE] /\ UNCHANGED relay
                           \/ power' = [power EXCEPT ![j.target] = FALSE] /\ relay' = relay \cup {j.target}
    [] j.verb = "action" -> UNCHANGED <<power, relay>>
RunHook(c) ==
  /\ Doing(c, "hook") /\ Quiet(c) /\ Drops(c)
  /\ \/ hook' = [hook EXCEPT ![c] = Onward(c, Tail(hook[c].todo), 0)] /\ Effect(Job(c))
     \/ HookEnds(c, HookFailed) /\ UNCHANGED <<power, relay>>
  /\ UNCHANGED bench
RelayDone(t) == t \in relay /\ relay' = relay \ {t} /\ power' = [power EXCEPT ![t] = TRUE] /\ UNCHANGED <<bench, hook, lockOf>>

\* read_state_cmd: on, off, or no verdict; the lock dropped once the hook has spoken.
Reads(c) == {IF power[Job(c).target] THEN "on" ELSE "off", "failed"}
\* power-state: of several levels the first error is kept until every one has been read.
ReadState(c) ==
  /\ Doing(c, "read") /\ Drops(c)
  /\ \E saw \in Reads(c) :
       LET err == IF saw = "failed" THEN HookFailed ELSE hook[c].err IN
       hook' = [hook EXCEPT ![c] = [Onward(c, Tail(hook[c].todo), err) EXCEPT !.err = err]]
  /\ UNCHANGED <<bench, power, relay>>
PowerRefusal == 2
CheckPower(c) ==
  /\ Doing(c, "check") /\ Drops(c)
  /\ \E saw \in Reads(c) :
       IF saw = Job(c).needs THEN hook' = [hook EXCEPT ![c] = [Onward(c, Tail(hook[c].todo), 0) EXCEPT !.saw = saw]]
       ELSE HookEnds(c, IF saw = "failed" THEN HookFailed ELSE PowerRefusal)
  /\ UNCHANGED <<bench, power, relay>>
Late == Timeout
ConfirmPowerOn(c) ==
  /\ Doing(c, "confirm") /\ Drops(c)
  /\ \E saw \in Reads(c) :
       hook' = [hook EXCEPT ![c] =
         IF saw = "off" /\ hook[c].reads < ConfirmBy THEN [Onward(c, hook[c].todo, 0) EXCEPT !.reads = @ + 1]
         ELSE [Onward(c, << >>, [on |-> 0, off |-> Late, failed |-> HookFailed][saw]) EXCEPT !.saw = saw]]
  /\ UNCHANGED <<bench, power, relay>>

\* Ctrl-C reaches the command and all that its hook runs.
Under(c) == { d \in HookCmds : d = c \/ (d \in Nested /\ (Parent[d] = c \/ (Parent[d] \in Nested /\ Parent[Parent[d]] = c))) }
InterruptHook(c) ==
  /\ c \in Tops /\ hook[c].at \in {"lock", "run"}
  /\ hook' = [d \in HookCmds |-> IF d \in Under(c) /\ hook[d].at # "ended" THEN [hook[d] EXCEPT !.at = "killed"] ELSE hook[d]]
  /\ lockOf' = [w \in DOMAIN lockOf |-> IF lockOf[w] \in Under(c) THEN Nobody ELSE lockOf[w]]
  /\ UNCHANGED <<bench, power, relay>>

\* A command that is running goes on; a hook that has nothing left to wait for ends.
HookStep(c) == HookLock(c) \/ RunHook(c) \/ ReadState(c) \/ CheckPower(c) \/ ConfirmPowerOn(c)
HooksNext ==
  \/ \E c \in HookCmds : Begin(c) \/ HookStep(c)
  \/ \E t \in Boards : RelayDone(t)
  \/ \E c \in Tops : InterruptHook(c)

(***************************************************************************)
(* power-state of every level, as another host reads it; a DTR press.      *)
(***************************************************************************)
Lines(st) == <<st.default, st.hard>>
ParsePowerStateLine(lines) == IF lines[1] \in {"on", "off"} THEN lines[1] ELSE "error"

\* dtr_timeout_ms: a floor, and the press and some more, saturating.
Floor == 3
Slack == 1
SaturatingAdd(a, b) == IF a + b > MaxU THEN MaxU ELSE a + b
DtrTimeout(ms) == LET sum == SaturatingAdd(ms, Slack) IN IF sum > Floor THEN sum ELSE Floor
PressInit == press \in [ms : 0..MaxU, default : {"on", "off", "unknown"}, hard : {"on", "off", "unknown"}]

HooksSpec == HooksInit /\ PressInit /\ [][HooksNext /\ UNCHANGED press]_<<hookVars, press>>

(***************************************************************************)
(* What the hooks promise.                                                 *)
(***************************************************************************)
HooksTypeOK ==
  /\ \A w \in DOMAIN lockOf : lockOf[w] \in HookCmds \cup {Nobody}
  /\ power \in [Boards -> BOOLEAN]
  /\ \A c \in HookCmds : hook[c].exit \in {-1, 0, 2, NotConfigured, Timeout, HookFailed} /\ hook[c].polls \in 0..LockWait

\* One exclusive device: whoever drives it has its lock, or runs inside the hook of the
\* command that has it.
Driving(c) == hook[c].at = "run"
DeviceIsExclusive == \A c \in HookCmds : Driving(c) => \E h \in HookCmds : lockOf[Lock(c)] = h /\ c \in Under(h)

\* The lock of a command that is gone is free: whoever has it drives that device.
LockIsHeldByDriver == \A w \in DOMAIN lockOf : lockOf[w] # Nobody => Driving(lockOf[w]) /\ Lock(lockOf[w]) = w

\* A hook that calls back for its own target never waits for its own parent.
NestedNeverWaits ==
  \A n \in Nested : hook[n].at = "lock" /\ ~LockInherited(n) => lockOf[Lock(n)] # Parent[n]

\* A cycle is complete only when the power was read back on, or nothing can read it; an
\* action ran only after the state it requires was read; a level does only what it has.
OutcomeWasRead ==
  \A c \in HookCmds :
    /\ Job(c).verb = "cycle" /\ hook[c].exit = 0 => hook[c].saw = "on" \/ "state" \notin bench.levels[Job(c).level]
    /\ Job(c).verb = "action" /\ Doing(c, "hook") => Job(c).needs \in {"any", hook[c].saw}
LevelsAreKeptApart ==
  \A c \in HookCmds : Job(c).verb \in {"on", "off", "cycle"} /\ Doing(c, "hook") => Job(c).verb \in bench.levels[Job(c).level]

\* Whatever the hooks call, and whoever waits for whom, every command ends.
HookCommandsEnd == \A c \in HookCmds : (hook[c].at # "new") ~> (hook[c].at \in {"ended", "killed"})

\* Another host's power check reads the default level, of an old paniolo too, which prints
\* them all; and a press of any length is over before its request is given up.
VerdictIsDefault == ParsePowerStateLine(Lines(press)) \in {press.default, "error"}
PressFits == DtrTimeout(press.ms) >= press.ms /\ DtrTimeout(press.ms) >= Floor

\* One command at a time drives a device, its own nested hooks excepted, and a power outcome is
\* reported only as it was read (hooks.rs, actions.rs, power.rs).
DevicesAreDrivenSafely ==
  /\ HooksTypeOK
  /\ DeviceIsExclusive
  /\ LockIsHeldByDriver
  /\ NestedNeverWaits
  /\ OutcomeWasRead
  /\ LevelsAreKeptApart
  /\ VerdictIsDefault
  /\ PressFits
=============================================================================
