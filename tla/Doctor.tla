------------------------------- MODULE Doctor -------------------------------
(***************************************************************************)
(* paniolo doctor: where helpers are searched for, what the probes of a    *)
(* host conclude, and a helper's own health check, derived from a hook and *)
(* run with a deadline. The probes are questions about one host, so each   *)
(* behaviour is one case of them; the health check is a process.           *)
(***************************************************************************)
EXTENDS Integers, Sequences, FiniteSets, SequencesExt

CONSTANTS Exams,   \* cases: [kind |-> "site" | "drift" | "hook" | "channel", ...]
          Secs,    \* HELPER_DOCTOR_TIMEOUT, in seconds
          Slowest  \* bound: a helper may run this many half seconds

Dirs == {"user", "keg", "system", "plugin", "relative", "path", "cargo"}
ASSUME DoctorAssumption ==
  /\ Secs \in Nat /\ Slowest \in Nat
  /\ \A x \in Exams : x.kind = "site" => x.has \in [Dirs -> {"none", "file", "exec"}]

VARIABLES exam,   \* the case
          check   \* the health check under way

doctorVars == <<exam, check>>

(***************************************************************************)
(* Searching. exam.has: directory -> "none", "file" (not executable) or    *)
(* "exec".                                                                 *)
(***************************************************************************)
Bundled == <<"user", "keg", "system">>
\* parse_plugin_path: a relative root is not searched.
PluginDir(d) == IF d = "relative" THEN << >> ELSE <<d>>
PluginDirs == PluginDir("plugin") \o PluginDir("relative")
WithPlugins == Bundled \o PluginDirs
SearchDirsBundled == Bundled \o <<"path", "cargo">>
SearchDirs == WithPlugins \o <<"path", "cargo">>
HookPath == WithPlugins \o <<"path">>
FirstMatch(dirs, has, is) ==
  LET first == SelectInSeq(dirs, LAMBDA d : has[d] \in is) IN IF first = 0 THEN "none" ELSE dirs[first]
FindBinary(has) == FirstMatch(SearchDirs, has, {"file", "exec"})
\* helper_entries: whose a listed helper is, and the plugin roots that lost.
HelperEntry(has) ==
  IF \E d \in ToSet(Bundled) : has[d] # "none" THEN "bundled"
  ELSE IF has["plugin"] # "none" THEN "plugin" ELSE "unlisted"
\* sh -c with hook_path, and the script sent to another host: executables, in order.
ShellFinds(has) == FirstMatch(HookPath, has, {"exec"})
RemoteFinds(has) == FirstMatch(SelectSeq(HookPath, LAMBDA d : d # "keg"), has, {"exec"})

\* interpret: an exit status of a probe; -1 is no answer.
Interpret(rc) == IF rc \in {-1, 255} THEN "unreachable" ELSE IF rc = 0 THEN "ok" ELSE "missing"
OnHookPath(x) ==
  IF x.far THEN (IF ~x.up THEN 255 ELSE IF RemoteFinds(x.has) # "none" THEN 0 ELSE 1)
  ELSE IF FindBinary(x.has) # "none" THEN 0 ELSE 1

(***************************************************************************)
(* A netboot link that has drifted. exam: [holds, tool, far, up].          *)
(***************************************************************************)
NetbootIpDrift(holds) == IF "host" \in holds \/ holds = {} THEN "fine" ELSE "drifted"
\* iface_addresses has none when the tool fails.
LocalDrift(x) == NetbootIpDrift(IF x.tool THEN x.holds ELSE {})
HoldsScript(x) == IF ~x.up THEN 255 ELSE IF ~x.tool THEN 3 ELSE IF NetbootIpDrift(x.holds) = "fine" THEN 0 ELSE 1
DriftFromProbe(status, printed) ==
  IF status = 0 THEN "fine" ELSE IF status \in {255, 3} \/ ~printed THEN "unknown" ELSE "drifted"
DriftVerdict(x) == IF x.far THEN DriftFromProbe(HoldsScript(x), HoldsScript(x) = 1 /\ ~x.died) ELSE LocalDrift(x)
DriftStatus(drift) == CASE drift = "fine" -> "ok" [] drift = "unknown" -> "unreachable" [] drift = "drifted" -> "mismatch"
\* check_channel of a netboot channel: the interface, a clash of subnets, then the drift.
NetbootStatus(x) ==
  IF x.iface # 0 THEN Interpret(x.iface) ELSE IF x.clash THEN "conflict" ELSE DriftStatus(DriftVerdict(x))

(***************************************************************************)
(* The command of a health check. A hook is words: "assign", "prog", an    *)
(* option that takes a value ("opt"), one with it attached ("opt="), the   *)
(* one switch that is known ("known"), "value", "verb", "--", "op" (a      *)
(* shell operator).                                                        *)
(***************************************************************************)
OptionTakesValue(w) == w = "opt"
AfterAssignments(ws) ==
  LET names == SelectInSeq(ws, LAMBDA w : w # "assign") IN IF names = 0 THEN Len(ws) ELSE names
\* Left to right: options and their values are kept, the first other word ends it.
KeptOptions(ws, from) ==
  LET step(acc, i) ==
        IF i <= acc.end \/ acc.over THEN acc
        ELSE IF ws[i] \notin {"opt", "opt=", "known"} THEN [acc EXCEPT !.over = TRUE]
        ELSE [acc EXCEPT !.end = IF OptionTakesValue(ws[i]) /\ i < Len(ws) THEN i + 1 ELSE i]
  IN FoldLeft(step, [end |-> from, over |-> FALSE], [i \in 1..Len(ws) |-> i]).end
DoctorCommandForHook(ws) ==
  IF "op" \in ToSet(ws) \/ ToSet(ws) \subseteq {"assign"} THEN << >>
  ELSE SubSeq(ws, 1, KeptOptions(ws, AfterAssignments(ws))) \o <<"doctor">>
DoctorCommandForPrefix(ws) ==
  IF "op" \in ToSet(ws) \/ ToSet(ws) \subseteq {"assign"} THEN << >> ELSE ws \o <<"doctor">>
\* What the helper then does: its own parser's first word after the options.
HelperRuns(ws) ==
  LET step(acc, w) ==
        IF acc.does # "none" THEN acc
        ELSE IF acc.value THEN [acc EXCEPT !.value = FALSE]
        ELSE IF w \in {"assign", "prog", "opt=", "known", "--"} THEN acc
        ELSE IF w = "opt" THEN [acc EXCEPT !.value = TRUE] ELSE [acc EXCEPT !.does = w]
  IN FoldLeft(step, [does |-> "none", value |-> FALSE], ws).does

HelperDoctorCommands(cmds) == FoldLeft(LAMBDA acc, c : IF c \in ToSet(acc) THEN acc ELSE Append(acc, c), << >>, cmds)
\* channel_rows: a helper is asked only when the channel's own check passed and it opted in.
ChannelRows(x) == <<x.own>> \o IF x.own = "ok" /\ x.doctor THEN HelperDoctorCommands(x.cmds) ELSE << >>

(***************************************************************************)
(* The health check as a process, in half seconds. The helper may print a  *)
(* report, leave a process that holds its output open, and take its time.  *)
(***************************************************************************)
NoCheck == [far |-> FALSE, at |-> "off", t0 |-> 0, now |-> 0, printed |-> "nothing", holds |-> FALSE, helper |-> "none", child |-> FALSE, rc |-> -1, killed |-> FALSE, verdict |-> "none"]
CheckInit ==
  \E f, c \in BOOLEAN : \E t \in 0..1 :
    check = [NoCheck EXCEPT !.far = f, !.at = "running", !.t0 = t, !.now = t, !.helper = "up", !.child = c]
\* The helper: prints, exits.
HelperPrints ==
  /\ check.helper = "up" /\ check.printed = "nothing"
  /\ \E p \in {"report", "junk"} : check' = [check EXCEPT !.printed = p]
HelperExits ==
  /\ check.helper = "up"
  /\ \E code \in {0, 2} : \E holds \in {FALSE, check.child} :
       check' = [check EXCEPT !.helper = "gone", !.rc = code, !.child = holds, !.holds = holds]
Kills(c) == [c EXCEPT !.helper = "gone", !.rc = 137, !.killed = TRUE, !.child = IF c.far THEN @ ELSE FALSE]
WatchdogFires == check.helper = "up" /\ check.now - check.t0 >= 2 * Secs /\ check' = Kills(check)
TimedOut(c) == IF c.far THEN c.rc # 0 /\ c.now \div 2 - c.t0 \div 2 >= Secs ELSE c.killed
Output(c) == IF c.killed \/ (c.holds /\ ~c.far) THEN "nothing" ELSE c.printed
InterpretHelperDoctor(c) ==
  IF Output(c) = "report" THEN "checks"
  ELSE IF TimedOut(c) THEN "timed_out"
  ELSE IF c.rc = 0 THEN "malformed" ELSE "no_check"
CheckEnds ==
  /\ check.at = "running" /\ check.helper = "gone"
  /\ check' = [check EXCEPT !.at = "done", !.verdict = InterpretHelperDoctor(check)]
\* Time: a check that is due does not wait.
CheckTicks ==
  /\ check.at = "running" /\ check.helper = "up" /\ check.now < Slowest /\ check.now - check.t0 < 2 * Secs
  /\ check' = [check EXCEPT !.now = @ + 1]
CheckNext == (HelperPrints \/ HelperExits \/ WatchdogFires \/ CheckEnds \/ CheckTicks) /\ UNCHANGED exam
DoctorSpec == exam \in Exams /\ CheckInit /\ [][CheckNext]_doctorVars
CheckStep == (WatchdogFires \/ CheckEnds \/ CheckTicks) /\ UNCHANGED exam

(***************************************************************************)
(* What the doctor promises.                                               *)
(***************************************************************************)
\* A plugin adds a helper and never replaces one; the list names what would run.
BundledWins ==
  exam.kind = "site" =>
    /\ (\E d \in ToSet(Bundled) : exam.has[d] # "none") => FindBinary(exam.has) \in ToSet(Bundled)
    /\ HelperEntry(exam.has) = "plugin" => FindBinary(exam.has) = "plugin"
    /\ ShellFinds(exam.has) = "plugin" => \A d \in ToSet(Bundled) : exam.has[d] # "exec"

\* The doctor searches its own way and the shell that runs a hook another: a program a hook
\* on this host does find is never called missing.
NoFalseAlarm ==
  exam.kind = "site" /\ ~exam.far /\ ShellFinds(exam.has) # "none" => Interpret(OnHookPath(exam)) = "ok"

\* A mismatch is claimed only of an address that was read; and on another host no link that
\* drifted reads as fine, whatever tools it has.
MismatchIsReal ==
  exam.kind = "drift" =>
    /\ NetbootStatus(exam) = "mismatch" => NetbootIpDrift(exam.holds) = "drifted"
    /\ exam.far /\ NetbootStatus(exam) = "ok" => NetbootIpDrift(exam.holds) = "fine"

\* The check derived from a hook asks for the check: the hook's own verb is never run again.
CheckRunsNoVerb ==
  exam.kind = "hook" =>
    /\ HelperRuns(DoctorCommandForHook(exam.words)) \in {"doctor", "none"}
    /\ HelperRuns(exam.words) = "none" => HelperRuns(DoctorCommandForPrefix(exam.words)) \in {"doctor", "none"}
\* A helper named by several hooks is asked once, and one that is not there not at all.
AskedOnce ==
  exam.kind = "channel" =>
    /\ IsInjective(Tail(ChannelRows(exam)))
    /\ exam.own # "ok" => Len(ChannelRows(exam)) = 1
    /\ exam.own = "ok" /\ exam.doctor => ToSet(Tail(ChannelRows(exam))) = ToSet(exam.cmds)

\* A helper killed at its deadline is reported as that, on this host and on another, at any
\* fraction of a second; it is never taken for one without a check.
KilledIsTimedOut == check.at = "done" /\ check.killed => check.verdict = "timed_out"
\* Nothing that a check started here runs on after its deadline.
KilledWhole == check.at = "done" /\ check.killed /\ ~check.far => ~check.child
\* A report that was printed counts, unless something still holds the pipe.
ReportCounts == check.at = "done" /\ check.printed = "report" /\ ~check.killed /\ ~check.holds => check.verdict = "checks"
\* A check is never a hang.
CheckIsAnswered == check.at = "running" ~> check.at = "done"

\* The doctor finds what a hook would find, and what it reports of a link, a helper and a
\* deadline is what it saw (doctor.rs).
DoctorIsRight ==
  /\ BundledWins
  /\ NoFalseAlarm
  /\ MismatchIsReal
  /\ KilledIsTimedOut
  /\ KilledWhole
  /\ ReportCounts
=============================================================================
