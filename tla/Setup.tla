-------------------------------- MODULE Setup --------------------------------
(***************************************************************************)
(* `paniolo setup` (src/cli/src/setup.rs) and the skills it installs       *)
(* (skills.rs): the steps of a run from a checkout, of its --rust-only     *)
(* form and of a packaged install, each of which runs tools that may fail, *)
(* on a disk earlier and killed runs, package upgrades and other users     *)
(* left as they did.  A build is the revision of the checkout it was made  *)
(* from; 0 is none.                                                        *)
(***************************************************************************)
EXTENDS Integers, Sequences, FiniteSets, SequencesExt

CONSTANTS
    HelperCrates,   \* HELPER_CRATES, in their order, "netbootd" among them
    Skills,         \* the skills in the checkout
    SetupHosts,     \* [os, gui, foreign, plugin, system]: platform, a lab with
                    \* ocr_mode = "gui", a bpf-helper another user placed, the
                    \* skills a plugin root and a system package hold
    MaxRev, MaxRuns, SetupFaults

Crates == Range(HelperCrates)
SetupSteps == {"groups", "cli", "skills", "drop", "setuid", "ocr", "zigplug", "jetkvm"}

ASSUME SetupAssumption ==
    /\ HelperCrates \in Seq(Crates) /\ IsInjective(HelperCrates) /\ Crates \cap SetupSteps = {}
    /\ "netbootd" \in Crates /\ MaxRev \in Nat \ {0} /\ MaxRuns \in Nat /\ SetupFaults \in Nat
    /\ \A h \in SetupHosts : h.os \in {"macos", "linux"} /\ {h.gui, h.foreign} \subseteq BOOLEAN

VARIABLES
    machine,        \* one of SetupHosts
    rev,            \* the checkout's revision
    libexec,        \* crate -> revision in libexec
    stale,          \* crate -> revision of a copy in ~/.cargo/bin
    helper,         \* the netbootd-bpf-helper file [owner, suid, ours]
    groups, venv, extras,
    skillRev,       \* skill -> revision in the per-user dir
    run,            \* the run of setup under way, or the last one
    runsLeft, setupFaults

diskVars == <<rev, libexec, stale, helper, groups, venv, extras, skillRev>>
setupVars == <<machine, diskVars, run, runsLeft, setupFaults>>

----------------------------------------------------------------------------
(* Which steps a run has: everything that --rust-only may skip is on this  *)
(* list.                                                                   *)

GroupSteps(os) == IF os = "linux" THEN <<"groups">> ELSE <<>>
AfterBuild(os) ==
    IF os = "macos" THEN <<"skills", "drop", "setuid", "ocr", "zigplug", "jetkvm">>
    ELSE <<"skills", "drop", "ocr", "zigplug", "jetkvm">>
SourceSteps(os) == GroupSteps(os) \o AfterBuild(os)
OnTheFastPath(s) == s \in {"skills", "drop"}
RustOnlySkips(os) == {s \in Range(SourceSteps(os)) : ~OnTheFastPath(s)}
PackagedSteps(os) == IF os = "macos" THEN <<"setuid">> ELSE <<"groups">>
Will(s) == IF run.kind = "rust" THEN OnTheFastPath(s) ELSE TRUE

(* The order of run: the groups, every crate, the CLI, then the rest. *)
Todo(kind, os) ==
    IF kind = "packaged" THEN PackagedSteps(os)
    ELSE (GroupSteps(os) \o HelperCrates) \o (<<"cli">> \o AfterBuild(os))

NoRun == [kind |-> "none", todo |-> <<>>, did |-> {}, used |-> {}, ticks |-> {},
         skillsOk |-> FALSE, faults |-> 0, result |-> "none"]
SetupRuns == run.result = "running"
SetupStep == Head(run.todo)
SetupAt(s) == SetupRuns /\ run.todo # <<>> /\ SetupStep = s

SetupInit ==
    /\ machine \in SetupHosts /\ rev = 1
    /\ libexec = [c \in Crates |-> 0]
    /\ stale \in {[c \in Crates |-> 0], [c \in Crates |-> IF c = "netbootd" THEN 1 ELSE 0]}
    /\ helper = [owner |-> IF machine.foreign THEN "other" ELSE "user", suid |-> FALSE,
                 ours |-> ~machine.foreign]
    /\ groups = {} /\ venv = "none" /\ extras = {}
    /\ skillRev = [s \in Skills |-> 0]
    /\ run = NoRun /\ runsLeft = MaxRuns /\ setupFaults = SetupFaults

(* setup from a checkout, plainly or with --rust-only, which a packaged    *)
(* install refuses.                                                        *)
RunKinds(inRepo) == IF inRepo THEN {"full", "rust"} ELSE {"packaged"}
StartRun(kind) ==
    /\ ~SetupRuns /\ runsLeft > 0 /\ runsLeft' = runsLeft - 1
    /\ run' = [NoRun EXCEPT !.kind = kind, !.todo = Todo(kind, machine.os), !.result = "running"]
    /\ UNCHANGED <<machine, diskVars, setupFaults>>

(* A step that goes on, with a tick or without, and one that ends the run. *)
Tools(s) == CASE s \in {"groups", "setuid"} -> {"sudo"} [] s = "zigplug" -> {"uv"}
              [] s = "jetkvm" -> {"go"} [] OTHER -> {}
Passed(ticks) ==
    run' = [run EXCEPT !.todo = Tail(@), !.did = @ \union {SetupStep},
                       !.used = @ \union Tools(SetupStep), !.ticks = @ \union ticks]
Skip == run' = [run EXCEPT !.todo = Tail(@)]
Bail == run' = [run EXCEPT !.result = "failed", !.todo = <<>>]
SetupFault == setupFaults > 0 /\ setupFaults' = setupFaults - 1
FaultedOn(ticks) ==
    /\ SetupFault
    /\ run' = [run EXCEPT !.todo = Tail(@), !.did = @ \union {SetupStep}, !.faults = @ + 1,
                          !.used = @ \union Tools(SetupStep), !.ticks = @ \union ticks]

----------------------------------------------------------------------------
(* The steps. *)

EnsureLinuxGroups ==
    /\ SetupAt("groups")
    /\ \/ ~Will("groups") /\ Skip /\ UNCHANGED <<groups, setupFaults>>
       \/ /\ Will("groups") /\ groups' = {"dialout", "video"}
          /\ Passed({"groups"}) /\ UNCHANGED setupFaults
       \/ /\ Will("groups") /\ \E g \in SUBSET {"dialout", "video"} : groups' = groups \union g
          /\ FaultedOn({})
       \/ Will("groups") /\ SetupFault /\ Bail /\ UNCHANGED groups
    /\ UNCHANGED <<machine, rev, libexec, stale, helper, venv, extras, skillRev, runsLeft>>

(* cargo install --force: netbootd brings its bpf-helper, owned by the     *)
(* user and without the bit.                                               *)
InstallCrate(c) ==
    /\ SetupAt(c)
    /\ \/ /\ libexec' = [libexec EXCEPT ![c] = rev]
          /\ helper' = IF c = "netbootd" THEN [owner |-> "user", suid |-> FALSE, ours |-> TRUE]
                       ELSE helper
          /\ Passed({c}) /\ UNCHANGED setupFaults
       \/ SetupFault /\ Bail /\ UNCHANGED <<libexec, helper>>
    /\ UNCHANGED <<machine, rev, stale, groups, venv, extras, skillRev, runsLeft>>
InstallCli ==
    /\ SetupAt("cli")
    /\ (Passed({"cli"}) /\ UNCHANGED setupFaults) \/ (SetupFault /\ Bail)
    /\ UNCHANGED <<machine, diskVars, runsLeft>>

(* install_bundled copies one guide after the other and stops at the first *)
(* that fails.                                                             *)
GuideCopied(part) == [s \in Skills |-> IF s \in part THEN rev ELSE skillRev[s]]
InstallSkills ==
    /\ SetupAt("skills")
    /\ \/ /\ skillRev' = GuideCopied(Skills)
          /\ run' = [run EXCEPT !.todo = Tail(@), !.did = @ \union {"skills"},
                                !.ticks = @ \union {"skills"}, !.skillsOk = TRUE]
          /\ UNCHANGED setupFaults
       \/ /\ \E part \in SUBSET Skills : skillRev' = GuideCopied(part)
          /\ FaultedOn({})
    /\ UNCHANGED <<machine, rev, libexec, stale, helper, groups, venv, extras, runsLeft>>

DropStaleCopies ==
    /\ SetupAt("drop")
    /\ \/ stale' = [c \in Crates |-> 0] /\ Passed({"drop"}) /\ UNCHANGED setupFaults
       \/ /\ \E kept \in SUBSET Crates :
                stale' = [c \in Crates |-> IF c \in kept THEN stale[c] ELSE 0]
          /\ FaultedOn({})
    /\ UNCHANGED <<machine, rev, libexec, helper, groups, venv, extras, skillRev, runsLeft>>

(* Only the invoking user's own file, or the one an earlier run promoted,  *)
(* is promoted; both sudo calls are made whatever the first one did.       *)
AnySafe == TRUE
HelperSafeToSetuid == helper.owner = "user" \/ (helper.owner = "root" /\ helper.suid)
Chown(ok) == IF ok THEN "root" ELSE helper.owner
SetuidBpfHelper ==
    /\ SetupAt("setuid")
    /\ \/ ~Will("setuid") /\ Skip /\ UNCHANGED <<helper, setupFaults>>
       \/ /\ Will("setuid") /\ ~HelperSafeToSetuid /\ Passed({})
          /\ UNCHANGED <<helper, setupFaults>>
       \/ /\ Will("setuid") /\ HelperSafeToSetuid
          /\ helper' = [helper EXCEPT !.owner = Chown(TRUE), !.suid = TRUE]
          /\ Passed({"setuid"}) /\ UNCHANGED setupFaults
       \/ /\ Will("setuid") /\ HelperSafeToSetuid
          /\ \E chown, chmod \in BOOLEAN :
                /\ ~(chown /\ chmod)
                /\ helper' = [helper EXCEPT !.owner = Chown(chown), !.suid = @ \/ chmod]
          /\ FaultedOn({})
    /\ UNCHANGED <<machine, rev, libexec, stale, groups, venv, extras, skillRev, runsLeft>>

(* The OCR helper, and on Linux the venv a lab asks for: made, filled,     *)
(* then its opencv replaced.                                               *)
LabWantsGuiOcr == machine.gui
VenvWanted == machine.os = "linux" /\ LabWantsGuiOcr /\ venv = "none"
InstallRapidocrVenv(ok) ==
    venv' \in IF ~VenvWanted THEN {venv} ELSE IF ok THEN {"full"} ELSE {"none", "bare", "pip"}
OcrHelper ==
    /\ SetupAt("ocr")
    /\ \/ ~Will("ocr") /\ Skip /\ UNCHANGED <<extras, venv, setupFaults>>
       \/ /\ Will("ocr") /\ extras' = extras \union {"ocr"}
          /\ InstallRapidocrVenv(TRUE)
          /\ Passed({"ocr"} \union IF venv' # "none" THEN {"venv"} ELSE {})
          /\ UNCHANGED setupFaults
       \/ /\ Will("ocr") /\ VenvWanted /\ extras' = extras \union {"ocr"}
          /\ InstallRapidocrVenv(FALSE)
          /\ FaultedOn({"ocr"})
       \/ Will("ocr") /\ machine.os = "macos" /\ FaultedOn({}) /\ UNCHANGED <<extras, venv>>
       \/ Will("ocr") /\ machine.os = "linux" /\ SetupFault /\ Bail /\ UNCHANGED <<extras, venv>>
    /\ UNCHANGED <<machine, rev, libexec, stale, helper, groups, skillRev, runsLeft>>

(* zigplug and jetkvm: a second toolchain, so never on the fast path.      *)
(* zigplug is uninstalled before it is installed.                          *)
ToolStepUngated(s) ==
    /\ SetupAt(s)
    /\ \/ extras' = extras \union {s} /\ Passed({s}) /\ UNCHANGED setupFaults
       \/ /\ FaultedOn({})
          /\ extras' \in {extras} \union IF s = "zigplug" THEN {extras \ {s}} ELSE {}
    /\ UNCHANGED <<machine, rev, libexec, stale, helper, groups, venv, skillRev, runsLeft>>
ToolStep(s) ==
    \/ Will(s) /\ ToolStepUngated(s)
    \/ SetupAt(s) /\ ~Will(s) /\ Skip /\ UNCHANGED <<machine, diskVars, runsLeft, setupFaults>>

EndRun ==
    /\ SetupRuns /\ run.todo = <<>>
    /\ run' = [run EXCEPT !.result = "complete"]
    /\ UNCHANGED <<machine, diskVars, runsLeft, setupFaults>>

(* Between and around runs: Ctrl-C, which may fall between the two sudo    *)
(* calls; a pull, a package upgrade, after which the last run's report     *)
(* speaks of nothing any more.                                             *)
BetweenChownAndChmod ==
    /\ SetupAt("setuid") /\ Will("setuid") /\ HelperSafeToSetuid
    /\ helper' = [helper EXCEPT !.owner = Chown(TRUE)]
RunKilled ==
    /\ SetupRuns /\ SetupFault /\ run' = [run EXCEPT !.result = "killed", !.todo = <<>>]
    /\ helper' = helper \/ BetweenChownAndChmod
    /\ UNCHANGED <<machine, rev, libexec, stale, groups, venv, extras, skillRev, runsLeft>>
Pull ==
    /\ ~SetupRuns /\ rev < MaxRev /\ rev' = rev + 1 /\ run' = NoRun
    /\ UNCHANGED <<machine, libexec, stale, helper, groups, venv, extras, skillRev,
                   runsLeft, setupFaults>>
FreshHelper == [owner |-> "user", suid |-> FALSE, ours |-> TRUE]
PackageUpgrade ==
    /\ ~SetupRuns /\ helper # FreshHelper /\ helper' = FreshHelper /\ run' = NoRun
    /\ UNCHANGED <<machine, rev, libexec, stale, groups, venv, extras, skillRev,
                   runsLeft, setupFaults>>

----------------------------------------------------------------------------
(* `paniolo skill`: the bundled directories in their order, then the       *)
(* plugin roots; the first that holds a name wins.                         *)

SkillsDirs(inRepo) == (IF inRepo THEN <<"repo">> ELSE <<>>) \o <<"user", "system">>
SearchPath(bundled, plugins) == bundled \o plugins
Held(dir) ==
    CASE dir = "repo" -> Skills [] dir = "user" -> {s \in Skills : skillRev[s] # 0}
      [] dir = "system" -> machine.system [] dir = "plugin" -> machine.plugin
DiscoverIn(path) ==
    LET first(name) == CHOOSE i \in DOMAIN path :
                          /\ name \in Held(path[i])
                          /\ \A j \in 1..(i - 1) : name \notin Held(path[j])
    IN  [name \in UNION {Held(path[i]) : i \in DOMAIN path} |-> path[first(name)]]
DiscoverSkills(inRepo) == DiscoverIn(SearchPath(SkillsDirs(inRepo), <<"plugin">>))

SetupNext ==
    \/ \E inRepo \in BOOLEAN : \E kind \in RunKinds(inRepo) : StartRun(kind)
    \/ EnsureLinuxGroups \/ (\E c \in Crates : InstallCrate(c)) \/ InstallCli
    \/ InstallSkills \/ DropStaleCopies \/ SetuidBpfHelper \/ OcrHelper
    \/ ToolStep("zigplug") \/ ToolStep("jetkvm") \/ EndRun
    \/ RunKilled \/ Pull \/ PackageUpgrade
SetupSpec == SetupInit /\ [][SetupNext]_setupVars

----------------------------------------------------------------------------
Complete(kinds) == run.result = "complete" /\ run.kind \in kinds
(* find_binary looks in libexec before ~/.cargo/bin. *)
ResolvedCrate(c) == IF libexec[c] # 0 THEN libexec[c] ELSE stale[c]

(* Type of the variables. *)
SetupTypeOK ==
    /\ rev \in 1..MaxRev /\ libexec \in [Crates -> 0..MaxRev] /\ stale \in [Crates -> 0..MaxRev]
    /\ helper.owner \in {"user", "root", "other"} /\ groups \subseteq {"dialout", "video"}
    /\ venv \in {"none", "bare", "pip", "full"} /\ extras \subseteq {"ocr", "zigplug", "jetkvm"}
    /\ run.result \in {"none", "running", "complete", "failed", "killed"}

(* Across failed, killed and repeated runs, no file but the one paniolo    *)
(* installed ever becomes root's with the bit (setup.rs 232-240).          *)
PromotedIsOurs == helper.owner = "root" => helper.ours

(* After a completed run of a checkout every helper paniolo resolves is    *)
(* the checkout's, whichever of the optional steps failed; a run in which  *)
(* nothing failed leaves no copy to shadow it, and what a run ticked is    *)
(* there (run, setup.rs 722-937).                                          *)
NoSkewAfterSetup ==
    run.result = "complete" =>
        /\ run.kind # "packaged" => \A c \in Crates :
                ResolvedCrate(c) = rev /\ (run.faults = 0 => stale[c] = 0)
        /\ "setuid" \in run.ticks => helper.owner = "root" /\ helper.suid
        /\ run.ticks \intersect {"ocr", "zigplug", "jetkvm"} \subseteq extras

(* A guide the last run says it installed is the one `paniolo skill`       *)
(* prints outside the checkout, at the checkout's revision, whatever       *)
(* plugins and packages hold; and no plugin ever stands in for a bundled   *)
(* skill (skills.rs 117-119).                                              *)
GuideIsBundled ==
    /\ \A s \in DOMAIN DiscoverSkills(FALSE) :
          DiscoverSkills(FALSE)[s] = "plugin" => s \notin Held("user") \union machine.system
    /\ (run.skillsOk /\ run.result = "complete") =>
          \A s \in Skills : skillRev[s] = rev /\ DiscoverSkills(FALSE)[s] = "user"

(* --rust-only runs neither sudo nor a second toolchain, and the steps it  *)
(* says it skipped are the ones it did not perform (setup.rs 452-459, #207). *)
FastPathIsHonest ==
    run.kind = "rust" =>
        /\ run.used = {}
        /\ run.result = "complete" =>
            RustOnlySkips(machine.os) = Range(SourceSteps(machine.os)) \ run.did

(* "Re-run `paniolo setup` with sudo access to fix" (setup.rs 200-204):    *)
(* a packaged run in which no call fails leaves the user's own helper      *)
(* setuid-root, whatever earlier runs left.                                *)
RerunFixesSetuid ==
    (Complete({"packaged"}) /\ run.faults = 0 /\ machine.os = "macos" /\ helper.ours)
        => helper.owner = "root" /\ helper.suid

\* Across failed, killed and repeated runs, only paniolo's own helper is promoted, what a run
\* says it did stands, and nothing stale shadows it (setup.rs, skills.rs).
SetupIsSafe ==
  /\ SetupTypeOK
  /\ PromotedIsOurs
  /\ NoSkewAfterSetup
  /\ FastPathIsHonest
  /\ GuideIsBundled
=============================================================================
