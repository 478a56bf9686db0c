----------------------------- MODULE Ops_proofs -----------------------------
(***************************************************************************)
(* Proofs about the commands that drive a target: hooks under the lock,    *)
(* the AMT power helper, the control host of netboot links, the doctor.    *)
(***************************************************************************)
EXTENDS Hooks, Amt, NetbootHost, Doctor, FiniteSetTheorems, SequenceTheorems, NaturalsInduction, WellFoundedInduction, TLAPS

-----------------------------------------------------------------------------
(***************************************************************************)
(* Hooks under the per-target lock, for any commands, targets and benches. *)
(* The lock file alone does not say who may drive a device, because a      *)
(* nested command drives it without having the lock. The invariant adds    *)
(* that a nested command that is under way has its parent in the hook that *)
(* runs it, that a driver which inherits nothing has the lock itself, and  *)
(* what each command still has to do given what it has read.               *)
(***************************************************************************)
StepNames == {"check", "hook", "read", "confirm"}
Codes == {-1, 0, 2, NotConfigured, Timeout, HookFailed}
Errs == {0, HookFailed}
Polls == 0..LockWait
HookRec ==
  [at : {"new", "lock", "run", "ended", "killed"}, todo : Seq(StepNames), polls : Polls, reads : Nat,
   saw : {"none", "on", "off", "failed"}, err : Errs, exit : Codes]
Places == {"near", "far"} \X Boards

HookTypes ==
  /\ bench \in Benches
  /\ hook \in [HookCmds -> HookRec]
  /\ lockOf \in [Places -> HookCmds \cup {Nobody}]
  /\ power \in [Boards -> BOOLEAN]

Busy == {"lock", "run"}

\* What a command has left to do, by its verb, its level and what it has read.
TodoOK(b, c, r) ==
  LET j == b.job[c] IN
  /\ r.todo # << >>
  /\ j.verb \in {"on", "off"} => r.todo = <<"hook">> /\ j.verb \in b.levels[j.level]
  /\ j.verb = "cycle" =>
       \/ r.todo = <<"hook">> /\ "cycle" \in b.levels[j.level] /\ "state" \notin b.levels[j.level]
       \/ r.todo = <<"hook", "confirm">> /\ "cycle" \in b.levels[j.level]
       \/ r.todo = <<"confirm">>
  /\ j.verb = "state" => r.todo \in Seq({"read"})
  /\ j.verb = "action" =>
       \/ r.todo = <<"check", "hook">>
       \/ r.todo = <<"hook">> /\ j.needs \in {"any", r.saw}
RecOK(b, c, r) ==
  /\ r.at \in {"new"} \cup Busy => r.exit = -1
  /\ r.at \in Busy => TodoOK(b, c, r)
  /\ b.job[c].verb = "cycle" /\ r.exit = 0 => r.saw = "on" \/ "state" \notin b.levels[b.job[c].level]

RecInv == \A c \in HookCmds : RecOK(bench, c, hook[c])

\* A nested command is under way only while the hook that runs it is.
ChainInv == \A n \in Nested : hook[n].at \in Busy => Doing(Parent[n], "hook")
\* Who inherits no lock drives with its own.
OwnInv == \A c \in HookCmds : Driving(c) /\ ~LockInherited(c) => lockOf[Lock(c)] = c

HookInv == HookTypes /\ RecInv /\ ChainInv /\ LockIsHeldByDriver /\ OwnInv

\* It holds before any command has begun.
LEMMA HooksInitInv == HooksInit => HookInv
<1> SUFFICES ASSUME HooksInit PROVE HookInv
  OBVIOUS
<1>1. Waiting \in HookRec
  <2>1. << >> \in Seq(StepNames)
    OBVIOUS
  <2> QED BY <2>1, HooksAssumption DEF Waiting, HookRec, Codes, Errs, Polls
<1>2. HookTypes
  BY <1>1 DEF HooksInit, HookTypes, Places
<1>3. \A c \in HookCmds : hook[c].at = "new" /\ hook[c].exit = -1
  BY DEF HooksInit, Waiting
<1>4. RecInv
  BY <1>3 DEF RecInv, RecOK, Busy
<1>5. ChainInv
  BY <1>3 DEF ChainInv, Busy, HookCmds
<1>6. \A w \in DOMAIN lockOf : lockOf[w] = Nobody
  BY DEF HooksInit
<1>7. LockIsHeldByDriver
  BY <1>6 DEF LockIsHeldByDriver
<1>8. OwnInv
  BY <1>3 DEF OwnInv, Driving
<1> QED BY <1>2, <1>4, <1>5, <1>7, <1>8 DEF HookInv

\* The device a command drives is one of the bench's.
LEMMA LockPlace ==
  ASSUME HookTypes, NEW c \in HookCmds
  PROVE  Lock(c) \in Places /\ Job(c).target \in Boards /\ Job(c).verb \in Verbs
BY HooksAssumption DEF HookTypes, Lock, HostOf, Job, Places

\* Commands nest two deep.
LEMMA ParentFacts ==
  ASSUME NEW n \in Nested
  PROVE  n \in HookCmds /\ Parent[n] \in HookCmds /\ n \notin Tops
         /\ (Parent[n] \in Nested => Parent[Parent[n]] \in Tops)
BY HooksAssumption DEF HookCmds

\* Whoever is not stepping is as it was, and so are its device and what it inherits.
LEMMA SameCommands ==
  ASSUME NEW c, bench' = bench, hook'[c] = hook[c]
  PROVE  Job(c)' = Job(c) /\ Lock(c)' = Lock(c) /\ (LockInherited(c)' <=> LockInherited(c)) /\ (Driving(c)' <=> Driving(c))
         /\ \A s : Doing(c, s)' <=> Doing(c, s)
BY DEF Job, Lock, HostOf, LockInherited, HeldEnv, Driving, Doing

\* One command moves on, to a record that is sound by itself, starting, taking its lock,
\* waiting, or dropping what it has.
LEMMA CommandMoves ==
  ASSUME HookInv, NEW c \in HookCmds, bench' = bench, power' \in [Boards -> BOOLEAN],
         hook' \in [HookCmds -> HookRec], \A d \in HookCmds : d # c => hook'[d] = hook[d],
         RecOK(bench, c, hook'[c]),
         c \in Nested /\ hook'[c].at \in Busy => hook[c].at \in Busy \/ Doing(Parent[c], "hook"),
         Doing(c, "hook") => Quiet(c),
         \/ lockOf' = lockOf /\ ~Driving(c) /\ (hook'[c].at = "run" => LockInherited(c)')
         \/ lockOf' = [lockOf EXCEPT ![Lock(c)] = c] /\ lockOf[Lock(c)] = Nobody /\ ~Driving(c)
            /\ hook'[c].at = "run" /\ hook'[c].todo = hook[c].todo
         \/ Drops(c) /\ hook'[c].at # "run"
  PROVE  HookInv'
<1> USE DEF HookInv
<1>1. lockOf' \in [Places -> HookCmds \cup {Nobody}]
  BY LockPlace DEF HookTypes, Drops
<1>2. HookTypes'
  BY <1>1 DEF HookTypes
<1>3. RecInv'
  BY DEF RecInv
<1>4. ChainInv'
  <2> SUFFICES ASSUME NEW n \in Nested, hook'[n].at \in Busy PROVE Doing(Parent[n], "hook")'
    BY DEF ChainInv
  <2>1. n \in HookCmds /\ Parent[n] \in HookCmds
    BY ParentFacts
  <2>2. Doing(Parent[n], "hook") \/ (n = c /\ hook[n].at \notin Busy)
    BY <2>1 DEF ChainInv
  <2>3. Doing(Parent[n], "hook")
    BY <2>2 DEF ChainInv
  <2>4. CASE Parent[n] # c
    BY <2>1, <2>3, <2>4, SameCommands
  <2>5. CASE Parent[n] = c
    <3>1. hook[n].at \in {"new", "ended", "killed"}
      BY <2>3, <2>5 DEF Quiet
    <3>2. n = c
      BY <2>1, <3>1 DEF Busy
    <3> QED BY <2>3, <2>5, <3>1, <3>2 DEF Doing
  <2> QED BY <2>4, <2>5
<1>5. \A d \in HookCmds : d # c => Lock(d)' = Lock(d) /\ (Driving(d)' <=> Driving(d)) /\ (LockInherited(d)' <=> LockInherited(d))
  BY SameCommands
<1>6. Driving(c)' <=> hook'[c].at = "run"
  BY DEF Driving
<1>7. \A d \in HookCmds : Lock(d) \in Places
  BY LockPlace
<1>8. Nobody \notin HookCmds
  BY HooksAssumption
<1>9. CASE lockOf' = lockOf /\ ~Driving(c) /\ (hook'[c].at = "run" => LockInherited(c)')
  <2>1. LockIsHeldByDriver'
    BY <1>1, <1>5, <1>8, <1>9 DEF LockIsHeldByDriver, HookTypes
  <2>2. OwnInv'
    BY <1>5, <1>6, <1>9 DEF OwnInv
  <2> QED BY <1>2, <1>3, <1>4, <2>1, <2>2
<1>10. CASE /\ lockOf' = [lockOf EXCEPT ![Lock(c)] = c] /\ lockOf[Lock(c)] = Nobody /\ ~Driving(c)
            /\ hook'[c].at = "run" /\ hook'[c].todo = hook[c].todo
  <2>1. Lock(c)' = Lock(c)
    BY <1>10 DEF Lock, HostOf, Job
  <2>2. lockOf'[Lock(c)] = c /\ \A w \in Places : w # Lock(c) => lockOf'[w] = lockOf[w]
    BY <1>7, <1>10 DEF HookTypes
  <2>3. LockIsHeldByDriver'
    <3>1. ASSUME NEW w \in Places, NEW x \in HookCmds, lockOf'[w] = x PROVE Driving(x)' /\ Lock(x)' = w
      <4>1. CASE w = Lock(c)
        BY <1>6, <1>10, <2>1, <2>2, <3>1, <4>1
      <4>2. CASE w # Lock(c)
        <5>1. lockOf[w] = x
          BY <2>2, <3>1, <4>2
        <5>2. Driving(x) /\ Lock(x) = w
          BY <1>8, <5>1 DEF LockIsHeldByDriver, HookTypes
        <5>3. x # c
          BY <1>10, <5>2
        <5> QED BY <1>5, <5>2, <5>3
      <4> QED BY <4>1, <4>2
    <3> QED BY <1>1, <3>1 DEF LockIsHeldByDriver
  <2>4. OwnInv'
    <3> SUFFICES ASSUME NEW d \in HookCmds, Driving(d)', ~LockInherited(d)' PROVE lockOf'[Lock(d)'] = d
      BY DEF OwnInv
    <3>1. CASE d = c
      BY <2>1, <2>2, <3>1
    <3>2. CASE d # c
      <4>1. lockOf[Lock(d)] = d /\ Lock(d)' = Lock(d)
        BY <1>5, <3>2 DEF OwnInv
      <4>2. Lock(d) # Lock(c)
        BY <1>8, <1>10, <4>1
      <4> QED BY <1>7, <2>2, <4>1, <4>2
    <3> QED BY <3>1, <3>2
  <2> QED BY <1>2, <1>3, <1>4, <2>3, <2>4
<1>11. CASE Drops(c) /\ hook'[c].at # "run"
  <2>1. \A w \in Places : lockOf'[w] = IF lockOf[w] = c THEN Nobody ELSE lockOf[w]
    BY <1>11 DEF Drops, HookTypes
  <2>2. LockIsHeldByDriver'
    BY <1>1, <1>5, <2>1 DEF LockIsHeldByDriver, HookTypes
  <2>3. OwnInv'
    BY <1>5, <1>6, <1>7, <1>11, <2>1 DEF OwnInv
  <2> QED BY <1>2, <1>3, <1>4, <2>2, <2>3
<1> QED BY <1>9, <1>10, <1>11

\* What a command is told to do to begin with.
LEMMA StepsFacts ==
  ASSUME HookTypes, NEW c \in HookCmds, NEW r, r.todo = Steps(Job(c)), r.todo # << >>
  PROVE  r.todo \in Seq(StepNames) /\ TodoOK(bench, c, r)
<1> DEFINE j == Job(c)
<1>0. j.verb \in Verbs /\ j = bench.job[c]
  BY LockPlace DEF Job
<1>1. <<"hook">> \in Seq(StepNames) /\ <<"hook", "confirm">> \in Seq(StepNames) /\ <<"check", "hook">> \in Seq(StepNames)
  BY DEF StepNames
<1>2. CASE j.verb \in {"on", "off"}
  BY <1>0, <1>1, <1>2 DEF Steps, CmdPowerOn, CmdPowerOff, LevelHas, TodoOK
<1>3. CASE j.verb = "cycle"
  BY <1>0, <1>1, <1>3 DEF Steps, CmdPowerCycle, LevelHas, TodoOK
<1>4. CASE j.verb = "action"
  BY <1>0, <1>1, <1>4 DEF Steps, CmdActionRun, TodoOK
<1>5. CASE j.verb = "state"
  <2>1. r.todo \in Seq({"read"})
    <3>1. r.todo = CmdPowerState(j.level)
      BY <1>5 DEF Steps
    <3>2. CASE j.level = "all"
      <4> DEFINE S == { l \in DOMAIN bench.levels : LevelHas(l, "state") }
      <4>1. IsFiniteSet(DOMAIN bench.levels)
        BY HooksAssumption DEF HookTypes
      <4>2. Cardinality(S) \in Nat
        BY <4>1, FS_Subset, FS_CardinalityType
      <4>3. r.todo = [k \in 1..Cardinality(S) |-> "read"]
        BY <3>1, <3>2 DEF CmdPowerState
      <4> HIDE DEF S
      <4>4. \A m \in Nat : [k \in 1..m |-> "read"] \in Seq({"read"})
        OBVIOUS
      <4> QED BY <4>2, <4>3, <4>4
    <3>3. CASE j.level # "all"
      <4>1. r.todo = IF LevelHas(j.level, "state") THEN <<"read">> ELSE << >>
        BY <3>1, <3>3 DEF CmdPowerState
      <4>2. <<"read">> \in Seq({"read"})
        OBVIOUS
      <4> QED BY <4>1, <4>2
    <3> QED BY <3>2, <3>3
  <2>2. r.todo \in Seq(StepNames)
    BY <2>1 DEF StepNames
  <2> QED BY <1>0, <1>5, <2>1, <2>2 DEF TodoOK
<1> QED BY <1>0, <1>2, <1>3, <1>4, <1>5 DEF Verbs

\* Changes of a command's record.
Ended(r, code) == [r EXCEPT !.at = "ended", !.exit = code]
Runs(r) == [r EXCEPT !.at = "run", !.polls = 0]
Polled(r, n) == [r EXCEPT !.polls = n]

LEMMA RecEnds ==
  ASSUME NEW r \in HookRec, NEW code \in Codes
  PROVE  Ended(r, code) \in HookRec /\ Ended(r, code).at = "ended" /\ Ended(r, code).exit = code
BY DEF HookRec, Ended

LEMMA RecRuns ==
  ASSUME NEW r \in HookRec
  PROVE  Runs(r) \in HookRec /\ Runs(r).at = "run" /\ Runs(r).exit = r.exit /\ Runs(r).saw = r.saw /\ Runs(r).todo = r.todo
<1>1. 0 \in Polls
  BY HooksAssumption DEF Polls
<1> QED BY <1>1 DEF HookRec, Runs

LEMMA RecPolls ==
  ASSUME NEW r \in HookRec, NEW n \in Polls
  PROVE  /\ Polled(r, n) \in HookRec /\ Polled(r, n).at = r.at /\ Polled(r, n).exit = r.exit
         /\ Polled(r, n).saw = r.saw /\ Polled(r, n).todo = r.todo
BY DEF HookRec, Polled

\* The exit codes.
LEMMA CodeFacts ==
  /\ NotConfigured \in Codes /\ Timeout \in Codes /\ HookFailed \in Codes /\ 0 \in Codes /\ -1 \in Codes /\ 2 \in Codes
  /\ NotConfigured # 0 /\ Timeout # 0 /\ HookFailed # 0
  /\ 0 \in Errs /\ HookFailed \in Errs /\ Errs \subseteq Codes
BY DEF Codes, Errs, NotConfigured, Timeout, HookFailed

\* A command finds what it has to do.
LEMMA BeginKeeps == ASSUME HookInv, NEW c \in HookCmds, Begin(c) PROVE HookInv'
<1>1. hook[c] \in HookRec /\ hook \in [HookCmds -> HookRec] /\ bench' = bench /\ lockOf' = lockOf /\ power' \in [Boards -> BOOLEAN]
  BY DEF Begin, HookInv, HookTypes
<1>2. hook[c].at = "new" /\ hook[c].exit = -1
  BY DEF Begin, HookInv, RecInv, RecOK
<1>3. ~Driving(c) /\ ~Doing(c, "hook")
  BY <1>2 DEF Driving, Doing
<1>4. c \in Nested => Doing(Parent[c], "hook")
  BY DEF Begin, Doing
<1>5. CASE Steps(Job(c)) = << >>
  <2>1. hook' = [hook EXCEPT ![c].at = "ended", ![c].exit = NotConfigured]
    BY <1>5 DEF Begin, HookEnds
  <2>2. hook'[c] = Ended(hook[c], NotConfigured) /\ \A d \in HookCmds : d # c => hook'[d] = hook[d]
    BY <1>1, <2>1 DEF Ended
  <2>3. hook'[c] \in HookRec /\ hook'[c].at = "ended" /\ hook'[c].exit = NotConfigured
    BY <1>1, <2>2, RecEnds, CodeFacts
  <2>4. hook' \in [HookCmds -> HookRec]
    BY <1>1, <2>1, <2>2, <2>3
  <2>5. RecOK(bench, c, hook'[c])
    BY <2>3 DEF RecOK, Busy, NotConfigured
  <2> QED BY <1>1, <1>3, <1>4, <2>2, <2>3, <2>4, <2>5, CommandMoves
<1>6. CASE Steps(Job(c)) # << >>
  <2>1. hook' = [hook EXCEPT ![c].at = "lock", ![c].todo = Steps(Job(c))]
    BY <1>6 DEF Begin
  <2>2. hook'[c] = [hook[c] EXCEPT !.at = "lock", !.todo = Steps(Job(c))] /\ \A d \in HookCmds : d # c => hook'[d] = hook[d]
    BY <1>1, <2>1
  <2>3. hook'[c].at = "lock" /\ hook'[c].exit = -1 /\ hook'[c].todo = Steps(Job(c))
    BY <1>1, <1>2, <2>2 DEF HookRec
  <2>4. Steps(Job(c)) \in Seq(StepNames) /\ TodoOK(bench, c, hook'[c])
    BY <1>6, <2>3, StepsFacts DEF HookInv
  <2>5. hook'[c] \in HookRec
    BY <1>1, <2>2, <2>4 DEF HookRec
  <2>6. hook' \in [HookCmds -> HookRec]
    BY <1>1, <2>1, <2>2, <2>5
  <2>7. RecOK(bench, c, hook'[c])
    BY <2>3, <2>4 DEF RecOK
  <2> QED BY <1>1, <1>3, <1>4, <2>2, <2>3, <2>6, <2>7, CommandMoves
<1> QED BY <1>5, <1>6

\* A command that only waits, or gets to run, has as much to do as before.
LEMMA TodoSame ==
  ASSUME NEW b, NEW c, NEW r, NEW s, RecOK(b, c, r), r.at \in Busy, s.todo = r.todo, s.saw = r.saw, s.exit = -1
  PROVE  RecOK(b, c, s)
BY DEF RecOK, TodoOK, Busy

\* hook_lock: inherited, taken, waited for, or given up.
LEMMA HookLockKeeps == ASSUME HookInv, NEW c \in HookCmds, HookLock(c) PROVE HookInv'
<1>1. hook[c] \in HookRec /\ hook \in [HookCmds -> HookRec] /\ bench' = bench /\ power' \in [Boards -> BOOLEAN]
  BY DEF HookLock, HookInv, HookTypes
<1>2. hook[c].at = "lock" /\ RecOK(bench, c, hook[c]) /\ hook[c].at \in Busy /\ hook[c].exit = -1
  BY DEF HookLock, HookInv, RecInv, RecOK, Busy
<1>3. ~Driving(c) /\ ~Doing(c, "hook")
  BY <1>2 DEF Driving, Doing
<1>4. CASE LockInherited(c) /\ hook' = [hook EXCEPT ![c].at = "run"] /\ UNCHANGED lockOf
  <2>1. hook'[c] = [hook[c] EXCEPT !.at = "run"] /\ \A d \in HookCmds : d # c => hook'[d] = hook[d]
    BY <1>1, <1>4
  <2>2. hook'[c] \in HookRec /\ hook'[c].todo = hook[c].todo /\ hook'[c].saw = hook[c].saw /\ hook'[c].exit = -1
    BY <1>1, <1>2, <2>1 DEF HookRec
  <2>3. hook' \in [HookCmds -> HookRec]
    BY <1>1, <1>4, <2>1, <2>2
  <2>4. LockInherited(c)'
    BY <1>1, <1>4, <2>2 DEF LockInherited, HeldEnv, HostOf, Job
  <2>5. RecOK(bench, c, hook'[c])
    BY <1>2, <2>2, TodoSame
  <2>6. UNCHANGED lockOf
    BY <1>4
  <2> QED BY <1>1, <1>2, <1>3, <2>1, <2>3, <2>4, <2>5, <2>6, CommandMoves
<1>5. CASE /\ ~LockInherited(c) /\ lockOf[Lock(c)] = Nobody
           /\ lockOf' = [lockOf EXCEPT ![Lock(c)] = c]
           /\ hook' = [hook EXCEPT ![c].at = "run", ![c].polls = 0]
  <2>1. hook'[c] = Runs(hook[c]) /\ \A d \in HookCmds : d # c => hook'[d] = hook[d]
    BY <1>1, <1>5 DEF Runs
  <2>2. /\ hook'[c] \in HookRec /\ hook'[c].todo = hook[c].todo /\ hook'[c].saw = hook[c].saw
        /\ hook'[c].exit = -1 /\ hook'[c].at = "run"
    BY <1>1, <1>2, <2>1, RecRuns
  <2>3. hook' \in [HookCmds -> HookRec]
    BY <1>1, <1>5, <2>1, <2>2
  <2>5. RecOK(bench, c, hook'[c])
    BY <1>2, <2>2, TodoSame
  <2> QED BY <1>1, <1>2, <1>3, <1>5, <2>1, <2>2, <2>3, <2>5, CommandMoves
<1>6. CASE ~LockInherited(c) /\ lockOf[Lock(c)] # Nobody /\ UNCHANGED lockOf /\ GivesUp(c) /\ HookEnds(c, Timeout)
  <2>1. hook'[c] = Ended(hook[c], Timeout) /\ \A d \in HookCmds : d # c => hook'[d] = hook[d]
    BY <1>1, <1>6 DEF HookEnds, Ended
  <2>2. hook'[c] \in HookRec /\ hook'[c].at = "ended" /\ hook'[c].exit = Timeout
    BY <1>1, <2>1, RecEnds, CodeFacts
  <2>3. hook' \in [HookCmds -> HookRec]
    BY <1>1, <1>6, <2>1, <2>2 DEF HookEnds
  <2>4. RecOK(bench, c, hook'[c])
    BY <2>2 DEF RecOK, Busy, Timeout
  <2>5. UNCHANGED lockOf
    BY <1>6
  <2> QED BY <1>1, <1>2, <1>3, <2>1, <2>2, <2>3, <2>4, <2>5, CommandMoves
<1>7. CASE /\ ~LockInherited(c) /\ lockOf[Lock(c)] # Nobody /\ UNCHANGED lockOf
           /\ hook' = [hook EXCEPT ![c].polls = IF @ < LockWait THEN @ + 1 ELSE @]
  <2> DEFINE n == IF hook[c].polls < LockWait THEN hook[c].polls + 1 ELSE hook[c].polls
  <2>1. hook'[c] = Polled(hook[c], n) /\ \A d \in HookCmds : d # c => hook'[d] = hook[d]
    BY <1>1, <1>7 DEF Polled
  <2>2. /\ hook'[c] \in HookRec /\ hook'[c].todo = hook[c].todo /\ hook'[c].saw = hook[c].saw
        /\ hook'[c].exit = -1 /\ hook'[c].at = "lock"
    <3>1. hook[c].polls \in Polls
      BY <1>1 DEF HookRec
    <3>2. n \in Polls
      BY <3>1, HooksAssumption DEF Polls
    <3> HIDE DEF n
    <3> QED BY <1>1, <1>2, <2>1, <3>2, RecPolls
  <2>3. hook' \in [HookCmds -> HookRec]
    BY <1>1, <1>7, <2>1, <2>2
  <2>4. RecOK(bench, c, hook'[c])
    BY <1>2, <2>2, TodoSame
  <2>5. UNCHANGED lockOf
    BY <1>7
  <2> QED BY <1>1, <1>2, <1>3, <2>1, <2>2, <2>3, <2>4, <2>5, CommandMoves
<1> QED BY <1>4, <1>5, <1>6, <1>7 DEF HookLock

Saw(r, v) == [r EXCEPT !.saw = v]
Erred(r, e) == [r EXCEPT !.err = e]
ReadAgain(r) == [r EXCEPT !.reads = @ + 1]

\* What a command is after a step that went well.
LEMMA OnwardFacts ==
  ASSUME NEW c, hook[c] \in HookRec, NEW rest \in Seq(StepNames), NEW code \in Codes
  PROVE  /\ Onward(c, rest, code) \in HookRec
         /\ Onward(c, rest, code).at = IF rest = << >> THEN "ended" ELSE "lock"
         /\ Onward(c, rest, code).exit = IF rest = << >> THEN code ELSE -1
         /\ Onward(c, rest, code).todo = rest /\ Onward(c, rest, code).saw = hook[c].saw
<1>1. -1 \in Codes
  BY CodeFacts
<1> QED BY <1>1 DEF HookRec, Onward

LEMMA RecSaw ==
  ASSUME NEW r \in HookRec, NEW v \in {"on", "off", "failed"}
  PROVE  /\ Saw(r, v) \in HookRec /\ Saw(r, v).saw = v
         /\ Saw(r, v).at = r.at /\ Saw(r, v).exit = r.exit /\ Saw(r, v).todo = r.todo
BY DEF HookRec, Saw
LEMMA RecErred ==
  ASSUME NEW r \in HookRec, NEW e \in Errs
  PROVE  /\ Erred(r, e) \in HookRec /\ Erred(r, e).saw = r.saw
         /\ Erred(r, e).at = r.at /\ Erred(r, e).exit = r.exit /\ Erred(r, e).todo = r.todo
BY DEF HookRec, Erred
LEMMA RecAgain ==
  ASSUME NEW r \in HookRec
  PROVE  /\ ReadAgain(r) \in HookRec /\ ReadAgain(r).saw = r.saw
         /\ ReadAgain(r).at = r.at /\ ReadAgain(r).exit = r.exit /\ ReadAgain(r).todo = r.todo
BY DEF HookRec, ReadAgain

\* A command that was doing something drops its lock and goes on.
LEMMA StepEnds ==
  ASSUME HookInv, NEW c \in HookCmds, hook[c].at = "run", NEW r \in HookRec, hook' = [hook EXCEPT ![c] = r], Drops(c),
         bench' = bench, power' \in [Boards -> BOOLEAN], RecOK(bench, c, r), r.at # "run", Doing(c, "hook") => Quiet(c)
  PROVE  HookInv'
<1>1. hook'[c] = r /\ \A d \in HookCmds : d # c => hook'[d] = hook[d]
  BY DEF HookInv, HookTypes
<1>2. hook' \in [HookCmds -> HookRec]
  BY DEF HookInv, HookTypes
<1>3. hook[c].at \in Busy
  BY DEF Busy
<1> QED BY <1>1, <1>2, <1>3, CommandMoves

\* What a command that does a step is about.
LEMMA DoingFacts ==
  ASSUME HookInv, NEW c \in HookCmds, hook[c].at = "run"
  PROVE  /\ TodoOK(bench, c, hook[c]) /\ hook[c] \in HookRec /\ hook[c].exit = -1 /\ Job(c) = bench.job[c]
         /\ Job(c).verb \in Verbs /\ hook[c].todo \in Seq(StepNames) /\ Tail(hook[c].todo) \in Seq(StepNames)
<1>1. TodoOK(bench, c, hook[c]) /\ hook[c] \in HookRec /\ hook[c].exit = -1
  BY DEF HookInv, RecInv, RecOK, HookTypes, Busy
<1>2. hook[c].todo \in Seq(StepNames) /\ hook[c].todo # << >>
  BY <1>1 DEF HookRec, TodoOK
<1>3. Tail(hook[c].todo) \in Seq(StepNames)
  BY <1>2
<1> QED BY <1>1, <1>2, <1>3, LockPlace DEF HookInv, Job

\* The step lists, first step and rest.
LEMMA Heads ==
  /\ Head(<<"hook">>) = "hook" /\ Tail(<<"hook">>) = << >>
  /\ Head(<<"confirm">>) = "confirm" /\ Tail(<<"confirm">>) = << >>
  /\ Head(<<"hook", "confirm">>) = "hook" /\ Tail(<<"hook", "confirm">>) = <<"confirm">>
  /\ Head(<<"check", "hook">>) = "check" /\ Tail(<<"check", "hook">>) = <<"hook">>
  /\ <<"hook">> # << >> /\ <<"confirm">> # << >>
OBVIOUS

\* A list of state reads.
LEMMA HeadRead == ASSUME NEW q \in Seq({"read"}), q # << >> PROVE Head(q) = "read" /\ Tail(q) \in Seq({"read"})
OBVIOUS

\* What is being done tells the verb.
LEMMA DoingVerb ==
  ASSUME HookInv, NEW c \in HookCmds, hook[c].at = "run"
  PROVE  /\ Doing(c, "hook") => Job(c).verb \in {"on", "off", "cycle", "action"}
         /\ Doing(c, "read") => Job(c).verb = "state"
         /\ Doing(c, "check") => Job(c).verb = "action" /\ hook[c].todo = <<"check", "hook">>
         /\ Doing(c, "confirm") => Job(c).verb = "cycle" /\ hook[c].todo = <<"confirm">>
BY DoingFacts, Heads, HeadRead DEF Doing, TodoOK, Verbs

\* A command that ends with an error.
LEMMA HookEndsFacts ==
  ASSUME HookInv, NEW c \in HookCmds, NEW code \in Codes, code # 0, HookEnds(c, code)
  PROVE  /\ hook' = [hook EXCEPT ![c] = Ended(hook[c], code)] /\ Ended(hook[c], code) \in HookRec
         /\ Ended(hook[c], code).at # "run" /\ RecOK(bench, c, Ended(hook[c], code))
<1>1. hook[c] \in HookRec
  BY DEF HookInv, HookTypes
<1>2. hook' = [hook EXCEPT ![c] = Ended(hook[c], code)]
  BY DEF HookEnds, Ended, HookInv, HookTypes
<1>3. Ended(hook[c], code) \in HookRec /\ Ended(hook[c], code).at = "ended" /\ Ended(hook[c], code).exit = code
  BY <1>1, RecEnds
<1> QED BY <1>2, <1>3 DEF RecOK, Busy

\* The hook has run, or failed.
LEMMA RunHookKeeps == ASSUME HookInv, NEW c \in HookCmds, RunHook(c) PROVE HookInv'
<1>1. hook[c].at = "run" /\ Doing(c, "hook") /\ Quiet(c) /\ Drops(c) /\ bench' = bench
  BY DEF RunHook, Doing
<1>2. CASE HookEnds(c, HookFailed) /\ UNCHANGED <<power, relay>>
  <2>1. power' \in [Boards -> BOOLEAN] /\ HookFailed \in Codes /\ HookFailed # 0
    BY <1>2, CodeFacts DEF HookInv, HookTypes
  <2> QED BY <1>1, <1>2, <2>1, HookEndsFacts, StepEnds
<1>3. CASE hook' = [hook EXCEPT ![c] = Onward(c, Tail(hook[c].todo), 0)] /\ Effect(Job(c))
  <2> DEFINE rest == Tail(hook[c].todo)
             r == Onward(c, rest, 0)
  <2>1. TodoOK(bench, c, hook[c]) /\ hook[c] \in HookRec /\ Job(c) = bench.job[c] /\ rest \in Seq(StepNames)
    BY <1>1, DoingFacts
  <2>2. Job(c).verb \in {"on", "off", "cycle", "action"}
    BY <1>1, DoingVerb
  <2>3. power' \in [Boards -> BOOLEAN]
    <3>1. power \in [Boards -> BOOLEAN]
      BY DEF HookInv, HookTypes
    <3> QED BY <1>3, <2>2, <3>1 DEF Effect
  <2>4. /\ r \in HookRec /\ r.at = (IF rest = << >> THEN "ended" ELSE "lock")
        /\ r.exit = (IF rest = << >> THEN 0 ELSE -1) /\ r.todo = rest /\ r.saw = hook[c].saw
    <3> HIDE DEF rest
    <3> QED BY <2>1, OnwardFacts, CodeFacts
  <2>5. Head(hook[c].todo) = "hook"
    BY <1>1 DEF Doing
  <2> HIDE DEF r
  <2>6. RecOK(bench, c, r)
    <3>1. CASE Job(c).verb \in {"on", "off", "action"}
      <4>1. rest = << >>
        BY <2>1, <2>5, <3>1, Heads DEF TodoOK
      <4> QED BY <2>1, <2>4, <3>1, <4>1 DEF RecOK, Busy
    <3>2. CASE Job(c).verb = "cycle"
      <4>1. \/ rest = << >> /\ "state" \notin bench.levels[Job(c).level]
            \/ rest = <<"confirm">>
        BY <2>1, <2>5, <3>2, Heads DEF TodoOK
      <4>2. CASE rest = << >> /\ "state" \notin bench.levels[Job(c).level]
        BY <2>1, <2>4, <4>2 DEF RecOK, Busy
      <4>3. CASE rest = <<"confirm">>
        <5>1. r.at = "lock" /\ r.exit = -1 /\ r.todo = <<"confirm">>
          BY <2>4, <4>3, Heads
        <5>2. TodoOK(bench, c, r)
          BY <2>1, <3>2, <5>1, Heads DEF TodoOK
        <5> QED BY <5>1, <5>2 DEF RecOK
      <4> QED BY <4>1, <4>2, <4>3
    <3> QED BY <2>2, <3>1, <3>2
  <2>7. hook' = [hook EXCEPT ![c] = r] /\ r.at # "run"
    BY <1>3, <2>4 DEF r
  <2> QED BY <1>1, <2>3, <2>4, <2>6, <2>7, StepEnds
<1> QED BY <1>2, <1>3 DEF RunHook

\* A state was read.
LEMMA ReadStateKeeps == ASSUME HookInv, NEW c \in HookCmds, ReadState(c) PROVE HookInv'
<1>1. hook[c].at = "run" /\ Doing(c, "read") /\ Drops(c) /\ bench' = bench /\ power' \in [Boards -> BOOLEAN]
  BY DEF ReadState, Doing, HookInv, HookTypes
<1>2. Job(c).verb = "state" /\ ~Doing(c, "hook")
  BY <1>1, DoingVerb DEF Doing
<1>3. PICK saw \in Reads(c) :
        LET err == IF saw = "failed" THEN HookFailed ELSE hook[c].err IN
        hook' = [hook EXCEPT ![c] = [Onward(c, Tail(hook[c].todo), err) EXCEPT !.err = err]]
  BY DEF ReadState
<1> DEFINE err == IF saw = "failed" THEN HookFailed ELSE hook[c].err
           rest == Tail(hook[c].todo)
           q == Onward(c, rest, err)
           r == Erred(q, err)
<1>4. TodoOK(bench, c, hook[c]) /\ hook[c] \in HookRec /\ Job(c) = bench.job[c] /\ rest \in Seq(StepNames)
  BY <1>1, DoingFacts
<1>5. err \in Errs /\ err \in Codes
  BY <1>4, CodeFacts DEF HookRec
<1>6. rest \in Seq({"read"})
  BY <1>2, <1>4, HeadRead DEF TodoOK
<1>7. hook' = [hook EXCEPT ![c] = r]
  BY <1>3 DEF Erred
<1> HIDE DEF err, rest
<1>8. /\ q \in HookRec /\ q.at = (IF rest = << >> THEN "ended" ELSE "lock")
      /\ q.exit = (IF rest = << >> THEN err ELSE -1) /\ q.todo = rest
  BY <1>4, <1>5, OnwardFacts
<1> HIDE DEF q
<1>9. r \in HookRec /\ r.at = q.at /\ r.exit = q.exit /\ r.todo = q.todo
  BY <1>5, <1>8, RecErred
<1> HIDE DEF r
<1>10. RecOK(bench, c, r)
  <2>1. rest # << >> => TodoOK(bench, c, r)
    BY <1>2, <1>4, <1>6, <1>8, <1>9 DEF TodoOK
  <2> QED BY <1>2, <1>4, <1>8, <1>9, <2>1 DEF RecOK, Busy
<1>11. r.at # "run"
  BY <1>8, <1>9
<1> QED BY <1>1, <1>2, <1>7, <1>9, <1>10, <1>11, StepEnds

\* requires_power was checked.
LEMMA CheckPowerKeeps == ASSUME HookInv, NEW c \in HookCmds, CheckPower(c) PROVE HookInv'
<1>1. hook[c].at = "run" /\ Doing(c, "check") /\ Drops(c) /\ bench' = bench /\ power' \in [Boards -> BOOLEAN]
  BY DEF CheckPower, Doing, HookInv, HookTypes
<1>2. Job(c).verb = "action" /\ hook[c].todo = <<"check", "hook">> /\ ~Doing(c, "hook")
  BY <1>1, DoingVerb, Heads DEF Doing
<1>3. PICK saw \in Reads(c) :
       IF saw = Job(c).needs THEN hook' = [hook EXCEPT ![c] = [Onward(c, Tail(hook[c].todo), 0) EXCEPT !.saw = saw]]
       ELSE HookEnds(c, IF saw = "failed" THEN HookFailed ELSE PowerRefusal)
  BY DEF CheckPower
<1>4. saw \in {"on", "off", "failed"}
  BY DEF Reads
<1>5. hook[c] \in HookRec /\ Job(c) = bench.job[c] /\ <<"hook">> \in Seq(StepNames)
  BY <1>1, <1>2, DoingFacts, Heads
<1>6. CASE saw = Job(c).needs
  <2> DEFINE rest == Tail(hook[c].todo)
             q == Onward(c, rest, 0)
             r == Saw(q, saw)
  <2>0. rest = <<"hook">> /\ rest # << >> /\ rest \in Seq(StepNames) /\ 0 \in Codes
    BY <1>2, <1>5, Heads, CodeFacts
  <2>2. hook' = [hook EXCEPT ![c] = r]
    BY <1>3, <1>6 DEF Saw
  <2> HIDE DEF rest
  <2>1. q \in HookRec /\ q.at = "lock" /\ q.exit = -1 /\ q.todo = <<"hook">>
    <3>1. /\ q \in HookRec /\ q.at = (IF rest = << >> THEN "ended" ELSE "lock")
          /\ q.exit = (IF rest = << >> THEN 0 ELSE -1) /\ q.todo = rest
      <4>1. hook[c] \in HookRec /\ rest \in Seq(StepNames) /\ 0 \in Codes
        BY <1>5, <2>0
      <4> QED BY ONLY <4>1, OnwardFacts
    <3> HIDE DEF q
    <3> QED BY <2>0, <3>1
  <2> HIDE DEF q
  <2>3. r \in HookRec /\ r.at = "lock" /\ r.exit = -1 /\ r.todo = <<"hook">> /\ r.saw = saw
    BY <1>4, <2>1, RecSaw
  <2> HIDE DEF r
  <2>4. TodoOK(bench, c, r)
    BY <1>2, <1>5, <1>6, <2>3, Heads DEF TodoOK
  <2>5. RecOK(bench, c, r)
    BY <2>3, <2>4 DEF RecOK
  <2> QED BY <1>1, <1>2, <2>2, <2>3, <2>5, StepEnds
<1>7. CASE saw # Job(c).needs
  <2> DEFINE code == IF saw = "failed" THEN HookFailed ELSE PowerRefusal
  <2>1. code \in Codes /\ code # 0
    BY DEF Codes, HookFailed, PowerRefusal
  <2>2. HookEnds(c, code)
    BY <1>3, <1>7
  <2> HIDE DEF code
  <2> QED BY <1>1, <1>2, <2>1, <2>2, HookEndsFacts, StepEnds
<1> QED BY <1>6, <1>7

\* A cycle was confirmed, or not yet.
LEMMA ConfirmKeeps == ASSUME HookInv, NEW c \in HookCmds, ConfirmPowerOn(c) PROVE HookInv'
<1>1. hook[c].at = "run" /\ Doing(c, "confirm") /\ Drops(c) /\ bench' = bench /\ power' \in [Boards -> BOOLEAN]
  BY DEF ConfirmPowerOn, Doing, HookInv, HookTypes
<1>2. Job(c).verb = "cycle" /\ hook[c].todo = <<"confirm">> /\ ~Doing(c, "hook")
  BY <1>1, DoingVerb, Heads DEF Doing
<1>3. PICK saw \in Reads(c) :
       hook' = [hook EXCEPT ![c] =
         IF saw = "off" /\ hook[c].reads < ConfirmBy THEN [Onward(c, hook[c].todo, 0) EXCEPT !.reads = @ + 1]
         ELSE [Onward(c, << >>, [on |-> 0, off |-> Late, failed |-> HookFailed][saw]) EXCEPT !.saw = saw]]
  BY DEF ConfirmPowerOn
<1>4. saw \in {"on", "off", "failed"}
  BY DEF Reads
<1>5. hook[c] \in HookRec /\ Job(c) = bench.job[c] /\ hook[c].todo \in Seq(StepNames) /\ << >> \in Seq(StepNames)
  BY <1>1, DoingFacts
<1>6. CASE saw = "off" /\ hook[c].reads < ConfirmBy
  <2> DEFINE rest == hook[c].todo
             q == Onward(c, rest, 0)
             r == ReadAgain(q)
  <2>0. rest = <<"confirm">> /\ rest # << >> /\ rest \in Seq(StepNames) /\ 0 \in Codes
    BY <1>2, <1>5, Heads, CodeFacts
  <2>2. hook' = [hook EXCEPT ![c] = r]
    BY <1>3, <1>6 DEF ReadAgain
  <2> HIDE DEF rest
  <2>1. q \in HookRec /\ q.at = "lock" /\ q.exit = -1 /\ q.todo = <<"confirm">>
    <3>1. /\ q \in HookRec /\ q.at = (IF rest = << >> THEN "ended" ELSE "lock")
          /\ q.exit = (IF rest = << >> THEN 0 ELSE -1) /\ q.todo = rest
      <4>1. hook[c] \in HookRec /\ rest \in Seq(StepNames) /\ 0 \in Codes
        BY <1>5, <2>0
      <4> QED BY ONLY <4>1, OnwardFacts
    <3> HIDE DEF q
    <3> QED BY <2>0, <3>1
  <2> HIDE DEF q
  <2>3. r \in HookRec /\ r.at = "lock" /\ r.exit = -1 /\ r.todo = <<"confirm">>
    BY <2>1, RecAgain
  <2> HIDE DEF r
  <2>4. TodoOK(bench, c, r)
    BY <1>2, <1>5, <2>3, Heads DEF TodoOK
  <2>5. RecOK(bench, c, r)
    BY <2>3, <2>4 DEF RecOK
  <2> QED BY <1>1, <1>2, <2>2, <2>3, <2>5, StepEnds
<1>7. CASE ~(saw = "off" /\ hook[c].reads < ConfirmBy)
  <2> DEFINE code == [on |-> 0, off |-> Late, failed |-> HookFailed][saw]
             rest == << >>
             q == Onward(c, rest, code)
             r == Saw(q, saw)
  <2>1. code \in Codes /\ (code = 0 => saw = "on")
    BY <1>4 DEF Codes, Late, Timeout, HookFailed
  <2>2. hook' = [hook EXCEPT ![c] = r]
    BY <1>3, <1>7 DEF Saw
  <2> HIDE DEF code
  <2>0. rest = << >> /\ rest \in Seq(StepNames)
    BY <1>5
  <2> HIDE DEF rest
  <2>3. q \in HookRec /\ q.at = "ended" /\ q.exit = code
    <3>1. /\ q \in HookRec /\ q.at = (IF rest = << >> THEN "ended" ELSE "lock")
          /\ q.exit = (IF rest = << >> THEN code ELSE -1)
      <4>1. hook[c] \in HookRec /\ rest \in Seq(StepNames) /\ code \in Codes
        BY <1>5, <2>0, <2>1
      <4> QED BY ONLY <4>1, OnwardFacts
    <3> HIDE DEF q
    <3> QED BY <2>0, <3>1
  <2> HIDE DEF q
  <2>4. r \in HookRec /\ r.at = "ended" /\ r.exit = code /\ r.saw = saw
    BY <1>4, <2>3, RecSaw
  <2> HIDE DEF r
  <2>5. RecOK(bench, c, r)
    BY <2>1, <2>4 DEF RecOK, Busy
  <2> QED BY <1>1, <1>2, <2>2, <2>4, <2>5, StepEnds
<1> QED BY <1>6, <1>7

Killed(r) == [r EXCEPT !.at = "killed"]
\* A killed command keeps what it had read.
LEMMA RecKilled ==
  ASSUME NEW r \in HookRec, NEW b, NEW c, RecOK(b, c, r)
  PROVE  Killed(r) \in HookRec /\ Killed(r).at = "killed" /\ RecOK(b, c, Killed(r))
<1>1. Killed(r) \in HookRec /\ Killed(r).at = "killed" /\ Killed(r).exit = r.exit /\ Killed(r).saw = r.saw
  BY DEF HookRec, Killed
<1> HIDE DEF Killed
<1> QED BY <1>1 DEF RecOK, Busy

\* Ctrl-C takes a user's command with everything its hooks run, and their locks.
LEMMA InterruptKeeps == ASSUME HookInv, NEW c \in Tops, InterruptHook(c) PROVE HookInv'
<1> DEFINE U == Under(c)
<1>0. Nobody \notin HookCmds
  BY HooksAssumption
<1>1. bench' = bench /\ power' = power
  BY DEF InterruptHook
<1>2. hook' = [d \in HookCmds |-> IF d \in U /\ hook[d].at # "ended" THEN Killed(hook[d]) ELSE hook[d]]
  BY DEF InterruptHook, Killed
<1>3. lockOf' = [w \in Places |-> IF lockOf[w] \in U THEN Nobody ELSE lockOf[w]]
  BY DEF InterruptHook, HookInv, HookTypes
<1>4. U \subseteq HookCmds
  BY DEF Under
<1>5. \A n \in Nested : Parent[n] \in U => n \in U
  <2> SUFFICES ASSUME NEW n \in Nested, Parent[n] \in U PROVE n \in U
    OBVIOUS
  <2>1. n \in HookCmds /\ (Parent[n] \in Nested => Parent[Parent[n]] \in Tops) /\ Tops \cap Nested = {}
    BY ParentFacts, HooksAssumption
  <2> QED BY <2>1 DEF Under
<1> HIDE DEF U
<1>6. \A d \in HookCmds : hook[d] \in HookRec /\ RecOK(bench, d, hook[d])
  BY DEF HookInv, HookTypes, RecInv
<1>7. \A d \in HookCmds : hook'[d] \in HookRec /\ RecOK(bench, d, hook'[d])
  BY <1>2, <1>6, RecKilled
<1>8. HookTypes' /\ RecInv'
  <2>1. hook' \in [HookCmds -> HookRec]
    BY <1>2, <1>7
  <2>2. lockOf' \in [Places -> HookCmds \cup {Nobody}]
    BY <1>3 DEF HookInv, HookTypes
  <2> QED BY <1>1, <1>7, <2>1, <2>2 DEF HookTypes, HookInv, RecInv
<1>9. \A d \in HookCmds : hook'[d].at \in Busy => d \notin U /\ hook'[d] = hook[d]
  BY <1>2, <1>6, RecKilled DEF Busy
<1>10. \A d \in HookCmds : d \notin U => hook'[d] = hook[d]
  BY <1>2
<1>11. ChainInv'
  <2> SUFFICES ASSUME NEW n \in Nested, hook'[n].at \in Busy PROVE Doing(Parent[n], "hook")'
    BY DEF ChainInv
  <2>1. n \in HookCmds /\ Parent[n] \in HookCmds
    BY ParentFacts
  <2>2. n \notin U /\ hook'[n] = hook[n]
    BY <1>9, <2>1
  <2>3. Doing(Parent[n], "hook") /\ Parent[n] \notin U
    BY <1>5, <2>2 DEF HookInv, ChainInv
  <2> QED BY <1>1, <1>10, <2>1, <2>3, SameCommands
<1>12. LockIsHeldByDriver'
  <2>1. ASSUME NEW w \in Places, NEW x \in HookCmds, lockOf'[w] = x PROVE Driving(x)' /\ Lock(x)' = w
    <3>1. lockOf[w] = x /\ x \notin U
      BY <1>0, <1>3, <2>1
    <3>2. Driving(x) /\ Lock(x) = w
      BY <1>0, <3>1 DEF HookInv, LockIsHeldByDriver, HookTypes
    <3> QED BY <1>1, <1>10, <3>1, <3>2, SameCommands
  <2> QED BY <1>8, <2>1 DEF LockIsHeldByDriver, HookTypes
<1>13. OwnInv'
  <2> SUFFICES ASSUME NEW d \in HookCmds, Driving(d)', ~LockInherited(d)' PROVE lockOf'[Lock(d)'] = d
    BY DEF OwnInv
  <2>1. d \notin U /\ hook'[d] = hook[d]
    BY <1>9 DEF Driving, Busy
  <2>2. lockOf[Lock(d)] = d /\ Lock(d)' = Lock(d)
    BY <1>1, <2>1, SameCommands DEF HookInv, OwnInv
  <2> QED BY <1>3, <2>1, <2>2, LockPlace DEF HookInv
<1> QED BY <1>8, <1>11, <1>12, <1>13 DEF HookInv

\* What a command that is not under way does leaves the commands alone.
LEMMA Idle ==
  ASSUME HookInv, UNCHANGED <<bench, hook, lockOf>>, power' \in [Boards -> BOOLEAN]
  PROVE  HookInv'
<1>1. HookTypes' /\ RecInv'
  BY DEF HookInv, HookTypes, RecInv
<1>2. ChainInv' /\ LockIsHeldByDriver' /\ OwnInv'
  BY DEF HookInv, ChainInv, Doing, LockIsHeldByDriver, OwnInv, Driving, Lock, HostOf, Job, LockInherited, HeldEnv
<1> QED BY <1>1, <1>2 DEF HookInv

HooksAll == HookInv /\ VerdictIsDefault /\ PressFits

\* At every step of any number of commands and the commands their hooks run, each lock is with
\* a driver of its device and each driver is where its verb and what it read allow.
THEOREM HooksInvariant == HooksSpec => []HooksAll
<1>1. HooksInit /\ PressInit => HooksAll
  <2>1. PressInit => VerdictIsDefault
    BY DEF PressInit, VerdictIsDefault, ParsePowerStateLine, Lines
  <2>2. PressInit => PressFits
    BY HooksAssumption DEF PressInit, PressFits, DtrTimeout, SaturatingAdd, Floor, Slack
  <2> QED BY <2>1, <2>2, HooksInitInv DEF HooksAll
<1>2. HooksAll /\ [HooksNext /\ UNCHANGED press]_<<hookVars, press>> => HooksAll'
  <2> SUFFICES ASSUME HooksAll, [HooksNext /\ UNCHANGED press]_<<hookVars, press>> PROVE HooksAll'
    OBVIOUS
  <2>1. VerdictIsDefault' /\ PressFits'
    BY DEF HooksAll, VerdictIsDefault, PressFits, ParsePowerStateLine, Lines, DtrTimeout, SaturatingAdd
  <2>2. HookInv
    BY DEF HooksAll
  <2>3. HookInv'
    <3>1. CASE \E c \in HookCmds : Begin(c) \/ HookStep(c)
      BY <2>2, <3>1, BeginKeeps, HookLockKeeps, RunHookKeeps, ReadStateKeeps, CheckPowerKeeps, ConfirmKeeps DEF HookStep
    <3>2. CASE \E t \in Boards : RelayDone(t)
      BY <2>2, <3>2, Idle DEF RelayDone, HookInv, HookTypes
    <3>3. CASE \E c \in Tops : InterruptHook(c)
      BY <2>2, <3>3, InterruptKeeps
    <3>4. CASE UNCHANGED <<hookVars, press>>
      BY <2>2, <3>4, Idle DEF hookVars, HookInv, HookTypes
    <3> QED BY <3>1, <3>2, <3>3, <3>4 DEF HooksNext
  <2> QED BY <2>1, <2>3 DEF HooksAll
<1> QED BY <1>1, <1>2, PTL DEF HooksSpec

\* Who inherits a lock drives what its parent drives.
LEMMA InheritedFacts ==
  ASSUME HookInv, NEW c \in HookCmds, hook[c].at \in Busy, LockInherited(c)
  PROVE  c \in Nested /\ Parent[c] \in HookCmds /\ Driving(Parent[c]) /\ Lock(Parent[c]) = Lock(c)
<1>1. c \in Nested /\ HostOf(c, Head(hook[c].todo)) = HostOf(Parent[c], "hook") /\ Job(Parent[c]).target = Job(c).target
  BY LockPlace, HooksAssumption DEF LockInherited, HeldEnv, HookInv
<1>2. Parent[c] \in HookCmds /\ Doing(Parent[c], "hook")
  BY <1>1, ParentFacts DEF HookInv, ChainInv
<1> QED BY <1>1, <1>2 DEF Doing, Driving, Lock

\* The lock's holder is found by going up from any driver, at most twice.
LEMMA ExclusiveFact == HookInv => DeviceIsExclusive
<1> SUFFICES ASSUME HookInv, NEW c \in HookCmds, Driving(c)
             PROVE  \E h \in HookCmds : lockOf[Lock(c)] = h /\ c \in Under(h)
  BY DEF DeviceIsExclusive
<1>0. hook[c].at \in Busy
  BY DEF Driving, Busy
<1>1. CASE ~LockInherited(c)
  BY <1>1 DEF HookInv, OwnInv, Under
<1>2. CASE LockInherited(c)
  <2> DEFINE p == Parent[c]
  <2>1. c \in Nested /\ p \in HookCmds /\ Driving(p) /\ Lock(p) = Lock(c) /\ hook[p].at \in Busy
    BY <1>0, <1>2, InheritedFacts DEF Driving, Busy
  <2>2. CASE ~LockInherited(p)
    BY <2>1, <2>2 DEF HookInv, OwnInv, Under
  <2>3. CASE LockInherited(p)
    <3>1. p \in Nested /\ Parent[p] \in HookCmds /\ Driving(Parent[p]) /\ Lock(Parent[p]) = Lock(c)
      BY <2>1, <2>3, InheritedFacts
    <3>2. Parent[p] \notin Nested
      BY <2>1, <3>1, HooksAssumption
    <3>3. ~LockInherited(Parent[p])
      BY <3>1, <3>2, LockPlace, HooksAssumption DEF LockInherited, HeldEnv, HookInv
    <3> QED BY <2>1, <3>1, <3>3 DEF HookInv, OwnInv, Under
  <2> QED BY <2>2, <2>3
<1> QED BY <1>1, <1>2

\* However commands, the commands their hooks run and interruptions interleave: whoever drives
\* a device has its lock or runs inside the hook that has it, a nested command never waits for
\* its own parent, the lock of a command that is gone is free, and a power outcome is reported
\* only as it was read (hook_lock, lock_inherited, run_hook, cmd_power_cycle, cmd_action_run).
THEOREM DevicesAlwaysDrivenSafely == HooksSpec => []DevicesAreDrivenSafely
<1>1. HooksAll => DevicesAreDrivenSafely
  <2> SUFFICES ASSUME HooksAll PROVE DevicesAreDrivenSafely
    OBVIOUS
  <2>0. HookInv /\ VerdictIsDefault /\ PressFits
    BY DEF HooksAll
  <2>1. HooksTypeOK
    BY <2>0 DEF HookInv, HookTypes, HooksTypeOK, HookRec, Codes, Polls
  <2>2. NestedNeverWaits
    <3> SUFFICES ASSUME NEW n \in Nested, hook[n].at = "lock", ~LockInherited(n), lockOf[Lock(n)] = Parent[n] PROVE FALSE
      BY DEF NestedNeverWaits
    <3>1. n \in HookCmds /\ Parent[n] \in HookCmds /\ Doing(Parent[n], "hook")
      BY <2>0, ParentFacts DEF HookInv, ChainInv, Busy
    <3>2. Lock(n) \in DOMAIN lockOf /\ lockOf[Lock(n)] # Nobody
      BY <2>0, <3>1, LockPlace, HooksAssumption DEF HookInv, HookTypes
    <3>3. Lock(Parent[n]) = Lock(n)
      BY <2>0, <3>2 DEF HookInv, LockIsHeldByDriver
    <3>4. HostOf(Parent[n], "hook") = HostOf(n, Head(hook[n].todo)) /\ Job(Parent[n]).target = Job(n).target
      BY <3>1, <3>3 DEF Lock, Doing
    <3> QED BY <3>4 DEF LockInherited, HeldEnv
  <2>3. ASSUME NEW c \in HookCmds
        PROVE  /\ Job(c).verb = "cycle" /\ hook[c].exit = 0 => hook[c].saw = "on" \/ "state" \notin bench.levels[Job(c).level]
               /\ Job(c).verb = "action" /\ Doing(c, "hook") => Job(c).needs \in {"any", hook[c].saw}
               /\ Job(c).verb \in {"on", "off", "cycle"} /\ Doing(c, "hook") => Job(c).verb \in bench.levels[Job(c).level]
    <3>1. RecOK(bench, c, hook[c]) /\ Job(c) = bench.job[c]
      BY <2>0 DEF HookInv, RecInv, Job
    <3>2. Doing(c, "hook") => TodoOK(bench, c, hook[c]) /\ Head(hook[c].todo) = "hook"
      BY <3>1 DEF RecOK, Doing, Busy
    <3>3. Job(c).verb = "cycle" /\ hook[c].exit = 0 => hook[c].saw = "on" \/ "state" \notin bench.levels[Job(c).level]
      BY <3>1 DEF RecOK
    <3>4. Doing(c, "hook") =>
            /\ Job(c).verb = "action" => Job(c).needs \in {"any", hook[c].saw}
            /\ Job(c).verb \in {"on", "off", "cycle"} => Job(c).verb \in bench.levels[Job(c).level]
      BY <3>1, <3>2, Heads DEF TodoOK
    <3> QED BY <3>3, <3>4
  <2>4. OutcomeWasRead /\ LevelsAreKeptApart
    BY <2>3 DEF OutcomeWasRead, LevelsAreKeptApart
  <2>5. DeviceIsExclusive /\ LockIsHeldByDriver
    BY <2>0, ExclusiveFact DEF HookInv
  <2> QED BY <2>0, <2>1, <2>2, <2>4, <2>5 DEF DevicesAreDrivenSafely
<1> QED BY <1>1, HooksInvariant, PTL

-----------------------------------------------------------------------------
(***************************************************************************)
(* The AMT helper, for any cases, any power states, any number of lost     *)
(* exchanges and any times.  What it says of the machine is so because the *)
(* engine was only ever asked for what this command wants (PowerInv), and  *)
(* a request that may have been obeyed is of the same kind as its retry.   *)
(***************************************************************************)
PowerSteps == {"reqOff", "reqOn", "waitOff", "waitOn"}
Pcs == {"start", "read", "hold", "end"} \cup PowerSteps \cup KvmSteps
Results == [kind : {"none", "ok", "transient", "fatal", "auth"}, val : Nat]
Engines == [power : Nat, target : {0, PsOn, PsOffSoft}, colds : {0, 1}, off : BOOLEAN, port : BOOLEAN, redir : BOOLEAN,
            stored : BOOLEAN, optin : BOOLEAN, bad : Nat, plain : BOOLEAN, invalid : BOOLEAN, badRfb : BOOLEAN]

AmtTypes ==
  /\ amt \in AmtCases /\ me \in Engines /\ pc \in Pcs /\ leg \in {"idle", "first", "second"}
  /\ spent \in Nat /\ ends \in Nat /\ got \in Results /\ amtFaults \in 0..AmtFaults

\* A request that is under way has no result yet, and a command that has spoken has ended.
RunInv ==
  /\ leg # "idle" => got = NoneGot /\ pc \notin {"start", "hold", "end"}
  /\ pc \in {"start", "hold", "end"} => got = NoneGot
  /\ got.kind = "none" => got = NoneGot
  /\ leg = "second" => ParseChallenge
  /\ pc # "end" => verdict = "none"
  /\ pc \in KvmSteps => amt.cmd \in {"enable", "disable"}
  /\ pc \in PowerSteps \cup {"hold"} => amt.cmd \in {"on", "off", "cycle"}
  /\ pc \in {"reqOff", "waitOff"} => amt.cmd # "on"
  /\ pc \in {"reqOn", "waitOn"} => amt.cmd # "off"
  /\ pc = "hold" => amt.cmd = "cycle"
  /\ pc = "read" => amt.cmd \notin {"enable", "disable"}

\* Which states the machine may be in, by what it was asked for.
PowerInv ==
  /\ amt.cmd \notin {"on", "off", "cycle"} \/ pc \in {"start", "read"} => me.target = 0
  /\ amt.cmd = "on" => me.target # PsOffSoft
  /\ amt.cmd = "off" \/ pc \in {"reqOff", "waitOff", "hold"} => me.target # PsOn
  /\ amt.cmd = "cycle" /\ pc = "hold" => me.power = PsOffSoft
  /\ amt.cmd = "cycle" /\ pc \in {"reqOn", "waitOn"} =>
       \/ me.power = PsOffSoft
       \/ me.power = PsOn /\ me.colds = 1 /\ me.target # PsOffSoft
  /\ got.kind = "ok" =>
       /\ pc = "read" => got.val = me.power
       /\ pc = "waitOff" /\ got.val = PsOffSoft => me.power = PsOffSoft
       /\ pc = "waitOn" /\ got.val = PsOn => me.power = PsOn
  /\ verdict = "on" => me.power = PsOn /\ me.target # PsOffSoft
  /\ verdict = "off" => me.power # PsOn /\ me.target # PsOn
  /\ verdict = "cycled" => me.power = PsOn /\ me.colds = 1 /\ me.target # PsOffSoft

\* What a request may still take.
BudgetInv ==
  /\ leg = "idle" /\ got = NoneGot /\ pc \notin PowerSteps \cup {"end"} => spent = 0
  /\ leg = "idle" /\ got = NoneGot /\ pc # "end" => spent < Confirm + PollEvery
  /\ leg = "first" => spent + MinCall <= ends
  /\ leg = "second" => spent <= ends
  /\ leg # "idle" => ends < Confirm + PollEvery + MinCall

\* A wrong password gets no further than the first request, which is not retried.
LoginInv ==
  /\ amt.password = "wrong" => pc \in {"start", "read", "kget", "end"} /\ got.kind # "ok"
  /\ me.bad <= 1
  /\ me.bad = 1 => amt.password = "wrong" /\ (pc = "end" \/ got # NoneGot)

\* How far `kvm enable` and `kvm disable` have got.
KvmInv ==
  /\ pc \in {"kraw", "kput", "kstate", "kread", "ksap"} /\ Opening => CheckRfbPassword
  /\ pc \in {"kstate", "kread", "ksap"} \/ (pc = "kput" /\ got.kind = "ok") => me.port = Opening

AmtInv ==
  /\ AmtTypes /\ RunInv /\ PowerInv /\ BudgetInv /\ LoginInv /\ KvmInv
  /\ NoDowngrade /\ DisableIsConservative /\ PutIsWellFormed /\ BudgetHolds

\* The constants.
LEMMA AmtNumbers ==
  /\ Confirm \in Nat /\ Call \in Nat /\ MinCall \in Nat /\ PollEvery \in Nat /\ AmtFaults \in Nat
  /\ Confirm > 0 /\ MinCall > 0 /\ PollEvery > 0 /\ MinCall <= Call /\ Call <= Confirm
BY AmtAssumption

\* What is known of a case.
LEMMA CaseFacts ==
  ASSUME NEW c \in AmtCases
  PROVE  /\ c.cmd \in {"state", "on", "off", "cycle", "enable", "disable"} /\ c.scheme \in {"bare", "http", "https"}
         /\ c.flag \in BOOLEAN /\ c.password \in {"right", "wrong"}
BY AmtAssumption

\* Every body is in the order of the schema.
LEMMA PutInOrder == \A w : InSchemaOrder(KvmPutBody(w))
<1>1. DOMAIN KvmFields = 1..8
  BY DEF KvmFields
<1>2. \A i \in 1..8 : SchemaRank[KvmFields[i]] = i
  <2> TAKE i \in 1..8
  <2>1. i = 1 \/ i = 2 \/ i = 3 \/ i = 4 \/ i = 5 \/ i = 6 \/ i = 7 \/ i = 8
    OBVIOUS
  <2> QED BY <2>1 DEF KvmFields, SchemaRank
<1> TAKE w
<1>3. DOMAIN KvmPutBody(w) \subseteq 1..8 /\ \A i \in DOMAIN KvmPutBody(w) : KvmPutBody(w)[i] = KvmFields[i]
  BY <1>1 DEF KvmPutBody
<1> QED BY <1>2, <1>3 DEF InSchemaOrder

\* The engine, asked something it understands.
LEMMA ObeysFields ==
  ASSUME AmtTypes, pc \in {"read"} \cup PowerSteps \cup KvmSteps
  PROVE  /\ Obeys \in Engines
         /\ Obeys.power = me.power /\ Obeys.colds = me.colds /\ Obeys.bad = me.bad /\ Obeys.plain = me.plain
         /\ Obeys.invalid = me.invalid
         /\ Obeys.target = (IF pc = "reqOn" THEN PsOn ELSE IF pc = "reqOff" THEN PsOffSoft ELSE me.target)
         /\ pc # "kstate" => Obeys.redir = me.redir
         /\ pc = "kstate" => Obeys.redir = Opening
         /\ pc # "kput" => Obeys.port = me.port /\ Obeys.badRfb = me.badRfb
         /\ pc = "kput" => \/ Opening /\ ~(me.stored \/ WithPw) /\ Obeys = me
                           \/ /\ ~(Opening /\ ~(me.stored \/ WithPw)) /\ Obeys.port = Opening
                              /\ Obeys.badRfb = (me.badRfb \/ (WithPw /\ amt.rfb = "bad"))
<1>0. me \in Engines /\ Opening \in BOOLEAN /\ WithPw \in BOOLEAN /\ PsOn # 0 /\ PsOffSoft # 0
  BY DEF AmtTypes, Opening, WithPw, PsOn, PsOffSoft
<1>1. CASE pc \in {"reqOff", "reqOn"}
  <2> DEFINE t == IF pc = "reqOn" THEN PsOn ELSE PsOffSoft
  <2>1. Obeys = [me EXCEPT !.target = t]
    BY <1>1 DEF Obeys, KvmReads
  <2>2. t \in {0, PsOn, PsOffSoft} /\ me \in Engines
    BY <1>0
  <2>3. t = (IF pc = "reqOn" THEN PsOn ELSE IF pc = "reqOff" THEN PsOffSoft ELSE me.target)
    BY <1>1
  <2> HIDE DEF t
  <2>4. Obeys \in Engines
    BY ONLY <2>1, <2>2 DEF Engines
  <2>5. /\ Obeys.power = me.power /\ Obeys.colds = me.colds /\ Obeys.bad = me.bad /\ Obeys.plain = me.plain
        /\ Obeys.invalid = me.invalid /\ Obeys.target = t /\ Obeys.redir = me.redir /\ Obeys.port = me.port
        /\ Obeys.badRfb = me.badRfb
    BY ONLY <2>1, <2>2 DEF Engines
  <2> QED BY <1>1, <2>3, <2>4, <2>5
<1>2. CASE pc = "kput"
  <2>1. Obeys = IF Opening /\ ~(me.stored \/ WithPw) THEN me
                ELSE [me EXCEPT !.port = Opening, !.stored = @ \/ WithPw, !.optin = IF Opening THEN FALSE ELSE @,
                                !.badRfb = @ \/ (WithPw /\ amt.rfb = "bad")]
    BY <1>2, PutInOrder DEF Obeys, KvmReads
  <2>2. CASE Opening /\ ~(me.stored \/ WithPw)
    BY <1>0, <1>2, <2>1, <2>2
  <2>3. CASE ~(Opening /\ ~(me.stored \/ WithPw))
    <3> DEFINE st == me.stored \/ WithPw
               op == IF Opening THEN FALSE ELSE me.optin
               br == me.badRfb \/ (WithPw /\ amt.rfb = "bad")
    <3>1. Obeys = [me EXCEPT !.port = Opening, !.stored = st, !.optin = op, !.badRfb = br]
      BY <1>0, <2>1, <2>3 DEF Engines
    <3>2. st \in BOOLEAN /\ op \in BOOLEAN /\ br \in BOOLEAN
      BY <1>0 DEF Engines
    <3> HIDE DEF st, op, br
    <3>4. Opening \in BOOLEAN /\ me \in Engines
      BY <1>0
    <3>5. Obeys \in Engines
      <4> DEFINE m1 == [me EXCEPT !.port = Opening]
                 m2 == [m1 EXCEPT !.stored = st]
                 m3 == [m2 EXCEPT !.optin = op]
                 m4 == [m3 EXCEPT !.badRfb = br]
      <4>1. Obeys = m4
        BY ONLY <3>1
      <4>2. m1 \in Engines
        BY ONLY <3>4 DEF Engines
      <4> HIDE DEF m1
      <4>3. m2 \in Engines
        BY ONLY <3>2, <4>2 DEF Engines
      <4> HIDE DEF m2
      <4>4. m3 \in Engines
        BY ONLY <3>2, <4>3 DEF Engines
      <4> HIDE DEF m3
      <4>5. m4 \in Engines
        BY ONLY <3>2, <4>4 DEF Engines
      <4> QED BY ONLY <4>1, <4>5
    <3>6. /\ Obeys.power = me.power /\ Obeys.colds = me.colds /\ Obeys.bad = me.bad
          /\ Obeys.plain = me.plain /\ Obeys.invalid = me.invalid /\ Obeys.target = me.target
          /\ Obeys.redir = me.redir /\ Obeys.port = Opening /\ Obeys.badRfb = br
      BY ONLY <3>1, <3>4 DEF Engines
    <3>3. /\ Obeys \in Engines /\ Obeys.power = me.power /\ Obeys.colds = me.colds /\ Obeys.bad = me.bad
          /\ Obeys.plain = me.plain /\ Obeys.invalid = me.invalid /\ Obeys.target = me.target
          /\ Obeys.redir = me.redir /\ Obeys.port = Opening /\ Obeys.badRfb = br
      BY ONLY <3>5, <3>6
    <3> QED BY <1>2, <2>3, <3>3 DEF br
  <2> QED BY <2>2, <2>3
<1>3. CASE pc = "kstate"
  <2>1. Obeys = [me EXCEPT !.redir = Opening]
    BY <1>3 DEF Obeys, KvmReads
  <2> QED BY <1>0, <1>3, <2>1 DEF Engines
<1>4. CASE pc \in {"kget", "kraw", "kread", "ksap", "read", "waitOff", "waitOn"}
  <2>1. Obeys = me
    BY <1>4 DEF Obeys, KvmReads
  <2> QED BY <1>0, <1>4, <2>1
<1> QED BY <1>1, <1>2, <1>3, <1>4 DEF PowerSteps, KvmSteps

\* An exchange in the clear is noted, and nothing else.
LEMMA PlainFields ==
  ASSUME NEW m \in Engines
  PROVE  /\ Plainly(m) \in Engines /\ Plainly(m).plain = (m.plain \/ Transport = "http")
         /\ Plainly(m).power = m.power /\ Plainly(m).target = m.target /\ Plainly(m).colds = m.colds
         /\ Plainly(m).port = m.port /\ Plainly(m).redir = m.redir /\ Plainly(m).bad = m.bad
         /\ Plainly(m).invalid = m.invalid /\ Plainly(m).badRfb = m.badRfb
<1> DEFINE b == m.plain \/ Transport = "http"
<1>1. b \in BOOLEAN /\ Plainly(m) = [m EXCEPT !.plain = b]
  BY DEF Plainly, Engines
<1> HIDE DEF b
<1>2. /\ Plainly(m) \in Engines /\ Plainly(m).plain = b
      /\ Plainly(m).power = m.power /\ Plainly(m).target = m.target /\ Plainly(m).colds = m.colds
      /\ Plainly(m).port = m.port /\ Plainly(m).redir = m.redir /\ Plainly(m).bad = m.bad
      /\ Plainly(m).invalid = m.invalid /\ Plainly(m).badRfb = m.badRfb
  BY <1>1 DEF Engines
<1> QED BY <1>2 DEF b

\* http is chosen by the flag, and never over https://.
LEMMA HttpIsChosen ==
  ASSUME amt \in AmtCases, Transport = "http"
  PROVE  amt.flag /\ amt.scheme # "https"
BY CaseFacts DEF Transport, ParseDevice

\* The engine and the case alone.
-----------------------------------------------------------------------------
(***************************************************************************)
(* The three ways a command goes on when a request has returned.           *)
(***************************************************************************)
\* What saying v takes.
MaySay(v) ==
  /\ v = "on" => me.power = PsOn /\ me.target # PsOffSoft
  /\ v = "off" => me.power # PsOn /\ me.target # PsOn
  /\ v = "cycled" => me.power = PsOn /\ me.colds = 1 /\ me.target # PsOffSoft
  /\ v = "half applied" => me.port = Opening

\* It says something, and that is all.
LEMMA SayStep ==
  ASSUME AmtInv, NEW v, MaySay(v), leg = "idle", Say(v), UNCHANGED <<amt, me, leg, amtFaults>>
  PROVE  AmtInv'
<1>1. pc' = "end" /\ got' = NoneGot /\ verdict' = v /\ UNCHANGED <<spent, ends, amt, me, leg, amtFaults>>
  BY DEF Say
<1>2. NoneGot \in Results /\ NoneGot.kind = "none"
  BY DEF NoneGot, Results
<1>3. AmtTypes'
  BY <1>1, <1>2 DEF AmtInv, AmtTypes, Pcs
<1>4. RunInv'
  BY <1>1, <1>2 DEF AmtInv, RunInv, PowerSteps, KvmSteps
<1>5. PowerInv'
  BY <1>1, <1>2 DEF AmtInv, PowerInv, MaySay
<1>6. BudgetInv' /\ BudgetHolds'
  BY <1>1 DEF AmtInv, BudgetInv, BudgetHolds
<1>7. LoginInv' /\ KvmInv'
  BY <1>1, <1>2 DEF AmtInv, LoginInv, KvmInv, Opening, CheckRfbPassword
<1>8. NoDowngrade' /\ DisableIsConservative' /\ PutIsWellFormed'
  BY <1>1 DEF AmtInv, NoDowngrade, DisableIsConservative, PutIsWellFormed, MaySay, Opening
<1> QED BY <1>3, <1>4, <1>5, <1>6, <1>7, <1>8 DEF AmtInv

\* What beginning phase p takes.
MayEnter(p) ==
  /\ p \in Pcs \ {"start", "end"} /\ verdict = "none" /\ me.bad # 1
  /\ p \in KvmSteps => amt.cmd \in {"enable", "disable"}
  /\ p \in PowerSteps \cup {"hold"} => amt.cmd \in {"on", "off", "cycle"}
  /\ p \in {"reqOff", "waitOff"} => amt.cmd # "on"
  /\ p \in {"reqOn", "waitOn"} => amt.cmd # "off"
  /\ p = "hold" => amt.cmd = "cycle" /\ me.power = PsOffSoft
  /\ p = "read" => amt.cmd \notin {"enable", "disable"} /\ me.target = 0
  /\ p \in {"reqOff", "waitOff", "hold"} => me.target # PsOn
  /\ amt.cmd = "cycle" /\ p \in {"reqOn", "waitOn"} =>
       me.power = PsOffSoft \/ (me.power = PsOn /\ me.colds = 1 /\ me.target # PsOffSoft)
  /\ amt.password = "wrong" => p \in {"read", "kget"}
  /\ p \in {"kraw", "kput", "kstate", "kread", "ksap"} /\ Opening => CheckRfbPassword
  /\ p \in {"kstate", "kread", "ksap"} => me.port = Opening

\* It begins a phase.
LEMMA PhaseStep ==
  ASSUME AmtInv, NEW p, MayEnter(p), leg = "idle", Phase(p), UNCHANGED <<amt, me, leg, verdict, amtFaults>>
  PROVE  AmtInv'
<1>1. /\ pc' = p /\ got' = NoneGot /\ spent' = 0 /\ ends' = 0 /\ UNCHANGED <<amt, me, leg, verdict, amtFaults>>
  BY DEF Phase
<1>2. NoneGot \in Results /\ NoneGot.kind = "none"
  BY DEF NoneGot, Results
<1>3. AmtTypes'
  BY <1>1, <1>2 DEF AmtInv, AmtTypes, MayEnter
<1>4. RunInv'
  BY <1>1, <1>2 DEF AmtInv, RunInv, MayEnter
<1>5. PowerInv'
  BY <1>1, <1>2 DEF AmtInv, PowerInv, MayEnter
<1>6. BudgetInv' /\ BudgetHolds'
  BY <1>1, AmtNumbers DEF BudgetInv, BudgetHolds
<1>7. LoginInv' /\ KvmInv'
  BY <1>1, <1>2 DEF AmtInv, LoginInv, KvmInv, MayEnter, Opening, CheckRfbPassword
<1>8. NoDowngrade' /\ DisableIsConservative' /\ PutIsWellFormed'
  BY <1>1 DEF AmtInv, NoDowngrade, DisableIsConservative, PutIsWellFormed, Opening
<1> QED BY <1>3, <1>4, <1>5, <1>6, <1>7, <1>8 DEF AmtInv

\* It tries again, before the deadline.
LEMMA AgainStep ==
  ASSUME AmtInv, pc \in PowerSteps, leg = "idle", spent < Confirm, Again, UNCHANGED <<amt, me, leg, before, amtFaults>>
  PROVE  AmtInv'
<1>1. /\ spent' = spent + PollEvery /\ got' = NoneGot /\ UNCHANGED <<pc, ends, verdict, amt, me, leg, amtFaults>>
  BY DEF Again
<1>2. NoneGot \in Results /\ NoneGot.kind = "none"
  BY DEF NoneGot, Results
<1>3. AmtTypes'
  BY <1>1, <1>2, AmtNumbers DEF AmtInv, AmtTypes
<1>4. RunInv'
  BY <1>1, <1>2 DEF AmtInv, RunInv, ParseChallenge
<1>5. PowerInv'
  BY <1>1, <1>2 DEF AmtInv, PowerInv
<1>6. BudgetInv' /\ BudgetHolds'
  BY <1>1, AmtNumbers DEF AmtInv, AmtTypes, BudgetInv, BudgetHolds
<1>7. LoginInv' /\ KvmInv'
  <2>1. amt.password # "wrong" /\ pc \notin KvmSteps
    BY DEF AmtInv, LoginInv, PowerSteps, KvmSteps
  <2>2. me.bad # 1
    BY <2>1 DEF AmtInv, LoginInv
  <2> QED BY <1>1, <1>2, <2>1, <2>2 DEF AmtInv, LoginInv, KvmInv, Opening, CheckRfbPassword
<1>8. NoDowngrade' /\ DisableIsConservative' /\ PutIsWellFormed'
  BY <1>1 DEF AmtInv, NoDowngrade, DisableIsConservative, PutIsWellFormed, Opening
<1> QED BY <1>3, <1>4, <1>5, <1>6, <1>7, <1>8 DEF AmtInv

-----------------------------------------------------------------------------
(***************************************************************************)
(* The steps.                                                              *)
(***************************************************************************)
\* Validating the address.
LEMMA ConnectStep ==
  ASSUME AmtInv, AmtConnect
  PROVE  AmtInv'
<1>1. pc = "start" /\ leg = "idle" /\ got = NoneGot /\ verdict = "none" /\ UNCHANGED <<amt, me, leg, amtFaults>>
      /\ me.target = 0 /\ me.bad # 1 /\ amt \in AmtCases
  BY DEF AmtConnect, AmtInv, RunInv, PowerInv, LoginInv, AmtTypes
<1>2. CASE Say("address refused")
  <2>1. MaySay("address refused")
    BY DEF MaySay
  <2> QED BY <1>1, <1>2, <2>1, SayStep
<1>3. CASE Phase(IF amt.cmd \in {"enable", "disable"} THEN "kget" ELSE "read") /\ UNCHANGED verdict
  <2>1. MayEnter(IF amt.cmd \in {"enable", "disable"} THEN "kget" ELSE "read")
    BY <1>1 DEF MayEnter, Pcs, PowerSteps, KvmSteps
  <2> QED BY <1>1, <1>3, <2>1, PhaseStep
<1> QED BY <1>2, <1>3 DEF AmtConnect

\* A request begins, with its budget.
LEMMA BeginStep ==
  ASSUME AmtInv, PostBegins
  PROVE  AmtInv'
<1>1. /\ pc \notin {"start", "hold", "end"} /\ leg = "idle" /\ got = NoneGot /\ leg' = "first" /\ ends' = spent + Budget
      /\ UNCHANGED <<amt, me, pc, spent, got, before, verdict, amtFaults>>
  BY DEF PostBegins
<1>2. spent \in Nat /\ spent < Confirm + PollEvery /\ (pc \notin PowerSteps => spent = 0)
  BY <1>1 DEF AmtInv, AmtTypes, BudgetInv
<1>3. Budget \in Nat /\ Budget >= MinCall /\ spent + Budget < Confirm + PollEvery + MinCall
  <2>1. CASE pc \in PowerSteps
    BY <1>2, <2>1, AmtNumbers DEF Budget, AttemptTimeout, Clamp, PowerSteps
  <2>2. CASE pc \notin PowerSteps
    BY <1>2, <2>2, AmtNumbers DEF Budget, PowerSteps
  <2> QED BY <2>1, <2>2
<1> HIDE DEF Budget
<1>4. AmtTypes'
  BY <1>1, <1>2, <1>3 DEF AmtInv, AmtTypes
<1>5. RunInv' /\ PowerInv'
  BY <1>1 DEF AmtInv, RunInv, PowerInv, ParseChallenge
<1>6. BudgetInv' /\ BudgetHolds'
  BY <1>1, <1>2, <1>3, AmtNumbers DEF AmtInv, BudgetInv, BudgetHolds
<1>7. LoginInv' /\ KvmInv'
  BY <1>1 DEF AmtInv, LoginInv, KvmInv, Opening, CheckRfbPassword
<1>8. NoDowngrade' /\ DisableIsConservative' /\ PutIsWellFormed'
  BY <1>1 DEF AmtInv, NoDowngrade, DisableIsConservative, PutIsWellFormed, Opening
<1> QED BY <1>4, <1>5, <1>6, <1>7, <1>8 DEF AmtInv

\* What a leg takes: within the budget, and on http one floor past it.
LEMMA LegFacts ==
  ASSUME AmtInv, leg # "idle", Takes(LegLimit)
  PROVE  /\ spent' \in Nat
         /\ leg = "first" => spent' <= ends
         /\ spent' <= Confirm + PollEvery + 2 * MinCall
<1>1. /\ spent \in Nat /\ ends \in Nat /\ (leg = "first" => spent + MinCall <= ends) /\ spent <= ends
      /\ ends < Confirm + PollEvery + MinCall
  <2>1. leg \in {"first", "second"} /\ spent \in Nat /\ ends \in Nat
    BY DEF AmtInv, AmtTypes
  <2> QED BY <2>1, AmtNumbers DEF AmtInv, BudgetInv
<1> DEFINE left == ends - spent
<1>2. left \in Nat /\ LegLimit \in {left, IF left < MinCall THEN MinCall ELSE left}
  BY <1>1 DEF LegLimit
<1>3. spent' = spent \/ spent' = spent + LegLimit
  BY <1>1 DEF Takes, LegLimit
<1>4. LegLimit \in Nat /\ (leg = "first" => spent + LegLimit = ends) /\ spent + LegLimit <= ends + MinCall
  BY <1>1, <1>2, AmtNumbers
<1> QED BY <1>1, <1>3, <1>4, AmtNumbers

\* What the first leg leaves.
LEMMA ChallengedStep ==
  ASSUME AmtInv, PostChallenged
  PROVE  AmtInv'
<1>1. leg = "first" /\ me' = Plainly(me) /\ UNCHANGED <<amt, pc, ends, before, verdict>>
  BY DEF PostChallenged
<1>2. /\ me \in Engines /\ amt \in AmtCases /\ got = NoneGot /\ pc \notin {"start", "hold", "end"} /\ verdict = "none"
      /\ amtFaults \in Nat /\ spent \in Nat /\ spent <= ends /\ ends \in Nat
  BY <1>1, AmtNumbers DEF AmtInv, AmtTypes, RunInv, BudgetInv
<1>3. /\ me' \in Engines /\ me'.plain = (me.plain \/ Transport = "http")
      /\ me'.power = me.power /\ me'.target = me.target /\ me'.colds = me.colds
      /\ me'.port = me.port /\ me'.redir = me.redir /\ me'.bad = me.bad
      /\ me'.invalid = me.invalid /\ me'.badRfb = me.badRfb
  BY <1>1, <1>2, PlainFields
<1>4. /\ spent' \in Nat /\ (leg' = "second" => spent' <= ends) /\ spent' <= Confirm + PollEvery + 2 * MinCall
      /\ amtFaults' \in 0..AmtFaults
      /\ leg' \in {"idle", "second"}
      /\ leg' = "second" => got' = got /\ ParseChallenge
      /\ leg' = "idle" => got' \in Results /\ got'.kind \in {"transient", "fatal"}
  <2>1. CASE ParseChallenge /\ leg' = "second" /\ Takes(LegLimit) /\ UNCHANGED <<got, amtFaults>>
    BY <1>1, <2>1, LegFacts DEF AmtInv, AmtTypes
  <2>2. CASE leg' = "idle" /\ got' = [kind |-> "fatal", val |-> 0] /\ UNCHANGED <<spent, amtFaults>>
    BY <1>1, <1>2, <2>2, AmtNumbers DEF AmtInv, AmtTypes, Results, BudgetHolds
  <2>3. CASE Lost
    <3>1. leg' = "idle" /\ Takes(LegLimit) /\ amtFaults > 0 /\ amtFaults' = amtFaults - 1
      BY <2>3 DEF Lost
    <3>2. got' \in Results /\ got'.kind \in {"transient", "fatal"}
      BY <2>3 DEF Lost, TransportKinds, Results
    <3>3. amtFaults' \in 0..AmtFaults
      BY <3>1, AmtNumbers DEF AmtInv, AmtTypes
    <3> QED BY <1>1, <3>1, <3>2, <3>3, LegFacts
  <2> QED BY <2>1, <2>2, <2>3 DEF PostChallenged
<1>5. NoneGot.kind = "none"
  BY DEF NoneGot
<1>6. AmtTypes'
  BY <1>1, <1>2, <1>3, <1>4 DEF AmtInv, AmtTypes
<1>7. RunInv'
  BY <1>1, <1>2, <1>4, <1>5 DEF AmtInv, RunInv, ParseChallenge
<1>8. PowerInv'
  BY <1>1, <1>2, <1>3, <1>4, <1>5 DEF AmtInv, PowerInv
<1>9. BudgetInv' /\ BudgetHolds'
  BY <1>1, <1>2, <1>4, <1>5, AmtNumbers DEF AmtInv, BudgetInv, BudgetHolds
<1>10. LoginInv' /\ KvmInv'
  BY <1>1, <1>2, <1>3, <1>4, <1>5 DEF AmtInv, LoginInv, KvmInv, Opening, CheckRfbPassword
<1>11. NoDowngrade'
  BY <1>1, <1>2, <1>3, HttpIsChosen DEF AmtInv, NoDowngrade
<1>12. DisableIsConservative' /\ PutIsWellFormed'
  BY <1>1, <1>3 DEF AmtInv, DisableIsConservative, PutIsWellFormed, Opening
<1> QED BY <1>6, <1>7, <1>8, <1>9, <1>10, <1>11, <1>12 DEF AmtInv

\* What the engine answers.
LEMMA AnswerFacts ==
  ASSUME AmtTypes, ~me.invalid, pc \in {"read"} \cup PowerSteps \cup KvmSteps
  PROVE  /\ Answer \in Results /\ Answer.kind \in {"ok", "fatal"}
         /\ Answer.kind = "ok" /\ pc = "kput" => Obeys.port = Opening
         /\ pc \in {"read", "waitOff", "waitOn"} => Answer.val = me.power
<1>1. Obeys.invalid = me.invalid /\ me.power \in Nat
  BY ObeysFields DEF AmtTypes, Engines
<1>2. CASE pc = "kput"
  <2>1. Opening /\ ~(me.stored \/ WithPw) => Answer = [kind |-> "fatal", val |-> 0]
    BY <1>2 DEF Answer
  <2>2. ~(Opening /\ ~(me.stored \/ WithPw)) => Answer = [kind |-> "ok", val |-> 0] /\ Obeys.port = Opening
    BY <1>1, <1>2, ObeysFields DEF Answer
  <2> QED BY <1>2, <2>1, <2>2 DEF Results
<1>3. CASE pc \in {"read", "waitOff", "waitOn"}
  <2>1. Answer = [kind |-> "ok", val |-> me.power]
    BY <1>3 DEF Answer
  <2> QED BY <1>1, <1>3, <2>1 DEF Results
<1>4. CASE pc \notin {"kput", "read", "waitOff", "waitOn"}
  <2>1. Answer = [kind |-> "ok", val |-> 0]
    BY <1>4 DEF Answer
  <2> QED BY <1>4, <2>1 DEF Results
<1> QED BY <1>2, <1>3, <1>4

\* How the engine may have changed under the second leg.
LEMMA AnsweredEngine ==
  ASSUME AmtInv, PostAnswered
  PROVE  /\ me' \in Engines /\ me'.power = me.power /\ me'.colds = me.colds
         /\ me'.target = me.target \/ (pc = "reqOn" /\ me'.target = PsOn) \/ (pc = "reqOff" /\ me'.target = PsOffSoft)
         /\ me'.plain => me.plain \/ Transport = "http"
         /\ me'.bad = me.bad \/ (amt.password = "wrong" /\ me'.bad = me.bad + 1)
         /\ ~me'.invalid
         /\ me'.badRfb => me.badRfb \/ (pc = "kput" /\ WithPw /\ amt.rfb = "bad")
         /\ pc # "kput" => me'.port = me.port
         /\ me'.port = me.port \/ me'.port = Opening
         /\ pc # "kstate" => me'.redir = me.redir
         /\ me'.redir = me.redir \/ me'.redir = Opening
         /\ got' \in Results /\ got'.kind \in {"ok", "transient", "fatal", "auth"}
         /\ got'.kind = "ok" =>
              /\ amt.password = "right"
              /\ pc = "kput" => me'.port = Opening
              /\ pc \in {"read", "waitOff", "waitOn"} => got'.val = me.power
         /\ leg' = "idle" /\ amtFaults' \in 0..AmtFaults
         /\ spent' \in Nat /\ spent' <= Confirm + PollEvery + 2 * MinCall
<1>0. /\ AmtTypes /\ ~me.invalid /\ me \in Engines /\ leg = "second" /\ pc \in {"read"} \cup PowerSteps \cup KvmSteps
      /\ amtFaults \in 0..AmtFaults /\ spent \in Nat /\ BudgetHolds /\ me.bad \in Nat /\ amt \in AmtCases
  BY DEF PostAnswered, AmtInv, RunInv, AmtTypes, Pcs, PutIsWellFormed, Engines
<1>1. ASSUME amt.password = "right", me' = Plainly(Obeys)
      PROVE  /\ me' \in Engines /\ me'.power = me.power /\ me'.colds = me.colds /\ me'.bad = me.bad
             /\ me'.target = me.target \/ (pc = "reqOn" /\ me'.target = PsOn) \/ (pc = "reqOff" /\ me'.target = PsOffSoft)
             /\ me'.plain = (me.plain \/ Transport = "http")
             /\ me'.invalid = me.invalid /\ me'.port = Obeys.port /\ me'.redir = Obeys.redir /\ me'.badRfb = Obeys.badRfb
  BY <1>0, <1>1, ObeysFields, PlainFields
<1>2. ASSUME amt.password = "wrong", me' = [Plainly(me) EXCEPT !.bad = @ + 1]
      PROVE  /\ me' \in Engines /\ me'.power = me.power /\ me'.colds = me.colds /\ me'.bad = me.bad + 1
             /\ me'.target = me.target /\ me'.plain = (me.plain \/ Transport = "http") /\ me'.invalid = me.invalid
             /\ me'.port = me.port /\ me'.redir = me.redir /\ me'.badRfb = me.badRfb
  <2> DEFINE m == Plainly(me)
  <2>1. /\ m \in Engines /\ m.plain = (me.plain \/ Transport = "http") /\ m.power = me.power /\ m.target = me.target
        /\ m.colds = me.colds /\ m.port = me.port /\ m.redir = me.redir /\ m.bad = me.bad /\ m.invalid = me.invalid
        /\ m.badRfb = me.badRfb
    BY <1>0, PlainFields
  <2>2. me' = [m EXCEPT !.bad = m.bad + 1]
    BY <1>2, <2>1 DEF Engines
  <2> HIDE DEF m
  <2>3. /\ me' \in Engines /\ me'.power = m.power /\ me'.colds = m.colds /\ me'.bad = m.bad + 1
        /\ me'.target = m.target /\ me'.plain = m.plain /\ me'.invalid = m.invalid
        /\ me'.port = m.port /\ me'.redir = m.redir /\ me'.badRfb = m.badRfb
    BY <2>1, <2>2 DEF Engines
  <2> QED BY <2>1, <2>3
<1>3. ASSUME Lost
      PROVE  /\ leg' = "idle" /\ Takes(LegLimit) /\ amtFaults' \in 0..AmtFaults
             /\ got' \in Results /\ got'.kind \in {"transient", "fatal"}
  <2>1. leg' = "idle" /\ Takes(LegLimit) /\ amtFaults' \in 0..AmtFaults
    BY <1>0, <1>3, AmtNumbers DEF Lost
  <2>2. got' \in Results /\ got'.kind \in {"transient", "fatal"}
    BY <1>3 DEF Lost, TransportKinds, Results
  <2> QED BY <2>1, <2>2
<1>4. AuthFailed \in Results /\ AuthFailed.kind = "auth"
  BY DEF AuthFailed, Results
<1>5. CASE /\ amt.password = "right" /\ me' = Plainly(Obeys) /\ got' = Answer
           /\ leg' = "idle" /\ Takes(LegLimit) /\ UNCHANGED amtFaults
  BY <1>0, <1>1, <1>5, ObeysFields, AnswerFacts, LegFacts
<1>6. CASE /\ amt.password = "wrong" /\ me' = [Plainly(me) EXCEPT !.bad = @ + 1]
           /\ got' = AuthFailed /\ leg' = "idle" /\ Takes(LegLimit) /\ UNCHANGED amtFaults
  BY <1>0, <1>2, <1>4, <1>6, LegFacts
<1>7. CASE /\ amtFaults > 0 /\ amtFaults' = amtFaults - 1 /\ got' = AuthFailed
           /\ leg' = "idle" /\ UNCHANGED <<me, spent>>
  BY <1>0, <1>4, <1>7, AmtNumbers DEF BudgetHolds
<1>8. CASE Lost /\ me' = me
  BY <1>0, <1>3, <1>8, LegFacts
<1>9. CASE Lost /\ amt.password = "right" /\ me' = Plainly(Obeys)
  BY <1>0, <1>1, <1>3, <1>9, ObeysFields, LegFacts
<1>10. CASE Lost /\ amt.password = "wrong" /\ me' = [Plainly(me) EXCEPT !.bad = @ + 1]
  BY <1>0, <1>2, <1>3, <1>10, LegFacts
<1> QED BY <1>5, <1>6, <1>7, <1>8, <1>9, <1>10 DEF PostAnswered

\* What the second leg leaves.
LEMMA AnsweredStep ==
  ASSUME AmtInv, PostAnswered
  PROVE  AmtInv'
<1>1. leg = "second" /\ UNCHANGED <<amt, pc, ends, before, verdict>>
  BY DEF PostAnswered
<1>2. /\ me \in Engines /\ amt \in AmtCases /\ got = NoneGot /\ pc \notin {"start", "hold", "end"} /\ verdict = "none"
      /\ pc \in Pcs /\ me.bad \in Nat /\ me.bad = 0
  <2>1. me \in Engines /\ amt \in AmtCases /\ pc \in Pcs /\ me.bad \in Nat
    BY DEF AmtInv, AmtTypes, Engines
  <2>2. got = NoneGot /\ pc \notin {"start", "hold", "end"} /\ verdict = "none"
    BY <1>1 DEF AmtInv, RunInv
  <2> QED BY <2>1, <2>2 DEF AmtInv, LoginInv
<1>3. AmtTypes'
  BY <1>1, AnsweredEngine DEF AmtInv, AmtTypes
<1>4. RunInv'
  BY <1>1, <1>2, AnsweredEngine DEF AmtInv, RunInv, ParseChallenge
<1>5. PowerInv'
  <2>1. PsOn # PsOffSoft /\ PsOn # 0 /\ PsOffSoft # 0
    BY DEF PsOn, PsOffSoft
  <2>2. pc \in PowerSteps => amt.cmd \in {"on", "off", "cycle"}
    BY DEF AmtInv, RunInv
  <2>3. (pc = "reqOn" => amt.cmd # "off") /\ (pc = "reqOff" => amt.cmd # "on")
    BY DEF AmtInv, RunInv
  <2> QED BY <1>1, <1>2, <2>1, <2>2, <2>3, AnsweredEngine DEF AmtInv, PowerInv, PowerSteps
<1>6. BudgetInv' /\ BudgetHolds'
  <2>1. got' # NoneGot /\ leg' = "idle" /\ spent' <= Confirm + PollEvery + 2 * MinCall
    BY AnsweredEngine DEF NoneGot
  <2> QED BY <2>1 DEF BudgetInv, BudgetHolds
<1>7. LoginInv'
  <2>1. got' # NoneGot
    BY AnsweredEngine DEF NoneGot
  <2> QED BY <1>1, <1>2, <2>1, AnsweredEngine DEF AmtInv, LoginInv
<1>8. KvmInv'
  BY <1>1, <1>2, AnsweredEngine DEF AmtInv, KvmInv, Opening, CheckRfbPassword
<1>9. NoDowngrade'
  BY <1>1, <1>2, AnsweredEngine, HttpIsChosen DEF AmtInv, NoDowngrade
<1>10. DisableIsConservative'
  <2>1. amt.cmd = "disable" => ~Opening
    BY DEF Opening
  <2>2. pc = "kstate" => me.port = Opening
    BY DEF AmtInv, KvmInv
  <2> QED BY <1>1, <2>1, <2>2, AnsweredEngine DEF AmtInv, DisableIsConservative
<1>11. PutIsWellFormed'
  <2>1. pc = "kput" /\ WithPw => amt.rfb # "bad"
    BY DEF AmtInv, KvmInv, WithPw, CheckRfbPassword
  <2> QED BY <1>1, <1>2, <2>1, AnsweredEngine DEF AmtInv, PutIsWellFormed
<1> QED BY <1>3, <1>4, <1>5, <1>6, <1>7, <1>8, <1>9, <1>10, <1>11 DEF AmtInv

\* The machine settles in what it was asked for.
LEMMA SettleStep ==
  ASSUME AmtInv, MachineSettles
  PROVE  AmtInv'
<1>1. /\ me.target # 0 /\ UNCHANGED <<amt, pc, leg, spent, ends, got, before, verdict, amtFaults>>
      /\ me' = [me EXCEPT !.power = me.target, !.target = 0, !.off = @ \/ me.target = PsOffSoft,
                          !.colds = IF me.power = PsOffSoft /\ me.target = PsOn THEN 1 ELSE @]
  BY DEF MachineSettles
<1>2. me \in Engines /\ PsOn = 2 /\ PsOffSoft = 8
  BY DEF AmtInv, AmtTypes, PsOn, PsOffSoft
<1>3. me.target \in {PsOn, PsOffSoft}
  BY <1>1, <1>2 DEF Engines
<1>4. /\ me' \in Engines /\ me'.power = me.target /\ me'.target = 0
      /\ me'.colds = (IF me.power = PsOffSoft /\ me.target = PsOn THEN 1 ELSE me.colds)
      /\ me'.port = me.port /\ me'.redir = me.redir /\ me'.bad = me.bad /\ me'.plain = me.plain
      /\ me'.invalid = me.invalid /\ me'.badRfb = me.badRfb
  <2> DEFINE o == me.off \/ me.target = PsOffSoft
             c == IF me.power = PsOffSoft /\ me.target = PsOn THEN 1 ELSE me.colds
  <2>1. me' = [me EXCEPT !.power = me.target, !.target = 0, !.off = o, !.colds = c]
    BY <1>1, <1>2 DEF Engines
  <2>2. o \in BOOLEAN /\ c \in {0, 1} /\ me.target \in Nat
    BY <1>2, <1>3 DEF Engines
  <2> HIDE DEF o, c
  <2>3. /\ me' \in Engines /\ me'.power = me.target /\ me'.target = 0 /\ me'.colds = c
        /\ me'.port = me.port /\ me'.redir = me.redir /\ me'.bad = me.bad /\ me'.plain = me.plain
        /\ me'.invalid = me.invalid /\ me'.badRfb = me.badRfb
    BY <1>2, <2>1, <2>2 DEF Engines
  <2> QED BY <2>3 DEF c
<1>5. AmtTypes' /\ RunInv' /\ BudgetInv' /\ BudgetHolds'
  BY <1>1, <1>4 DEF AmtInv, AmtTypes, RunInv, BudgetInv, BudgetHolds, ParseChallenge
<1>6. PowerInv'
  <2>0. PowerInv /\ (pc \in {"waitOn"} => amt.cmd \in {"on", "cycle"})
    BY DEF AmtInv, RunInv, PowerSteps
  <2>1. CASE me.target = PsOn
    <3>1. me'.power = PsOn /\ me'.target = 0 /\ me'.colds = (IF me.power = PsOffSoft THEN 1 ELSE me.colds)
      BY <1>4, <2>1
    <3>2. pc \notin {"start", "read", "reqOff", "waitOff", "hold"} /\ amt.cmd \in {"on", "cycle"} /\ verdict # "off"
      BY <1>2, <2>0, <2>1 DEF PowerInv
    <3> QED BY <1>1, <1>2, <2>0, <3>1, <3>2 DEF PowerInv
  <2>2. CASE me.target = PsOffSoft
    <3>1. me'.power = PsOffSoft /\ me'.target = 0
      BY <1>4, <2>2
    <3>2. pc \notin {"start", "read"} /\ amt.cmd \in {"off", "cycle"} /\ verdict \notin {"on", "cycled"}
      BY <1>2, <2>0, <2>2 DEF PowerInv
    <3>3. ~(got.kind = "ok" /\ pc = "waitOn" /\ got.val = PsOn)
      BY <1>2, <2>0, <2>2, <3>2 DEF PowerInv
    <3> QED BY <1>1, <1>2, <2>0, <3>1, <3>2, <3>3 DEF PowerInv
  <2> QED BY <1>3, <2>1, <2>2
<1>7. LoginInv' /\ KvmInv' /\ NoDowngrade' /\ DisableIsConservative' /\ PutIsWellFormed'
  BY <1>1, <1>4 DEF AmtInv, LoginInv, KvmInv, NoDowngrade, DisableIsConservative, PutIsWellFormed, Opening, CheckRfbPassword
<1> QED BY <1>5, <1>6, <1>7 DEF AmtInv

\* A request that has returned.
LEMMA ReadyFacts ==
  ASSUME AmtInv, NEW p, Ready(p)
  PROVE  /\ pc = p /\ p \in {"read"} \cup PowerSteps \cup KvmSteps /\ leg = "idle" /\ verdict = "none"
         /\ got \in Results /\ got.kind \in {"ok", "transient", "fatal", "auth"}
         /\ ~Failed(got) => got.kind = "ok" /\ amt.password = "right" /\ me.bad # 1
         /\ amt \in AmtCases /\ PsOn = 2 /\ PsOffSoft = 8
<1>1. pc = p /\ leg = "idle" /\ got # NoneGot
  BY DEF Ready
<1>2. got \in Results /\ amt \in AmtCases /\ pc \in Pcs /\ amt.password \in {"right", "wrong"}
  BY CaseFacts DEF AmtInv, AmtTypes
<1>3. pc \notin {"start", "hold", "end"} /\ got.kind # "none" /\ verdict = "none"
  BY <1>1 DEF AmtInv, RunInv
<1>4. got.kind \in {"ok", "transient", "fatal", "auth"}
  BY <1>2, <1>3 DEF Results
<1>5. got.kind = "ok" => amt.password = "right" /\ me.bad # 1
  BY <1>2 DEF AmtInv, LoginInv
<1> QED BY <1>1, <1>2, <1>3, <1>4, <1>5 DEF Pcs, Failed, PsOn, PsOffSoft

\* What the command makes of the state it has read.
LEMMA ReadStep ==
  ASSUME AmtInv, ReadDone
  PROVE  AmtInv'
<1>1. Ready("read") /\ UNCHANGED <<amt, me, leg, amtFaults>>
  BY DEF ReadDone, Same
<1>2. /\ pc = "read" /\ leg = "idle" /\ verdict = "none" /\ amt \in AmtCases /\ PsOn = 2 /\ PsOffSoft = 8
      /\ ~Failed(got) => got.kind = "ok" /\ amt.password = "right" /\ me.bad # 1
  BY <1>1, ReadyFacts
<1>3. me.target = 0 /\ (~Failed(got) => got.val = me.power)
  BY <1>2 DEF AmtInv, PowerInv
<1>4. CASE \E v : Say(v) /\ v \in {"failed", "on", "off", "unmapped"} /\ (v \in {"on", "off"} => OnOff(me.power) = v)
  <2>1. PICK v : Say(v) /\ v \in {"failed", "on", "off", "unmapped"} /\ (v \in {"on", "off"} => OnOff(me.power) = v)
    BY <1>4
  <2>3. (OnOff(me.power) = "on" => me.power = PsOn) /\ (OnOff(me.power) = "off" => me.power # PsOn)
    BY DEF OnOff
  <2>4. me.target # PsOn /\ me.target # PsOffSoft
    BY <1>2, <1>3
  <2>2. MaySay(v)
    BY <2>1, <2>3, <2>4 DEF MaySay
  <2> QED BY <1>1, <1>2, <2>1, <2>2, SayStep
<1>5. CASE \E p : /\ Phase(p) /\ UNCHANGED verdict /\ ~Failed(got)
                  /\ \/ p = "reqOn" /\ (amt.cmd = "on" \/ (amt.cmd = "cycle" /\ me.power = PsOffSoft))
                     \/ p = "reqOff" /\ amt.cmd \in {"off", "cycle"}
  <2>1. PICK p : /\ Phase(p) /\ UNCHANGED verdict /\ ~Failed(got)
                 /\ \/ p = "reqOn" /\ (amt.cmd = "on" \/ (amt.cmd = "cycle" /\ me.power = PsOffSoft))
                    \/ p = "reqOff" /\ amt.cmd \in {"off", "cycle"}
    BY <1>5
  <2>2. MayEnter(p)
    BY <1>2, <1>3, <2>1 DEF MayEnter, Pcs, PowerSteps, KvmSteps
  <2> QED BY <1>1, <1>2, <2>1, <2>2, PhaseStep
<1>6. CASE Failed(got) /\ Say("failed")
  BY <1>4, <1>6
<1>7. CASE ~Failed(got) /\ amt.cmd = "state" /\ Say(OnOff(got.val))
  BY <1>3, <1>4, <1>7 DEF OnOff
<1>8. CASE ~Failed(got) /\ amt.cmd = "on" /\ got.val = PsOn /\ Say("on")
  BY <1>3, <1>4, <1>8 DEF OnOff
<1>9. CASE ~Failed(got) /\ amt.cmd = "off" /\ got.val = PsOffSoft /\ Say("off")
  BY <1>2, <1>3, <1>4, <1>9 DEF OnOff
<1>10. CASE /\ ~Failed(got) /\ UNCHANGED verdict
            /\ \/ amt.cmd = "on" /\ got.val # PsOn /\ Phase("reqOn")
               \/ amt.cmd = "off" /\ got.val # PsOffSoft /\ Phase("reqOff")
               \/ amt.cmd = "cycle" /\ Phase(IF NeedsOffPhase(got.val) THEN "reqOff" ELSE "reqOn")
  <2>1. CASE amt.cmd = "cycle" /\ ~NeedsOffPhase(got.val) /\ Phase("reqOn")
    BY <1>3, <1>5, <1>10, <2>1 DEF NeedsOffPhase
  <2> QED BY <1>3, <1>5, <1>10, <2>1
<1> QED BY <1>6, <1>7, <1>8, <1>9, <1>10 DEF ReadDone

\* A power request that has returned.
LEMMA RequestStep ==
  ASSUME AmtInv, NEW p, NEW next, RequestRetrying(p, next),
         (p = "reqOff" /\ next = "waitOff") \/ (p = "reqOn" /\ next = "waitOn")
  PROVE  AmtInv'
<1>1. Ready(p) /\ UNCHANGED <<amt, me, leg, before, amtFaults>>
  BY DEF RequestRetrying, Same
<1>2. /\ pc = p /\ leg = "idle" /\ verdict = "none" /\ amt \in AmtCases
      /\ ~Failed(got) => amt.password = "right" /\ me.bad # 1
  BY <1>1, ReadyFacts
<1>3. CASE spent < Confirm /\ Again
  BY <1>1, <1>2, <1>3, AgainStep DEF PowerSteps
<1>4. CASE Say("failed")
  <2>1. MaySay("failed")
    BY DEF MaySay
  <2> QED BY <1>1, <1>2, <1>4, <2>1, SayStep
<1>5. CASE ~Failed(got) /\ Phase(next) /\ UNCHANGED verdict
  <2>1. MayEnter(next)
    BY <1>2, <1>5 DEF MayEnter, AmtInv, RunInv, PowerInv, Pcs, PowerSteps, KvmSteps
  <2> QED BY <1>1, <1>2, <1>5, <2>1, PhaseStep
<1> QED BY <1>3, <1>4, <1>5 DEF RequestRetrying

\* A poll that has returned.
LEMMA WaitStep ==
  ASSUME AmtInv, NEW p, NEW want, NEW next, WaitUntil(p, want, next),
         \/ p = "waitOff" /\ want = PsOffSoft /\ (next => WaitOffDone)
         \/ p = "waitOn" /\ want = PsOn /\ (next => WaitOnDone)
  PROVE  AmtInv'
<1>1. Ready(p) /\ UNCHANGED <<amt, me, leg, before, amtFaults>>
  BY DEF WaitUntil, Same
<1>2. /\ pc = p /\ leg = "idle" /\ verdict = "none" /\ amt \in AmtCases /\ PsOn = 2 /\ PsOffSoft = 8
      /\ got.kind \in {"ok", "transient", "fatal", "auth"}
      /\ ~Failed(got) => amt.password = "right" /\ me.bad # 1
      /\ spent \in Nat
  BY <1>1, ReadyFacts DEF AmtInv, AmtTypes
<1>3. CASE Say("stuck") \/ Say("failed")
  <2>1. MaySay("stuck") /\ MaySay("failed")
    BY DEF MaySay
  <2> QED BY <1>1, <1>2, <1>3, <2>1, SayStep
<1>4. CASE spent < Confirm /\ Again
  BY <1>1, <1>2, <1>4, AgainStep DEF PowerSteps
<1>5. CASE got.kind = "ok" /\ got.val = want /\ p = "waitOff" /\ WaitOffDone
  <2>1. me.power = PsOffSoft /\ me.target # PsOn /\ amt.cmd \in {"off", "cycle"}
    BY <1>2, <1>5 DEF AmtInv, PowerInv, RunInv, PowerSteps
  <2>2. CASE amt.cmd = "cycle" /\ Phase("hold") /\ UNCHANGED verdict
    <3>1. MayEnter("hold")
      BY <1>2, <1>5, <2>1, <2>2 DEF MayEnter, Pcs, PowerSteps, KvmSteps, Failed
    <3> QED BY <1>1, <1>2, <2>2, <3>1, PhaseStep
  <2>3. CASE Say("off")
    <3>1. MaySay("off")
      BY <1>2, <2>1 DEF MaySay
    <3> QED BY <1>1, <1>2, <2>3, <3>1, SayStep
  <2> QED BY <1>5, <2>2, <2>3 DEF WaitOffDone
<1>6. CASE got.kind = "ok" /\ got.val = want /\ p = "waitOn" /\ WaitOnDone
  <2>1. me.power = PsOn /\ amt.cmd \in {"on", "cycle"}
    BY <1>2, <1>6 DEF AmtInv, PowerInv, RunInv, PowerSteps
  <2>2. me.target # PsOffSoft /\ (amt.cmd = "cycle" => me.colds = 1)
    BY <1>2, <1>6, <2>1 DEF AmtInv, PowerInv
  <2>3. MaySay(IF amt.cmd = "cycle" THEN "cycled" ELSE "on")
    BY <2>1, <2>2 DEF MaySay
  <2> QED BY <1>1, <1>2, <1>6, <2>3, SayStep DEF WaitOnDone
<1>7. CASE got.kind = "ok" /\ got.val = want
  BY <1>5, <1>6, <1>7 DEF WaitUntil
<1>8. CASE ~(got.kind = "ok" /\ got.val = want)
  <2>1. Confirm \in Nat
    BY AmtNumbers
  <2>2. CASE spent >= Confirm
    BY <1>2, <1>3, <1>8, <2>2 DEF WaitUntil, Failed
  <2>3. CASE spent < Confirm
    BY <1>2, <1>3, <1>4, <1>8, <2>3 DEF WaitUntil, Failed
  <2> QED BY <1>2, <2>1, <2>2, <2>3
<1> QED BY <1>7, <1>8

\* The machine has been off long enough.
LEMMA HoldStep ==
  ASSUME AmtInv, CycleHold
  PROVE  AmtInv'
<1>1. pc = "hold" /\ Phase("reqOn") /\ UNCHANGED <<amt, me, leg, verdict, amtFaults>>
  BY DEF CycleHold
<1>2. leg = "idle" /\ verdict = "none" /\ amt.cmd = "cycle" /\ got = NoneGot
  BY <1>1 DEF AmtInv, RunInv, AmtTypes
<1>3. me.power = PsOffSoft /\ me.bad # 1 /\ amt.password # "wrong"
  BY <1>1, <1>2 DEF AmtInv, PowerInv, LoginInv
<1>4. MayEnter("reqOn")
  BY <1>2, <1>3 DEF MayEnter, Pcs, PowerSteps, KvmSteps
<1> QED BY <1>1, <1>2, <1>4, PhaseStep

\* A kvm request that has returned.
LEMMA KvmStepInv ==
  ASSUME AmtInv, KvmStep
  PROVE  AmtInv'
<1>1. pc \in KvmSteps /\ Ready(pc) /\ UNCHANGED <<amt, me, leg, amtFaults>>
  BY DEF KvmStep, Same
<1>2. /\ leg = "idle" /\ verdict = "none" /\ amt \in AmtCases
      /\ ~Failed(got) => got.kind = "ok" /\ amt.password = "right" /\ me.bad # 1
  BY <1>1, ReadyFacts
<1>3. amt.cmd \in {"enable", "disable"}
  BY <1>1 DEF AmtInv, RunInv
<1>4. CASE Failed(got) /\ Say(KvmFailure)
  <2>1. MaySay(KvmFailure)
    BY <1>1 DEF MaySay, KvmFailure, KvmSteps, AmtInv, KvmInv
  <2> QED BY <1>1, <1>2, <1>4, <2>1, SayStep
<1>5. CASE Say("not attempted") \/ Say("kvm done")
  <2>1. MaySay("not attempted") /\ MaySay("kvm done")
    BY DEF MaySay
  <2> QED BY <1>1, <1>2, <1>5, <2>1, SayStep
<1>6. CASE /\ ~Failed(got) /\ ~(pc = "kget" /\ Opening /\ ~(amt.mebx /\ CheckRfbPassword)) /\ pc # "ksap"
           /\ Phase(KvmNext[pc]) /\ UNCHANGED verdict
  <2>1. pc = "kget" => KvmNext[pc] = "kraw"
    BY DEF KvmNext
  <2>2. pc = "kraw" => KvmNext[pc] = "kput"
    BY DEF KvmNext
  <2>3. pc = "kput" => KvmNext[pc] = "kstate"
    BY DEF KvmNext
  <2>4. pc = "kstate" => KvmNext[pc] = "kread"
    BY DEF KvmNext
  <2>5. pc = "kread" => KvmNext[pc] = "ksap"
    BY DEF KvmNext
  <2>6. pc \in {"kget", "kraw", "kput", "kstate", "kread"}
    BY <1>1, <1>6 DEF KvmSteps
  <2> DEFINE n == KvmNext[pc]
  <2>7. /\ n \in {"kraw", "kput", "kstate", "kread", "ksap"}
        /\ Opening => CheckRfbPassword
        /\ n \in {"kstate", "kread", "ksap"} => me.port = Opening
    BY <1>2, <1>6, <2>1, <2>2, <2>3, <2>4, <2>5, <2>6 DEF AmtInv, KvmInv
  <2> HIDE DEF n
  <2>8. MayEnter(n)
    BY <1>2, <1>3, <1>6, <2>7 DEF MayEnter, Pcs, PowerSteps, KvmSteps
  <2> QED BY <1>1, <1>2, <1>6, <2>8, PhaseStep DEF n
<1> QED BY <1>4, <1>5, <1>6 DEF KvmStep

LEMMA RequestOffStep == ASSUME AmtInv, RequestRetrying("reqOff", "waitOff") PROVE AmtInv'
<1> DEFINE p == "reqOff"
           n == "waitOff"
<1>1. RequestRetrying(p, n)
  OBVIOUS
<1>2. (p = "reqOff" /\ n = "waitOff") \/ (p = "reqOn" /\ n = "waitOn")
  OBVIOUS
<1> HIDE DEF p, n
<1> QED BY <1>1, <1>2, RequestStep

LEMMA RequestOnStep == ASSUME AmtInv, RequestRetrying("reqOn", "waitOn") PROVE AmtInv'
<1> DEFINE p == "reqOn"
           n == "waitOn"
<1>1. RequestRetrying(p, n)
  OBVIOUS
<1>2. (p = "reqOff" /\ n = "waitOff") \/ (p = "reqOn" /\ n = "waitOn")
  OBVIOUS
<1> HIDE DEF p, n
<1> QED BY <1>1, <1>2, RequestStep

\* It holds before the command begins.
LEMMA AmtInitInv == AmtInit => AmtInv
<1> SUFFICES ASSUME AmtInit PROVE AmtInv
  OBVIOUS
<1>1. /\ me \in Engines /\ me.target = 0 /\ me.bad = 0 /\ ~me.plain /\ ~me.invalid /\ ~me.badRfb
      /\ amt.cmd = "disable" => me.redir
  <2> DEFINE d == amt.cmd = "disable"
  <2>1. me \in [power : Powers, target : {0}, colds : {0}, off : {FALSE}, port : {d}, redir : {d}, stored : BOOLEAN,
                optin : {TRUE}, bad : {0}, plain : {FALSE}, invalid : {FALSE}, badRfb : {FALSE}]
    BY DEF AmtInit
  <2>2. d \in BOOLEAN
    OBVIOUS
  <2>3. amt.cmd = "disable" => d
    OBVIOUS
  <2> HIDE DEF d
  <2>4. Powers \subseteq Nat
    BY AmtAssumption
  <2>5. me \in Engines
    <3>1. [power : Powers, target : {0}, colds : {0}, off : {FALSE}, port : {d}, redir : {d}, stored : BOOLEAN,
           optin : {TRUE}, bad : {0}, plain : {FALSE}, invalid : {FALSE}, badRfb : {FALSE}] \subseteq Engines
      <4>1. {FALSE} \subseteq BOOLEAN /\ {TRUE} \subseteq BOOLEAN /\ {d} \subseteq BOOLEAN /\ {0} \subseteq {0, 1}
            /\ {0} \subseteq {0, PsOn, PsOffSoft} /\ {0} \subseteq Nat
        BY ONLY <2>2
      <4> DEFINE F == {FALSE}
                 T == {TRUE}
                 D == {d}
                 Z == {0}
                 B == BOOLEAN
                 ZO == {0, 1}
                 Ts == {0, PsOn, PsOffSoft}
      <4>2. F \subseteq B /\ T \subseteq B /\ D \subseteq B /\ Z \subseteq ZO /\ Z \subseteq Ts /\ Z \subseteq Nat
        BY ONLY <4>1
      <4> HIDE DEF F, T, D, Z, B, ZO, Ts
      <4>3. [power : Powers, target : Z, colds : Z, off : F, port : D, redir : D, stored : B, optin : T, bad : Z,
             plain : F, invalid : F, badRfb : F]
            \subseteq [power : Nat, target : Ts, colds : ZO, off : B, port : B, redir : B, stored : B, optin : B,
                       bad : Nat, plain : B, invalid : B, badRfb : B]
        BY ONLY <2>4, <4>2
      <4> QED BY <4>3 DEF F, T, D, Z, B, ZO, Ts, Engines
    <3> QED BY ONLY <2>1, <3>1
  <2>6. me.target = 0 /\ me.bad = 0 /\ ~me.plain /\ ~me.invalid /\ ~me.badRfb /\ me.redir = d
    BY ONLY <2>1
  <2> QED BY <2>3, <2>5, <2>6
<1>2. /\ amt \in AmtCases /\ pc = "start" /\ leg = "idle" /\ spent = 0 /\ ends = 0 /\ got = NoneGot
      /\ verdict = "none" /\ amtFaults = AmtFaults
  BY DEF AmtInit
<1>3. NoneGot \in Results /\ NoneGot.kind = "none" /\ PsOn = 2 /\ PsOffSoft = 8
  BY DEF NoneGot, Results, PsOn, PsOffSoft
<1>4. AmtTypes /\ RunInv
  BY <1>1, <1>2, <1>3, AmtNumbers DEF AmtTypes, RunInv, Pcs, PowerSteps, KvmSteps
<1>5. PowerInv
  BY <1>1, <1>2, <1>3 DEF PowerInv
<1>6. BudgetInv /\ BudgetHolds
  BY <1>2, AmtNumbers DEF BudgetInv, BudgetHolds
<1>7. LoginInv /\ KvmInv
  BY <1>1, <1>2, <1>3 DEF LoginInv, KvmInv
<1>8. NoDowngrade /\ DisableIsConservative /\ PutIsWellFormed
  BY <1>1, <1>2 DEF NoDowngrade, DisableIsConservative, PutIsWellFormed
<1> QED BY <1>4, <1>5, <1>6, <1>7, <1>8 DEF AmtInv

\* The engine is only ever asked for what the command wants, within the time it has.
THEOREM AmtInvariant == AmtSpec => []AmtInv
<1>1. ASSUME AmtInv, [AmtNext]_amtVars PROVE AmtInv'
  <2>1. CASE AmtNext
    <3>1. CASE RequestRetrying("reqOff", "waitOff")
      BY <1>1, <3>1, RequestOffStep
    <3>4. CASE RequestRetrying("reqOn", "waitOn")
      BY <1>1, <3>4, RequestOnStep
    <3>2. CASE WaitUntil("waitOff", PsOffSoft, WaitOffDone)
      BY <1>1, <3>2, WaitStep
    <3>3. CASE WaitUntil("waitOn", PsOn, WaitOnDone)
      BY <1>1, <3>3, WaitStep
    <3> QED BY <1>1, <2>1, <3>1, <3>2, <3>3, <3>4, ConnectStep, BeginStep, ChallengedStep, AnsweredStep, ReadStep, HoldStep,
               KvmStepInv, SettleStep DEF AmtNext, AmtStep
  <2>2. CASE UNCHANGED amtVars
    <3>1. amt' = amt /\ me' = me /\ pc' = pc /\ leg' = leg /\ spent' = spent /\ ends' = ends /\ got' = got
          /\ verdict' = verdict /\ amtFaults' = amtFaults
      BY <2>2 DEF amtVars
    <3>2. AmtTypes' /\ BudgetInv' /\ BudgetHolds'
      BY <1>1, <3>1 DEF AmtInv, AmtTypes, BudgetInv, BudgetHolds
    <3>3. RunInv'
      BY <1>1, <3>1 DEF AmtInv, RunInv, ParseChallenge
    <3>4. PowerInv'
      BY <1>1, <3>1 DEF AmtInv, PowerInv
    <3>5. LoginInv' /\ NoDowngrade' /\ DisableIsConservative'
      BY <1>1, <3>1 DEF AmtInv, LoginInv, NoDowngrade, DisableIsConservative
    <3>6. Opening' = Opening /\ CheckRfbPassword' = CheckRfbPassword
      BY <3>1 DEF Opening, CheckRfbPassword
    <3>7. KvmInv' /\ PutIsWellFormed'
      BY <1>1, <3>1, <3>6 DEF AmtInv, KvmInv, PutIsWellFormed
    <3> QED BY <3>2, <3>3, <3>4, <3>5, <3>7 DEF AmtInv
  <2> QED BY <1>1, <2>1, <2>2
<1> QED BY <1>1, AmtInitInv, PTL DEF AmtSpec

\* Through lost answers, retries and stale sessions, what an amt command says of the machine is
\* so, and it neither locks the account nor weakens the link on the way (amt main.rs, rpc.rs).
THEOREM PowerAlwaysAsSaid == AmtSpec => []PowerIsAsSaid
<1>1. AmtInv => PowerIsAsSaid
  <2> SUFFICES ASSUME AmtInv PROVE PowerIsAsSaid
    OBVIOUS
  <2>1. AmtTypeOK
    BY DEF AmtInv, AmtTypes, RunInv, AmtTypeOK, Results, Pcs, PowerSteps
  <2>2. SaidIsSo /\ WrongPasswordTriedOnce
    BY DEF AmtInv, PowerInv, LoginInv, SaidIsSo, WrongPasswordTriedOnce
  <2> QED BY <2>1, <2>2 DEF AmtInv, PowerIsAsSaid
<1> QED BY <1>1, AmtInvariant, PTL

-----------------------------------------------------------------------------
(***************************************************************************)
(* The control host of netboot links.  A command's remaining steps keep    *)
(* the check before what it guards: an interface is touched only after it  *)
(* was found not to be the primary one, and given an address only after    *)
(* its subnet was found free, which stays so.                              *)
(***************************************************************************)
LinkSteps ==
  {"notrunning", "primary", "conflict", "cleanup", "subnet", "ifconfig", "replace", "others", "up", "spawn", "watch",
   "save", "term", "wait", "kill", "forget", "restore", "delll", "unless", "ifstop", "addll", "delip", "down", "again"}
Ends == {"none", "ok", "refused", "no state", "survivor", "assign", "reassert", "died"}
Names == Ifaces \cup {"none"}
LinkCmds == [todo : Seq(LinkSteps), exit : Ends, live : 0..PidLimit, iface : Names, was : Seq(Nat \X Nat)]
Programs == [prog : {"none", "netbootd", "sudo", "stranger"}, iface : Names, ip : Nat \X Nat,
             at : {"none", "starting", "serving", "dying", "deaf", "stuck"}, child : 0..PidLimit]
States == [pid : 0..PidLimit, iface : Names]

\* Steps that change the command's own interface, or hand it on; and those that give it an address.
Touching == {"replace", "others", "again", "ifconfig", "addll", "delip", "down", "spawn", "save"}
Giving == {"replace", "others", "again", "ifconfig", "spawn"}
After(todo, guard, S) == \A n \in 1..Len(todo) : todo[n] \in S => \E m \in 1..(n - 1) : todo[m] = guard

\* No other interface is in the target's subnet.
Clear(t) == \A j \in Ifaces \ {site.iface[t]} : \A n \in DOMAIN addr[j] : addr[j][n][1] # site.ip[t][1]

CmdOK(c, r) ==
  /\ r \in LinkCmds /\ (r.exit = "none" => r.todo # << >>)
  /\ \A n \in 1..Len(r.todo) : r.todo[n] = "ifstop" => n < Len(r.todo)
  /\ r.iface # site.primary
  /\ IfaceOf(c) = site.primary => After(r.todo, "primary", Touching)
  /\ Clear(TargetOf(c)) \/ After(r.todo, "subnet", Giving)
StateOK(s) == s \in States /\ s.iface # site.primary
ProgramOK(q) ==
  /\ q \in Programs
  /\ q.prog = "netbootd" =>
       /\ q.iface # site.primary
       /\ \E t \in Targets : q.iface = site.iface[t] /\ q.ip = site.ip[t] /\ Clear(t)
HostInv ==
  /\ site \in LinkSites
  /\ linkCmd \in [Jobs -> LinkCmds] /\ \A c \in Jobs : CmdOK(c, linkCmd[c])
  /\ netState \in [Targets -> States] /\ \A t \in Targets : StateOK(netState[t])
  /\ proc \in [Procs -> Programs] /\ \A p \in Procs : ProgramOK(proc[p])
  /\ addr \in [Ifaces -> Seq(Nat \X Nat)]
  /\ ll \subseteq Ifaces /\ carrier \subseteq Ifaces
  /\ StrangerSpared /\ PrimaryUntouched /\ LinksInDistinctSubnets

-----------------------------------------------------------------------------
\* What is fixed.
LEMMA SiteFacts ==
  ASSUME site \in LinkSites
  PROVE  /\ site.primary \in Ifaces /\ site.iface \in [Targets -> Ifaces] /\ site.ip \in [Targets -> Nat \X Nat]
         /\ site.prior \in [Ifaces -> Seq(Nat \X Nat)]
         /\ \A c \in Jobs : TargetOf(c) \in Targets /\ IfaceOf(c) \in Ifaces /\ IpOf(c) \in Nat \X Nat
         /\ \A c \in Jobs : site.jobs[c].verb \in {"start", "stop", "netboot", "link", "ffx", "off", "down"}
         /\ \A t, u \in Targets : site.iface[t] # site.iface[u] => site.ip[t][1] # site.ip[u][1]
         /\ \A i, j \in Ifaces : \A n \in DOMAIN site.prior[i], m \in DOMAIN site.prior[j] :
              i # j => site.prior[i][n][1] # site.prior[j][m][1]
         /\ PidLimit \in Nat /\ "none" \notin Ifaces
<1>1. /\ site.primary \in Ifaces /\ site.iface \in [Targets -> Ifaces] /\ site.ip \in [Targets -> Nat \X Nat]
      /\ site.prior \in [Ifaces -> Seq(Nat \X Nat)]
  BY HostAssumption
<1>2. \A c \in Jobs : TargetOf(c) \in Targets
  BY HostAssumption DEF Jobs, TargetOf
<1>3. \A c \in Jobs : IfaceOf(c) \in Ifaces /\ IpOf(c) \in Nat \X Nat
  BY <1>1, <1>2 DEF IfaceOf, IpOf
<1>4. \A c \in Jobs : site.jobs[c].verb \in {"start", "stop", "netboot", "link", "ffx", "off", "down"}
  BY HostAssumption DEF Jobs
<1>5. /\ \A t, u \in Targets : site.iface[t] # site.iface[u] => site.ip[t][1] # site.ip[u][1]
      /\ \A i, j \in Ifaces : \A n \in DOMAIN site.prior[i], m \in DOMAIN site.prior[j] :
              i # j => site.prior[i][n][1] # site.prior[j][m][1]
  BY HostAssumption
<1>6. PidLimit \in Nat /\ "none" \notin Ifaces
  BY HostAssumption
<1> QED BY <1>1, <1>2, <1>3, <1>4, <1>5, <1>6

(***************************************************************************)
(* Lists of steps.                                                         *)
(***************************************************************************)
\* A list of one or more has a head and a tail.
LEMMA TodoFacts ==
  ASSUME NEW todo \in Seq(LinkSteps), todo # << >>
  PROVE  /\ Len(todo) \in Nat /\ Len(todo) >= 1 /\ Head(todo) = todo[1] /\ Tail(todo) \in Seq(LinkSteps)
         /\ Len(Tail(todo)) = Len(todo) - 1 /\ \A n \in 1..(Len(todo) - 1) : Tail(todo)[n] = todo[n + 1]
         /\ (Len(todo) = 1 => Tail(todo) = << >>) /\ (Tail(todo) = << >> => Len(todo) = 1)
<1>1. /\ Len(todo) \in Nat /\ Len(todo) >= 1 /\ Head(todo) = todo[1] /\ Tail(todo) \in Seq(LinkSteps)
      /\ Len(Tail(todo)) = Len(todo) - 1
  OBVIOUS
<1>2. \A n \in 1..(Len(todo) - 1) : Tail(todo)[n] = todo[n + 1]
  OBVIOUS
<1> DEFINE t == Tail(todo)
<1>3. t \in Seq(LinkSteps) /\ Len(t) = Len(todo) - 1 /\ Len(todo) \in Nat
  BY <1>1
<1> HIDE DEF t
<1>4. (Len(todo) = 1 => t = << >>) /\ (t = << >> => Len(todo) = 1)
  BY <1>3, EmptySeq
<1> QED BY <1>1, <1>2, <1>4 DEF t

\* A step that is not the guard is taken.
LEMMA AfterTail ==
  ASSUME NEW todo \in Seq(LinkSteps), todo # << >>, NEW guard, NEW S, After(todo, guard, S), Head(todo) # guard
  PROVE  After(Tail(todo), guard, S)
<1> DEFINE t == Tail(todo)
<1>1. Len(t) = Len(todo) - 1 /\ Len(todo) \in Nat /\ Head(todo) = todo[1] /\ \A n \in 1..(Len(todo) - 1) : t[n] = todo[n + 1]
  BY TodoFacts
<1> HIDE DEF t
<1> SUFFICES ASSUME NEW n \in 1..Len(t), t[n] \in S PROVE \E m \in 1..(n - 1) : t[m] = guard
  BY DEF After, t
<1>2. n + 1 \in 1..Len(todo) /\ todo[n + 1] \in S
  BY <1>1
<1>3. PICK k \in 1..n : todo[k] = guard
  BY <1>2 DEF After
<1>4. k # 1
  BY <1>1, <1>3
<1>5. k - 1 \in 1..(n - 1) /\ k - 1 \in 1..(Len(todo) - 1) /\ (k - 1) + 1 = k
  BY <1>1, <1>3, <1>4
<1> QED BY <1>1, <1>3, <1>5

\* One that is guarded is not at the head.
LEMMA AfterHead ==
  ASSUME NEW todo \in Seq(LinkSteps), todo # << >>, NEW guard, NEW S, After(todo, guard, S)
  PROVE  Head(todo) \notin S
<1>1. 1 \in 1..Len(todo) /\ Head(todo) = todo[1]
  BY TodoFacts
<1> QED BY <1>1 DEF After

\* Two lists, one after the other.
LEMMA AfterBoth ==
  ASSUME NEW a \in Seq(LinkSteps), NEW b \in Seq(LinkSteps), NEW guard, NEW S, After(a, guard, S),
         After(b, guard, S) \/ \E n \in 1..Len(a) : a[n] = guard
  PROVE  After(a \o b, guard, S)
<1> DEFINE c == a \o b
<1>1. /\ Len(a) \in Nat /\ Len(b) \in Nat /\ Len(c) = Len(a) + Len(b) /\ \A n \in 1..Len(a) : c[n] = a[n]
      /\ \A n \in 1..Len(b) : c[Len(a) + n] = b[n]
  OBVIOUS
<1> HIDE DEF c
<1> SUFFICES ASSUME NEW n \in 1..Len(c), c[n] \in S PROVE \E m \in 1..(n - 1) : c[m] = guard
  BY DEF After, c
<1>2. CASE n <= Len(a)
  <2>1. n \in 1..Len(a) /\ a[n] \in S
    BY <1>1, <1>2
  <2>2. PICK m \in 1..(n - 1) : a[m] = guard
    BY <2>1 DEF After
  <2>3. m \in 1..Len(a)
    BY <1>1, <2>1
  <2> QED BY <1>1, <2>2, <2>3
<1>3. CASE n > Len(a)
  <2> DEFINE k == n - Len(a)
  <2>1. k \in 1..Len(b) /\ n = Len(a) + k
    BY <1>1, <1>3
  <2> HIDE DEF k
  <2>2. CASE \E m \in 1..Len(a) : a[m] = guard
    <3>1. PICK m \in 1..Len(a) : a[m] = guard
      BY <2>2
    <3>2. m \in 1..(n - 1)
      BY <1>1, <1>3
    <3> QED BY <1>1, <3>1, <3>2
  <2>3. CASE After(b, guard, S)
    <3>1. b[k] \in S
      BY <1>1, <2>1
    <3>2. PICK m \in 1..(k - 1) : b[m] = guard
      BY <2>1, <2>3, <3>1 DEF After
    <3>3. m \in 1..Len(b) /\ Len(a) + m \in 1..(n - 1)
      BY <1>1, <2>1
    <3> QED BY <1>1, <3>2, <3>3
  <2> QED BY <2>2, <2>3
<1> QED BY <1>1, <1>2, <1>3

(***************************************************************************)
(* A command.                                                              *)
(***************************************************************************)
\* One step done: the rest is guarded as before, by what the step checked if it was a check.
LEMMA StepOnOK ==
  ASSUME HostInv, NEW c \in Jobs, linkCmd[c].exit = "none", Head(linkCmd[c].todo) # "ifstop",
         Head(linkCmd[c].todo) = "primary" => IfaceOf(c) # site.primary,
         Head(linkCmd[c].todo) = "subnet" => Clear(TargetOf(c))
  PROVE  CmdOK(c, StepOn(c, linkCmd[c])) /\ StepOn(c, linkCmd[c]).todo = Tail(linkCmd[c].todo)
         /\ StepOn(c, linkCmd[c]) \in LinkCmds
<1> DEFINE r == linkCmd[c]
           s == StepOn(c, r)
           e == IF Len(r.todo) = 1 THEN "ok" ELSE "none"
<1>1. r \in LinkCmds /\ CmdOK(c, r)
  BY DEF HostInv
<1>2. r.todo \in Seq(LinkSteps) /\ r.todo # << >>
  BY <1>1 DEF CmdOK, LinkCmds
<1>3. Tail(r.todo) \in Seq(LinkSteps) /\ Len(r.todo) \in Nat /\ Len(r.todo) >= 1 /\ Len(Tail(r.todo)) = Len(r.todo) - 1
  BY <1>2, TodoFacts
<1>4. \A n \in 1..(Len(r.todo) - 1) : Tail(r.todo)[n] = r.todo[n + 1]
  BY <1>2, TodoFacts
<1>5. Tail(r.todo) = << >> => Len(r.todo) = 1
  BY <1>2, TodoFacts
<1>6. e \in Ends
  BY DEF Ends
<1>7. s \in LinkCmds /\ s.todo = Tail(r.todo) /\ s.exit = e /\ s.iface = r.iface
  BY <1>1, <1>3, <1>6 DEF StepOn, LinkCmds
<1> HIDE DEF s
<1>8. s.exit = "none" => s.todo # << >>
  BY <1>5, <1>7
<1>9. \A n \in 1..Len(s.todo) : s.todo[n] = "ifstop" => n < Len(s.todo)
  <2> SUFFICES ASSUME NEW n \in 1..Len(Tail(r.todo)), Tail(r.todo)[n] = "ifstop" PROVE n < Len(Tail(r.todo))
    BY <1>7
  <2>1. n + 1 \in 1..Len(r.todo) /\ r.todo[n + 1] = "ifstop"
    BY <1>3, <1>4
  <2>2. n + 1 < Len(r.todo)
    BY <1>1, <2>1 DEF CmdOK
  <2> QED BY <1>3, <2>2
<1>10. s.iface # site.primary
  BY <1>1, <1>7 DEF CmdOK
<1>11. IfaceOf(c) = site.primary => After(s.todo, "primary", Touching)
  <2> SUFFICES ASSUME IfaceOf(c) = site.primary PROVE After(Tail(r.todo), "primary", Touching)
    BY <1>7
  <2>1. After(r.todo, "primary", Touching) /\ Head(r.todo) # "primary"
    BY <1>1 DEF CmdOK
  <2> QED BY <1>2, <2>1, AfterTail
<1>12. Clear(TargetOf(c)) \/ After(s.todo, "subnet", Giving)
  <2> SUFFICES ASSUME ~Clear(TargetOf(c)) PROVE After(Tail(r.todo), "subnet", Giving)
    BY <1>7
  <2>1. After(r.todo, "subnet", Giving) /\ Head(r.todo) # "subnet"
    BY <1>1 DEF CmdOK
  <2> QED BY <1>2, <2>1, AfterTail
<1> QED BY <1>7, <1>8, <1>9, <1>10, <1>11, <1>12 DEF CmdOK, s

\* A command that changes only what it remembers, or ends, is guarded as before.
LEMMA CmdMemo ==
  ASSUME NEW c, NEW r, CmdOK(c, r), NEW s \in LinkCmds, s.todo = r.todo, s.iface # site.primary,
         s.exit = r.exit \/ s.exit # "none"
  PROVE  CmdOK(c, s)
<1>1. s.exit = "none" => s.todo # << >>
  BY DEF CmdOK
<1>2. \A n \in 1..Len(s.todo) : s.todo[n] = "ifstop" => n < Len(s.todo)
  BY DEF CmdOK
<1> QED BY <1>1, <1>2 DEF CmdOK

\* The command at the head of a guarded step may take it.
LEMMA MayTouch ==
  ASSUME HostInv, NEW c \in Jobs, linkCmd[c].exit = "none", Head(linkCmd[c].todo) \in Touching
  PROVE  IfaceOf(c) # site.primary
<1>1. CmdOK(c, linkCmd[c])
  BY DEF HostInv
<1>2. linkCmd[c].todo \in Seq(LinkSteps) /\ linkCmd[c].todo # << >>
  BY <1>1 DEF CmdOK, LinkCmds
<1>3. IfaceOf(c) = site.primary => After(linkCmd[c].todo, "primary", Touching)
  BY <1>1 DEF CmdOK
<1> QED BY <1>2, <1>3, AfterHead
LEMMA MayGive ==
  ASSUME HostInv, NEW c \in Jobs, linkCmd[c].exit = "none", Head(linkCmd[c].todo) \in Giving
  PROVE  Clear(TargetOf(c))
<1>1. CmdOK(c, linkCmd[c])
  BY DEF HostInv
<1>2. linkCmd[c].todo \in Seq(LinkSteps) /\ linkCmd[c].todo # << >>
  BY <1>1 DEF CmdOK, LinkCmds
<1>3. Clear(TargetOf(c)) \/ After(linkCmd[c].todo, "subnet", Giving)
  BY <1>1 DEF CmdOK
<1> QED BY <1>2, <1>3, AfterHead

CmdsOK == linkCmd' \in [Jobs -> LinkCmds] /\ \A c \in Jobs : CmdOK(c, linkCmd'[c])

LEMMA CmdMoves ==
  ASSUME HostInv, NEW c \in Jobs, NEW r \in LinkCmds, CmdOK(c, r), linkCmd' = [linkCmd EXCEPT ![c] = r]
  PROVE  CmdsOK
BY DEF HostInv, CmdsOK
LEMMA CmdStays ==
  ASSUME HostInv, linkCmd' = linkCmd
  PROVE  CmdsOK
BY DEF HostInv, CmdsOK

\* StepsOn and Fails.
LEMMA CmdSteps ==
  ASSUME HostInv, NEW c \in Jobs, linkCmd[c].exit = "none", Head(linkCmd[c].todo) # "ifstop",
         Head(linkCmd[c].todo) = "primary" => IfaceOf(c) # site.primary,
         Head(linkCmd[c].todo) = "subnet" => Clear(TargetOf(c)), StepsOn(c)
  PROVE  CmdsOK
<1> DEFINE r == StepOn(c, linkCmd[c])
<1>1. CmdOK(c, r) /\ r \in LinkCmds
  BY StepOnOK
<1>2. linkCmd' = [linkCmd EXCEPT ![c] = r]
  BY DEF StepsOn, StepOn
<1> HIDE DEF r
<1> QED BY <1>1, <1>2, CmdMoves
LEMMA CmdFails ==
  ASSUME HostInv, NEW c \in Jobs, NEW why \in Ends \ {"none"}, Fails(c, why)
  PROVE  CmdsOK
<1> DEFINE s == [linkCmd[c] EXCEPT !.exit = why]
<1>1. linkCmd[c] \in LinkCmds /\ CmdOK(c, linkCmd[c])
  BY DEF HostInv
<1>2. s \in LinkCmds /\ s.todo = linkCmd[c].todo /\ s.iface = linkCmd[c].iface /\ s.exit = why
  BY <1>1 DEF LinkCmds
<1>3. linkCmd' = [linkCmd EXCEPT ![c] = s]
  BY DEF Fails
<1>4. s.iface # site.primary
  BY <1>1, <1>2 DEF CmdOK
<1> HIDE DEF s
<1>5. s.exit # "none"
  BY <1>2
<1>6. CmdOK(c, s)
  BY <1>1, <1>2, <1>4, <1>5, CmdMemo
<1> QED BY <1>2, <1>3, <1>6, CmdMoves

(***************************************************************************)
(* Addresses.                                                              *)
(***************************************************************************)
Given(i, a) == \E t \in Targets : i = site.iface[t] /\ a = site.ip[t] /\ Clear(t)
OnlyGiven ==
  \A i \in Ifaces : \A n \in DOMAIN addr'[i] : (\E m \in DOMAIN addr[i] : addr[i][m] = addr'[i][n]) \/ Given(i, addr'[i][n])

\* Addresses given to links whose subnet is free leave every free subnet free.
LEMMA StaysClear ==
  ASSUME HostInv, site' = site, OnlyGiven, NEW t \in Targets, Clear(t)
  PROVE  Clear(t)'
<1>1. \A a, b \in Targets : site.iface[a] # site.iface[b] => site.ip[a][1] # site.ip[b][1]
  BY SiteFacts DEF HostInv
<1> SUFFICES ASSUME NEW j \in Ifaces \ {site.iface[t]}, NEW n \in DOMAIN addr'[j] PROVE addr'[j][n][1] # site.ip[t][1]
  BY DEF Clear
<1>2. CASE \E m \in DOMAIN addr[j] : addr[j][m] = addr'[j][n]
  BY <1>2 DEF Clear
<1>3. CASE Given(j, addr'[j][n])
  BY <1>1, <1>3 DEF Given
<1> QED BY <1>2, <1>3 DEF OnlyGiven
LEMMA StaysDistinct ==
  ASSUME HostInv, OnlyGiven
  PROVE  LinksInDistinctSubnets'
<1>1. \A a, b \in Targets : site.iface[a] # site.iface[b] => site.ip[a][1] # site.ip[b][1]
  BY SiteFacts DEF HostInv
<1> SUFFICES ASSUME NEW i \in Ifaces, NEW j \in Ifaces, NEW n \in DOMAIN addr'[i], NEW m \in DOMAIN addr'[j], i # j
             PROVE  addr'[i][n][1] # addr'[j][m][1]
  BY DEF LinksInDistinctSubnets
<1>2. \/ \E k \in DOMAIN addr[i] : addr[i][k] = addr'[i][n]
      \/ Given(i, addr'[i][n])
  BY DEF OnlyGiven
<1>3. \/ \E k \in DOMAIN addr[j] : addr[j][k] = addr'[j][m]
      \/ Given(j, addr'[j][m])
  BY DEF OnlyGiven
<1>4. CASE /\ \E k \in DOMAIN addr[i] : addr[i][k] = addr'[i][n]
           /\ \E k \in DOMAIN addr[j] : addr[j][k] = addr'[j][m]
  BY <1>4 DEF HostInv, LinksInDistinctSubnets
<1>5. CASE Given(i, addr'[i][n]) /\ \E k \in DOMAIN addr[j] : addr[j][k] = addr'[j][m]
  BY <1>5 DEF Given, Clear
<1>6. CASE Given(j, addr'[j][m]) /\ \E k \in DOMAIN addr[i] : addr[i][k] = addr'[i][n]
  BY <1>6 DEF Given, Clear
<1>7. CASE Given(i, addr'[i][n]) /\ Given(j, addr'[j][m])
  BY <1>1, <1>7 DEF Given
<1> QED BY <1>2, <1>3, <1>4, <1>5, <1>6, <1>7

\* A step that gives out only free addresses, and leaves the primary interface and every
\* stranger alone, keeps the invariant.
AddrOK == addr' \in [Ifaces -> Seq(Nat \X Nat)] /\ OnlyGiven /\ addr'[site.primary] = addr[site.primary]
ProcOK == proc' \in [Procs -> Programs] /\ \A p \in Procs : ProgramOK(proc'[p])
StatesOK == netState' \in [Targets -> States] /\ \A t \in Targets : StateOK(netState'[t])
LinkOK == ll' \subseteq Ifaces /\ carrier' \subseteq Ifaces /\ site.primary \in carrier' \ ll'
LEMMA HostKeeps ==
  ASSUME HostInv, site' = site, CmdsOK, StatesOK, ProcOK, AddrOK, LinkOK, hit' = hit
  PROVE  HostInv'
<1>1. site' \in LinkSites /\ Jobs' = Jobs
  BY DEF HostInv, Jobs
<1>2. \A c \in Jobs : TargetOf(c) \in Targets
  BY SiteFacts DEF HostInv
<1>3. \A t \in Targets : Clear(t) => Clear(t)'
  BY StaysClear DEF AddrOK
<1>4. \A c \in Jobs : (IfaceOf(c))' = IfaceOf(c) /\ (TargetOf(c))' = TargetOf(c)
  BY DEF IfaceOf, TargetOf
<1>5. \A c \in Jobs : CmdOK(c, linkCmd[c])'
  <2> SUFFICES ASSUME NEW c \in Jobs PROVE CmdOK(c, linkCmd[c])'
    OBVIOUS
  <2>1. CmdOK(c, linkCmd'[c])
    BY DEF CmdsOK
  <2>2. Clear(TargetOf(c)) => Clear(TargetOf(c))'
    <3> DEFINE t == TargetOf(c)
    <3>1. t \in Targets /\ (Clear(TargetOf(c)))' <=> t \in Targets /\ Clear(t)'
      BY <1>4 DEF Clear
    <3> QED BY <1>2, <1>3, <1>4, <3>1
  <2> QED BY <1>4, <2>1, <2>2 DEF CmdOK
<1>6. \A t \in Targets : StateOK(netState[t])'
  BY DEF StatesOK, StateOK
<1>7. \A p \in Procs : ProgramOK(proc[p])'
  <2> SUFFICES ASSUME NEW p \in Procs PROVE ProgramOK(proc[p])'
    OBVIOUS
  <2>1. ProgramOK(proc'[p])
    BY DEF ProcOK
  <2> QED BY <1>3, <2>1 DEF ProgramOK
<1>8. LinksInDistinctSubnets'
  BY StaysDistinct DEF AddrOK
<1>9. StrangerSpared' /\ PrimaryUntouched'
  BY DEF HostInv, StrangerSpared, PrimaryUntouched, AddrOK, LinkOK
<1> QED BY <1>1, <1>5, <1>6, <1>7, <1>8, <1>9 DEF HostInv, CmdsOK, StatesOK, ProcOK, AddrOK, LinkOK

(***************************************************************************)
(* The commands as they are given.                                         *)
(***************************************************************************)
NotLast(l) == \A n \in 1..Len(l) : l[n] = "ifstop" => n < Len(l)
HasStep(l, s) == \E n \in 1..Len(l) : l[n] = s
Lists == Seq(LinkSteps)
Guarded(l) == l \in Lists /\ l # << >> /\ NotLast(l) /\ After(l, "primary", Touching) /\ After(l, "subnet", Giving)

LEMMA NotLastBoth ==
  ASSUME NEW a \in Lists, NEW b \in Lists, b # << >>, NotLast(b)
  PROVE  NotLast(a \o b) /\ a \o b \in Lists /\ a \o b # << >>
<1> DEFINE c == a \o b
<1>1. /\ Len(a) \in Nat /\ Len(b) \in Nat /\ Len(b) >= 1 /\ Len(c) = Len(a) + Len(b)
      /\ \A n \in 1..Len(b) : c[Len(a) + n] = b[n]
  BY DEF Lists
<1>2. c \in Lists
  BY DEF Lists
<1>3. c # << >>
  BY <1>1
<1> HIDE DEF c
<1>4. ASSUME NEW n \in 1..Len(c), c[n] = "ifstop" PROVE n < Len(c)
  <2>1. CASE n <= Len(a)
    BY <1>1, <2>1
  <2>2. CASE n > Len(a)
    <3> DEFINE k == n - Len(a)
    <3>1. k \in 1..Len(b) /\ n = Len(a) + k
      BY <1>1, <2>2
    <3> HIDE DEF k
    <3>2. b[k] = "ifstop"
      BY <1>1, <1>4, <3>1
    <3> QED BY <1>1, <3>1, <3>2 DEF NotLast
  <2> QED BY <1>1, <2>1, <2>2
<1> QED BY <1>2, <1>3, <1>4 DEF NotLast, c
LEMMA HasBoth ==
  ASSUME NEW a \in Lists, NEW b \in Lists, NEW s, HasStep(a, s) \/ HasStep(b, s)
  PROVE  HasStep(a \o b, s)
<1> DEFINE c == a \o b
<1>1. /\ Len(a) \in Nat /\ Len(b) \in Nat /\ Len(c) = Len(a) + Len(b)
      /\ (\A n \in 1..Len(a) : c[n] = a[n]) /\ \A n \in 1..Len(b) : c[Len(a) + n] = b[n]
  BY DEF Lists
<1> HIDE DEF c
<1>2. CASE HasStep(a, s)
  <2>1. PICK n \in 1..Len(a) : a[n] = s
    BY <1>2 DEF HasStep
  <2>2. n \in 1..Len(c)
    BY <1>1
  <2> QED BY <1>1, <2>1, <2>2 DEF HasStep, c
<1>3. CASE HasStep(b, s)
  <2>1. PICK n \in 1..Len(b) : b[n] = s
    BY <1>3 DEF HasStep
  <2>2. Len(a) + n \in 1..Len(c)
    BY <1>1
  <2> QED BY <1>1, <2>1, <2>2 DEF HasStep, c
<1> QED BY <1>2, <1>3
LEMMA GuardedBoth ==
  ASSUME NEW a \in Lists, NEW b \in Lists, b # << >>, NotLast(b),
         After(a, "primary", Touching), After(b, "primary", Touching) \/ HasStep(a, "primary"),
         After(a, "subnet", Giving), After(b, "subnet", Giving) \/ HasStep(a, "subnet")
  PROVE  Guarded(a \o b)
<1>1. After(a \o b, "primary", Touching)
  BY AfterBoth DEF Lists, HasStep
<1>2. After(a \o b, "subnet", Giving)
  BY AfterBoth DEF Lists, HasStep
<1> QED BY <1>1, <1>2, NotLastBoth DEF Guarded

LEMMA ConfigureGuards ==
  /\ ConfigureInterface \in Lists /\ ConfigureInterface # << >> /\ NotLast(ConfigureInterface)
  /\ After(ConfigureInterface, "subnet", Giving) /\ HasStep(ConfigureInterface, "subnet")
<1>1. CASE site.mac
  <2> DEFINE l == <<"subnet", "ifconfig">>
  <2>1. l \in Lists /\ l # << >>
    BY DEF Lists, LinkSteps
  <2>2. NotLast(l) /\ HasStep(l, "subnet")
    BY DEF NotLast, HasStep
  <2>3. After(l, "subnet", Giving)
    BY DEF After, Giving
  <2>4. ConfigureInterface = l
    BY <1>1 DEF ConfigureInterface
  <2> QED BY <2>1, <2>2, <2>3, <2>4
<1>2. CASE ~site.mac
  <2> DEFINE l == <<"subnet", "replace", "others", "up">>
  <2>1. l \in Lists /\ l # << >>
    BY DEF Lists, LinkSteps
  <2>2. NotLast(l) /\ HasStep(l, "subnet")
    BY DEF NotLast, HasStep
  <2>3. After(l, "subnet", Giving)
    BY DEF After, Giving
  <2>4. ConfigureInterface = l
    BY <1>2 DEF ConfigureInterface
  <2> QED BY <2>1, <2>2, <2>3, <2>4
<1> QED BY <1>1, <1>2
LEMMA StartGuards == Guarded(Start)
<1> DEFINE a == <<"notrunning", "primary", "conflict", "cleanup">>
           b == ConfigureInterface
           d == <<"spawn", "watch", "save">>
<1>1. a \in Lists /\ HasStep(a, "primary")
  BY DEF Lists, LinkSteps, HasStep
<1>2. After(a, "primary", Touching) /\ After(a, "subnet", Giving)
  BY DEF After, Touching, Giving
<1>3. d \in Lists /\ d # << >> /\ NotLast(d)
  BY DEF Lists, LinkSteps, NotLast
<1>4. Start = (a \o b) \o d
  BY DEF Start
<1> HIDE DEF a, b, d
<1>5. b \in Lists /\ b # << >> /\ NotLast(b) /\ After(b, "subnet", Giving) /\ HasStep(b, "subnet")
  BY ConfigureGuards DEF b
<1>6. Guarded(a \o b)
  BY <1>1, <1>2, <1>5, GuardedBoth
<1>7. HasStep(a \o b, "primary") /\ HasStep(a \o b, "subnet")
  BY <1>1, <1>5, HasBoth
<1> DEFINE e == a \o b
<1>8. e \in Lists /\ After(e, "primary", Touching) /\ After(e, "subnet", Giving) /\ HasStep(e, "primary") /\ HasStep(e, "subnet")
  BY <1>6, <1>7 DEF Guarded
<1> HIDE DEF e
<1>9. Guarded(e \o d)
  BY <1>3, <1>8, GuardedBoth
<1> QED BY <1>4, <1>9 DEF e
LEMMA StopGuards == Guarded(Stop)
<1>1. Stop \in Lists /\ Stop # << >>
  BY DEF Stop, Lists, LinkSteps
<1>2. NotLast(Stop)
  BY DEF Stop, NotLast
<1>3. After(Stop, "primary", Touching)
  BY DEF Stop, After, Touching
<1>4. After(Stop, "subnet", Giving)
  BY DEF Stop, After, Giving
<1> QED BY <1>1, <1>2, <1>3, <1>4 DEF Guarded
LEMMA NetbootGuards == Guarded(ModeNetboot)
<1> DEFINE a == <<"primary", "delll", "unless">>
<1>1. a \in Lists /\ HasStep(a, "primary")
  BY DEF Lists, LinkSteps, HasStep
<1>2. After(a, "primary", Touching) /\ After(a, "subnet", Giving)
  BY DEF After, Touching, Giving
<1>3. ModeNetboot = a \o Start
  BY DEF ModeNetboot
<1> HIDE DEF a
<1>4. Guarded(a \o Start)
  BY <1>1, <1>2, StartGuards, GuardedBoth DEF Guarded
<1> QED BY <1>3, <1>4
LEMMA LinkGuards == Guarded(ModeLink)
<1> DEFINE a == <<"primary", "ifstop", "delll">>
<1>1. a \in Lists /\ HasStep(a, "primary")
  BY DEF Lists, LinkSteps, HasStep
<1>2. After(a, "primary", Touching) /\ After(a, "subnet", Giving)
  BY DEF After, Touching, Giving
<1>3. ModeLink = a \o ConfigureInterface
  BY DEF ModeLink
<1> HIDE DEF a
<1>4. Guarded(a \o ConfigureInterface)
  BY <1>1, <1>2, ConfigureGuards, GuardedBoth
<1> QED BY <1>3, <1>4
LEMMA FfxGuards == Guarded(ModeFfx)
<1>1. ModeFfx \in Lists /\ ModeFfx # << >>
  BY DEF ModeFfx, Lists, LinkSteps
<1>2. NotLast(ModeFfx)
  BY DEF ModeFfx, NotLast
<1>3. After(ModeFfx, "primary", Touching)
  BY DEF ModeFfx, After, Touching
<1>4. After(ModeFfx, "subnet", Giving)
  BY DEF ModeFfx, After, Giving
<1> QED BY <1>1, <1>2, <1>3, <1>4 DEF Guarded
LEMMA OffGuards == Guarded(ModeOff) /\ HasStep(ModeOff, "primary")
<1>1. ModeOff \in Lists /\ ModeOff # << >>
  BY DEF ModeOff, Lists, LinkSteps
<1>2. NotLast(ModeOff) /\ HasStep(ModeOff, "primary")
  BY DEF ModeOff, NotLast, HasStep
<1>3. After(ModeOff, "primary", Touching)
  BY DEF ModeOff, After, Touching
<1>4. After(ModeOff, "subnet", Giving)
  BY DEF ModeOff, After, Giving
<1> QED BY <1>1, <1>2, <1>3, <1>4 DEF Guarded
LEMMA DownGuards == Guarded(DownHard)
<1> DEFINE a == <<"primary">>
           d == <<"down">>
<1>1. a \in Lists /\ d \in Lists /\ d # << >>
  BY DEF Lists, LinkSteps
<1>2. After(a, "primary", Touching) /\ After(a, "subnet", Giving) /\ After(d, "subnet", Giving)
  BY DEF After, Touching, Giving
<1>3. NotLast(d) /\ HasStep(a, "primary")
  BY DEF NotLast, HasStep
<1>4. DownHard = (a \o ModeOff) \o d
  BY DEF DownHard
<1> HIDE DEF a, d
<1> DEFINE e == a \o ModeOff
<1>5. Guarded(e)
  BY <1>1, <1>2, OffGuards, GuardedBoth DEF Guarded
<1>6. HasStep(e, "primary")
  BY <1>1, <1>3, OffGuards, HasBoth DEF Guarded
<1> HIDE DEF e
<1>7. Guarded(e \o d)
  BY <1>1, <1>2, <1>3, <1>5, <1>6, GuardedBoth DEF Guarded
<1> QED BY <1>4, <1>7 DEF e

LEMMA VerbGuards ==
  ASSUME NEW v \in {"start", "stop", "netboot", "link", "ffx", "off", "down"}
  PROVE  Guarded(VerbSteps(v))
<1>1. CASE v = "start"
  BY <1>1, StartGuards DEF VerbSteps
<1>2. CASE v = "stop"
  BY <1>2, StopGuards DEF VerbSteps
<1>3. CASE v = "netboot"
  BY <1>3, NetbootGuards DEF VerbSteps
<1>4. CASE v = "link"
  BY <1>4, LinkGuards DEF VerbSteps
<1>5. CASE v = "ffx"
  BY <1>5, FfxGuards DEF VerbSteps
<1>6. CASE v = "off"
  BY <1>6, OffGuards DEF VerbSteps
<1>7. CASE v = "down"
  BY <1>7, DownGuards DEF VerbSteps
<1> QED BY <1>1, <1>2, <1>3, <1>4, <1>5, <1>6, <1>7

LEMMA HostBegins ==
  ASSUME HostInit
  PROVE  HostInv
<1>1. site \in LinkSites
  BY DEF HostInit
<1>2. /\ site.primary \in Ifaces /\ site.prior \in [Ifaces -> Seq(Nat \X Nat)] /\ PidLimit \in Nat /\ "none" \notin Ifaces
      /\ \A c \in Jobs : site.jobs[c].verb \in {"start", "stop", "netboot", "link", "ffx", "off", "down"}
  BY <1>1, SiteFacts
<1>3. \A i, j \in Ifaces : \A n \in DOMAIN site.prior[i], m \in DOMAIN site.prior[j] :
              i # j => site.prior[i][n][1] # site.prior[j][m][1]
  BY <1>1, SiteFacts
<1>4. ASSUME NEW c \in Jobs PROVE Cmd0(c) \in LinkCmds /\ CmdOK(c, Cmd0(c))
  <2> DEFINE l == VerbSteps(site.jobs[c].verb)
             r == [todo |-> l, exit |-> "none", live |-> 0, iface |-> "none", was |-> << >>]
  <2>1. Guarded(l)
    BY <1>2, VerbGuards
  <2>2. Cmd0(c) = r
    BY DEF Cmd0
  <2> HIDE DEF l
  <2>3. l \in Seq(LinkSteps) /\ 0 \in 0..PidLimit /\ "none" \in Ends /\ "none" \in Names /\ << >> \in Seq(Nat \X Nat)
    BY <1>2, <2>1 DEF Guarded, Lists, Ends, Names
  <2>4. r \in LinkCmds
    BY <2>3 DEF LinkCmds
  <2>5. r.todo = l /\ r.iface = "none" /\ r.iface # site.primary
    BY <1>2
  <2> HIDE DEF r
  <2>6. CmdOK(c, r)
    BY <2>1, <2>4, <2>5 DEF CmdOK, Guarded, NotLast
  <2> QED BY <2>2, <2>4, <2>6
<1>5. linkCmd \in [Jobs -> LinkCmds] /\ \A c \in Jobs : CmdOK(c, linkCmd[c])
  BY <1>4 DEF HostInit
<1>6. NoState \in States /\ StateOK(NoState)
  BY <1>2 DEF NoState, States, StateOK, Names
<1>7. NoProc \in Programs /\ ProgramOK(NoProc)
  BY <1>2 DEF NoProc, Programs, ProgramOK, Names
<1>8. StrangerSpared /\ PrimaryUntouched
  BY <1>2 DEF HostInit, StrangerSpared, PrimaryUntouched
<1>9. LinksInDistinctSubnets
  BY <1>3 DEF HostInit, LinksInDistinctSubnets
<1> QED BY <1>1, <1>2, <1>5, <1>6, <1>7, <1>8, <1>9 DEF HostInit, HostInv

(***************************************************************************)
(* What a step does to each part.                                          *)
(***************************************************************************)
LEMMA StatesStay == ASSUME HostInv, netState' = netState PROVE StatesOK
BY DEF HostInv, StatesOK
LEMMA ProcStays == ASSUME HostInv, proc' = proc PROVE ProcOK
BY DEF HostInv, ProcOK
LEMMA AddrStays == ASSUME HostInv, addr' = addr PROVE AddrOK
BY DEF HostInv, AddrOK, OnlyGiven
LEMMA LinkStays == ASSUME HostInv, ll' = ll, carrier' = carrier PROVE LinkOK
BY DEF HostInv, LinkOK, PrimaryUntouched

LEMMA StateForgotten ==
  ASSUME HostInv, NEW t, netState' = [netState EXCEPT ![t] = NoState]
  PROVE  StatesOK
<1>1. site.primary \in Ifaces /\ PidLimit \in Nat /\ "none" \notin Ifaces
  BY SiteFacts DEF HostInv
<1>2. NoState \in States /\ StateOK(NoState)
  BY <1>1 DEF NoState, States, StateOK, Names
<1> QED BY <1>2 DEF HostInv, StatesOK

\* A process ends.
LEMMA NoProcOK == ASSUME HostInv PROVE NoProc \in Programs /\ ProgramOK(NoProc)
<1>1. site.primary \in Ifaces /\ PidLimit \in Nat
  BY SiteFacts DEF HostInv
<1> QED BY <1>1 DEF NoProc, Programs, ProgramOK, Names
LEMMA ProcGone == ASSUME HostInv, NEW p, proc' = [proc EXCEPT ![p] = NoProc] PROVE ProcOK
BY NoProcOK DEF HostInv, ProcOK
LEMMA ProcEnded == ASSUME HostInv, NEW p, proc' = EndedAt(p) PROVE ProcOK
BY NoProcOK DEF HostInv, ProcOK, EndedAt
\* A netbootd goes on to another place.
LEMMA ProcAt ==
  ASSUME HostInv, NEW p, NEW x \in {"serving", "dying", "deaf", "stuck"}, proc' = [proc EXCEPT ![p].at = x]
  PROVE  ProcOK
<1>1. CASE p \notin Procs
  <2>1. proc' = proc
    BY <1>1 DEF HostInv
  <2> QED BY <2>1, ProcStays
<1>2. CASE p \in Procs
  <2> DEFINE q == [proc[p] EXCEPT !.at = x]
  <2>1. proc[p] \in Programs /\ ProgramOK(proc[p])
    BY <1>2 DEF HostInv
  <2>2. q \in Programs /\ q.prog = proc[p].prog /\ q.iface = proc[p].iface /\ q.ip = proc[p].ip
    BY <2>1 DEF Programs
  <2>3. proc' = [proc EXCEPT ![p] = q]
    OBVIOUS
  <2> HIDE DEF q
  <2>4. ProgramOK(q)
    BY <2>1, <2>2 DEF ProgramOK
  <2> QED BY <2>2, <2>3, <2>4 DEF HostInv, ProcOK
<1> QED BY <1>1, <1>2
LEMMA ToldOK == ASSUME HostInv, NEW p, NEW sig, proc' = Told(p, sig) PROVE ProcOK
<1>1. CASE proc' = proc
  BY <1>1, ProcStays
<1>2. CASE proc' = [proc EXCEPT ![p].at = "dying"]
  BY <1>2, ProcAt
<1> QED BY <1>1, <1>2 DEF Told
\* A process that was found to run netbootd, or the sudo above one, is signalled.
LEMMA SignalOK ==
  ASSUME HostInv, NEW p, IsNamedChildAlive(p), NEW sig \in {"TERM", "KILL"}, Signal(p, sig)
  PROVE  ProcOK /\ hit' = hit
<1>1. CASE proc[p].prog = "sudo" /\ sig = "TERM"
  BY <1>1, ToldOK DEF Signal
<1>2. CASE proc[p].prog = "sudo" /\ sig = "KILL"
  BY <1>2, ProcGone DEF Signal
<1>3. CASE proc[p].prog = "netbootd"
  BY <1>3, ToldOK DEF Signal
<1> QED BY <1>1, <1>2, <1>3 DEF IsNamedChildAlive

LEMMA AddrCleared ==
  ASSUME HostInv, NEW i, i # site.primary, addr' = [addr EXCEPT ![i] = << >>]
  PROVE  AddrOK
<1>1. site.primary \in Ifaces /\ addr \in [Ifaces -> Seq(Nat \X Nat)]
  BY SiteFacts DEF HostInv
<1> DEFINE e == << >>
<1>0. e \in Seq(Nat \X Nat) /\ addr' = [addr EXCEPT ![i] = e]
  BY EmptySeq
<1> HIDE DEF e
<1>2. addr' \in [Ifaces -> Seq(Nat \X Nat)] /\ addr'[site.primary] = addr[site.primary]
  BY <1>0, <1>1
<1>3. ASSUME NEW j \in Ifaces, NEW n \in DOMAIN addr'[j] PROVE \E m \in DOMAIN addr[j] : addr[j][m] = addr'[j][n]
  <2>1. CASE j = i
    <3>1. addr'[j] = << >>
      BY <1>0, <1>1, <2>1 DEF e
    <3> QED BY <3>1
  <2>2. CASE j # i
    BY <1>0, <1>1, <2>2
  <2> QED BY <2>1, <2>2
<1> QED BY <1>2, <1>3 DEF AddrOK, OnlyGiven
\* An address is given: alone, or beside the others.
LEMMA AddrSet ==
  ASSUME HostInv, NEW t \in Targets, site.iface[t] # site.primary, Clear(t),
         addr' = [addr EXCEPT ![site.iface[t]] = <<site.ip[t]>>]
  PROVE  AddrOK
<1>1. /\ site.primary \in Ifaces /\ addr \in [Ifaces -> Seq(Nat \X Nat)] /\ site.iface[t] \in Ifaces
      /\ site.ip[t] \in Nat \X Nat
  BY SiteFacts DEF HostInv
<1> DEFINE i == site.iface[t]
           a == site.ip[t]
<1> HIDE DEF i, a
<1>2. addr' = [addr EXCEPT ![i] = <<a>>] /\ i \in Ifaces /\ a \in Nat \X Nat /\ i # site.primary /\ Given(i, a)
  BY <1>1 DEF i, a, Given
<1>3. addr' \in [Ifaces -> Seq(Nat \X Nat)] /\ addr'[site.primary] = addr[site.primary]
  BY <1>1, <1>2
<1>4. ASSUME NEW j \in Ifaces, NEW n \in DOMAIN addr'[j]
      PROVE  (\E m \in DOMAIN addr[j] : addr[j][m] = addr'[j][n]) \/ Given(j, addr'[j][n])
  <2>1. CASE j = i
    <3>1. addr'[j] = <<a>>
      BY <1>1, <1>2, <2>1
    <3>2. addr'[j][n] = a
      BY <3>1
    <3> QED BY <1>2, <2>1, <3>2
  <2>2. CASE j # i
    BY <1>1, <1>2, <2>2
  <2> QED BY <2>1, <2>2
<1> QED BY <1>3, <1>4 DEF AddrOK, OnlyGiven
LEMMA AddrReplaced ==
  ASSUME HostInv, NEW t \in Targets, site.iface[t] # site.primary, Clear(t),
         addr' = ReplacedIn(site.iface[t], site.ip[t])
  PROVE  AddrOK
<1>1. /\ site.primary \in Ifaces /\ addr \in [Ifaces -> Seq(Nat \X Nat)] /\ site.iface[t] \in Ifaces
      /\ site.ip[t] \in Nat \X Nat
  BY SiteFacts DEF HostInv
<1> DEFINE i == site.iface[t]
           a == site.ip[t]
<1> HIDE DEF i, a
<1>2. i \in Ifaces /\ a \in Nat \X Nat /\ i # site.primary /\ Given(i, a)
  BY <1>1 DEF i, a, Given
<1>3. CASE addr' = addr
  BY <1>3, AddrStays
<1>4. CASE addr' = [addr EXCEPT ![i] = Append(addr[i], a)]
  <2> DEFINE s == Append(addr[i], a)
  <2>1. s \in Seq(Nat \X Nat) /\ addr[i] \in Seq(Nat \X Nat) /\ Len(addr[i]) \in Nat /\ Len(s) = Len(addr[i]) + 1
        /\ DOMAIN s = 1..Len(s) /\ DOMAIN addr[i] = 1..Len(addr[i])
    BY <1>1, <1>2
  <2>2. s[Len(addr[i]) + 1] = a /\ \A n \in 1..Len(addr[i]) : s[n] = addr[i][n]
    BY <1>1, <1>2
  <2> HIDE DEF s
  <2>3. addr' = [addr EXCEPT ![i] = s]
    BY <1>4 DEF s
  <2>4. addr' \in [Ifaces -> Seq(Nat \X Nat)] /\ addr'[site.primary] = addr[site.primary]
    BY <1>1, <1>2, <2>1, <2>3
  <2>5. ASSUME NEW j \in Ifaces, NEW n \in DOMAIN addr'[j]
        PROVE  (\E m \in DOMAIN addr[j] : addr[j][m] = addr'[j][n]) \/ Given(j, addr'[j][n])
    <3>1. CASE j = i
      <4>1. addr'[j] = s
        BY <1>1, <2>3, <3>1
      <4>2. n \in 1..Len(s)
        BY <2>1, <4>1
      <4>3. CASE n = Len(addr[i]) + 1
        BY <1>2, <2>2, <3>1, <4>1, <4>3
      <4>4. CASE n # Len(addr[i]) + 1
        <5>1. n \in 1..Len(addr[i])
          BY <2>1, <4>2, <4>4
        <5>2. n \in DOMAIN addr[i] /\ addr[i][n] = addr'[j][n]
          BY <2>1, <2>2, <4>1, <5>1
        <5> QED BY <3>1, <5>2
      <4> QED BY <4>3, <4>4
    <3>2. CASE j # i
      BY <1>1, <2>3, <3>2
    <3> QED BY <3>1, <3>2
  <2> QED BY <2>4, <2>5 DEF AddrOK, OnlyGiven
<1> QED BY <1>3, <1>4 DEF ReplacedIn, i, a
\* One is taken away.
LEMMA RemovedFrom ==
  ASSUME NEW S, NEW s \in Seq(S), NEW k \in 1..Len(s)
  PROVE  RemoveAt(s, k) \in Seq(S) /\ \A n \in DOMAIN RemoveAt(s, k) : \E m \in DOMAIN s : s[m] = RemoveAt(s, k)[n]
<1> DEFINE a == SubSeq(s, 1, k - 1)
           b == SubSeq(s, k + 1, Len(s))
           r == RemoveAt(s, k)
<1>1. Len(s) \in Nat /\ k \in Nat /\ k >= 1 /\ k <= Len(s) /\ DOMAIN s = 1..Len(s)
  OBVIOUS
<1>2. a \in Seq(S) /\ Len(a) = k - 1 /\ \A n \in 1..(k - 1) : a[n] = s[n]
  <2>1. CASE k = 1
    BY <1>1, <2>1, SubSeqProperties
  <2>2. CASE k > 1
    BY <1>1, <2>2, SubSeqProperties
  <2> QED BY <1>1, <2>1, <2>2
<1>3. b \in Seq(S) /\ Len(b) = Len(s) - k /\ \A n \in 1..(Len(s) - k) : b[n] = s[k + n]
  <2>1. CASE ~(k < Len(s))
    <3>1. k + 1 \in Int /\ k + 1 > Len(s)
      BY <1>1, <2>1
    <3> DEFINE lo == k + 1
    <3> HIDE DEF lo
    <3>2. b = SubSeq(s, lo, Len(s)) /\ lo \in Int /\ lo > Len(s)
      BY <3>1 DEF lo
    <3> HIDE DEF b
    <3>3. b = << >>
      BY <1>1, <3>2, SubSeqProperties
    <3> DEFINE l == Len(s)
    <3>4. l \in Nat /\ k \in Nat /\ k <= l /\ ~(k < l)
      BY <1>1, <2>1
    <3> HIDE DEF l
    <3>5. l - k = 0
      BY ONLY <3>4
    <3> QED BY <3>3, <3>5, EmptySeq DEF l
  <2>2. CASE k < Len(s)
    <3> DEFINE lo == k + 1
    <3>1. lo \in 1..Len(s) /\ lo <= Len(s) /\ Len(s) - lo + 1 = Len(s) - k /\ \A n \in 1..(Len(s) - k) : lo + n - 1 = k + n
      BY <1>1, <2>2
    <3>2. b = SubSeq(s, lo, Len(s))
      OBVIOUS
    <3> HIDE DEF b, lo
    <3>3. Len(s) \in 1..Len(s)
      BY <1>1
    <3>4. b \in Seq(S) /\ Len(b) = Len(s) - lo + 1
      BY <1>1, <3>1, <3>2, <3>3, SubSeqProperties
    <3>5. \A n \in 1..(Len(s) - lo + 1) : b[n] = s[lo + n - 1]
      BY <1>1, <3>1, <3>2, <3>3, SubSeqProperties
    <3> QED BY <3>1, <3>4, <3>5
  <2> HIDE DEF a, b, r
  <2> QED BY <2>1, <2>2
<1>4. r = a \o b
  BY DEF RemoveAt
<1> HIDE DEF a, b, r
<1>0. a \in Seq(S) /\ b \in Seq(S)
  BY <1>2, <1>3
<1>7. r \in Seq(S) /\ Len(r) = Len(a) + Len(b) /\ Len(a) \in Nat /\ Len(b) \in Nat
  BY ONLY <1>0, <1>4
<1>8. DOMAIN r = 1..Len(r)
  BY <1>7
<1>9. (\A n \in 1..Len(a) : r[n] = a[n]) /\ \A n \in 1..Len(b) : r[Len(a) + n] = b[n]
  BY <1>2, <1>3, <1>4
<1>5. /\ r \in Seq(S) /\ Len(r) = Len(a) + Len(b) /\ DOMAIN r = 1..Len(r) /\ Len(a) \in Nat /\ Len(b) \in Nat
      /\ (\A n \in 1..Len(a) : r[n] = a[n]) /\ \A n \in 1..Len(b) : r[Len(a) + n] = b[n]
  BY <1>7, <1>8, <1>9
<1>6. ASSUME NEW n \in DOMAIN r PROVE \E m \in DOMAIN s : s[m] = r[n]
  <2>1. CASE n <= k - 1
    <3>1. n \in 1..Len(a) /\ n \in 1..(k - 1) /\ n \in DOMAIN s
      BY <1>1, <1>2, <1>5, <2>1
    <3> QED BY <1>2, <1>5, <3>1
  <2>2. CASE n > k - 1
    <3> DEFINE h == n - (k - 1)
    <3>0. n \in 1..(Len(a) + Len(b)) /\ Len(a) = k - 1 /\ Len(b) = Len(s) - k
      BY <1>2, <1>3, <1>5
    <3>1. h \in 1..(Len(s) - k) /\ n = Len(a) + h /\ k + h \in DOMAIN s
      BY <1>1, <3>0, <2>2
    <3> HIDE DEF h
    <3> QED BY <1>3, <1>5, <3>1
  <2> QED BY <1>1, <1>5, <2>1, <2>2
<1> QED BY <1>5, <1>6 DEF r
LEMMA AddrRemoved ==
  ASSUME HostInv, NEW i \in Ifaces, i # site.primary, NEW k \in DOMAIN addr[i],
         addr' = [addr EXCEPT ![i] = RemoveAt(addr[i], k)]
  PROVE  AddrOK
<1> DEFINE r == RemoveAt(addr[i], k)
<1>1. site.primary \in Ifaces /\ addr \in [Ifaces -> Seq(Nat \X Nat)]
  BY SiteFacts DEF HostInv
<1>2. addr[i] \in Seq(Nat \X Nat) /\ k \in 1..Len(addr[i])
  BY <1>1
<1>3. r \in Seq(Nat \X Nat) /\ \A n \in DOMAIN r : \E m \in DOMAIN addr[i] : addr[i][m] = r[n]
  BY <1>2, RemovedFrom
<1> HIDE DEF r
<1>4. addr' = [addr EXCEPT ![i] = r]
  BY DEF r
<1>5. addr' \in [Ifaces -> Seq(Nat \X Nat)] /\ addr'[site.primary] = addr[site.primary]
  BY <1>1, <1>3, <1>4
<1>6. ASSUME NEW j \in Ifaces, NEW n \in DOMAIN addr'[j] PROVE \E m \in DOMAIN addr[j] : addr[j][m] = addr'[j][n]
  <2>1. CASE j = i
    BY <1>1, <1>3, <1>4, <2>1
  <2>2. CASE j # i
    BY <1>1, <1>4, <2>2
  <2> QED BY <2>1, <2>2
<1> QED BY <1>5, <1>6 DEF AddrOK, OnlyGiven

LEMMA OnlyCmds ==
  ASSUME HostInv, CmdsOK, UNCHANGED <<netState, proc, Links, FixedOnes>>
  PROVE  HostInv'
BY StatesStay, ProcStays, AddrStays, LinkStays, HostKeeps DEF Links, FixedOnes
\* A step that checks nothing the rest depends on.
LEMMA PlainStep ==
  ASSUME HostInv, NEW c \in Jobs, NEW s \in LinkSteps \ {"ifstop", "primary", "subnet"}, AtStep(c, s), StepsOn(c)
  PROVE  CmdsOK
BY CmdSteps DEF AtStep
LEMMA EndCmd ==
  ASSUME HostInv, NEW c \in Jobs, NEW why \in {"ok", "refused", "no state", "survivor", "assign", "reassert", "died"}, Fails(c, why)
  PROVE  CmdsOK
BY CmdFails DEF Ends
\* A step that changes the command's own link.
LEMMA OwnLink ==
  ASSUME HostInv, NEW c \in Jobs
  PROVE  /\ TargetOf(c) \in Targets /\ IfaceOf(c) \in Ifaces /\ IpOf(c) \in Nat \X Nat
         /\ IfaceOf(c) = site.iface[TargetOf(c)] /\ IpOf(c) = site.ip[TargetOf(c)]
BY SiteFacts DEF HostInv, IfaceOf, IpOf

(***************************************************************************)
(* The steps of a command.                                                 *)
(***************************************************************************)
LEMMA ChecksKeep ==
  ASSUME HostInv, NEW c \in Jobs,
         CheckPrimary(c) \/ CheckNotRunning(c) \/ CheckConflict(c) \/ UnlessRunning(c) \/ WaitForExit(c) \/ WatchStartup(c)
  PROVE  HostInv'
<1>1. CASE CheckPrimary(c)
  <2>1. CASE Fails(c, "refused")
    BY <1>1, <2>1, EndCmd, OnlyCmds DEF CheckPrimary
  <2>2. CASE StepsOn(c) /\ ~IsPrimaryInterface(IfaceOf(c))
    <3>1. CmdsOK
      BY <1>1, <2>2, CmdSteps DEF CheckPrimary, AtStep, IsPrimaryInterface
    <3> QED BY <1>1, <3>1, OnlyCmds DEF CheckPrimary
  <2> QED BY <1>1, <2>1, <2>2 DEF CheckPrimary, RefuseIf
<1>2. CASE CheckNotRunning(c)
  <2>1. CASE Fails(c, "refused")
    BY <1>2, <2>1, EndCmd, OnlyCmds DEF CheckNotRunning
  <2>2. CASE StepsOn(c)
    <3>1. CmdsOK
      BY <1>2, <2>2, PlainStep DEF CheckNotRunning, LinkSteps
    <3> QED BY <1>2, <3>1, OnlyCmds DEF CheckNotRunning
  <2> QED BY <1>2, <2>1, <2>2 DEF CheckNotRunning, RefuseIf
<1>3. CASE CheckConflict(c)
  <2>1. CASE Fails(c, "refused")
    BY <1>3, <2>1, EndCmd, OnlyCmds DEF CheckConflict
  <2>2. CASE StepsOn(c)
    <3>1. CmdsOK
      BY <1>3, <2>2, PlainStep DEF CheckConflict, LinkSteps
    <3> QED BY <1>3, <3>1, OnlyCmds DEF CheckConflict
  <2> QED BY <1>3, <2>1, <2>2 DEF CheckConflict, RefuseIf
<1>4. CASE UnlessRunning(c)
  <2>1. CASE Fails(c, "ok")
    BY <1>4, <2>1, EndCmd, OnlyCmds DEF UnlessRunning
  <2>2. CASE StepsOn(c)
    <3>1. CmdsOK
      BY <1>4, <2>2, PlainStep DEF UnlessRunning, LinkSteps
    <3> QED BY <1>4, <3>1, OnlyCmds DEF UnlessRunning
  <2> QED BY <1>4, <2>1, <2>2 DEF UnlessRunning
<1>5. CASE WaitForExit(c)
  <2>1. CmdsOK
    BY <1>5, PlainStep DEF WaitForExit, LinkSteps
  <2> QED BY <1>5, <2>1, OnlyCmds DEF WaitForExit
<1>6. CASE WatchStartup(c)
  <2>1. CASE Fails(c, "died")
    BY <1>6, <2>1, EndCmd, OnlyCmds DEF WatchStartup
  <2>2. CASE StepsOn(c)
    <3>1. CmdsOK
      BY <1>6, <2>2, PlainStep DEF WatchStartup, LinkSteps
    <3> QED BY <1>6, <3>1, OnlyCmds DEF WatchStartup
  <2> QED BY <1>6, <2>1, <2>2 DEF WatchStartup
<1> QED BY <1>1, <1>2, <1>3, <1>4, <1>5, <1>6

\* A stop put before the rest of the command checks nothing and gives nothing.
LEMMA IfRunningStopKeeps ==
  ASSUME HostInv, NEW c \in Jobs, IfRunningStop(c)
  PROVE  HostInv'
<1> DEFINE r == linkCmd[c]
           a == IF IsNetbootRunning(TargetOf(c)) THEN Stop ELSE << >>
           l == a \o Tail(r.todo)
           s == [r EXCEPT !.todo = l]
<1>1. r \in LinkCmds /\ CmdOK(c, r) /\ r.exit = "none" /\ Head(r.todo) = "ifstop"
  BY DEF HostInv, IfRunningStop, AtStep
<1>2. r.todo \in Lists /\ r.todo # << >>
  BY <1>1 DEF CmdOK, LinkCmds, Lists
<1>3. /\ Tail(r.todo) \in Lists /\ Len(r.todo) \in Nat /\ Len(r.todo) >= 1 /\ Len(Tail(r.todo)) = Len(r.todo) - 1
      /\ Head(r.todo) = r.todo[1]
  BY <1>2, TodoFacts DEF Lists
<1>4. \A n \in 1..(Len(r.todo) - 1) : Tail(r.todo)[n] = r.todo[n + 1]
  BY <1>2, TodoFacts DEF Lists
<1>5. Len(r.todo) > 1
  <2>1. 1 \in 1..Len(r.todo) /\ r.todo[1] = "ifstop"
    BY <1>1, <1>3
  <2> QED BY <1>1, <2>1 DEF CmdOK
<1>6. Tail(r.todo) # << >>
  <2> DEFINE t == Tail(r.todo)
             k == Len(r.todo)
  <2>1. Len(t) = k - 1 /\ k \in Nat /\ k > 1
    BY <1>3, <1>5
  <2> HIDE DEF t, k
  <2>2. t # << >>
    BY ONLY <2>1, EmptySeq
  <2> QED BY <2>2 DEF t
<1>7. NotLast(Tail(r.todo))
  <2> SUFFICES ASSUME NEW n \in 1..Len(Tail(r.todo)), Tail(r.todo)[n] = "ifstop" PROVE n < Len(Tail(r.todo))
    BY DEF NotLast
  <2>1. n + 1 \in 1..Len(r.todo) /\ r.todo[n + 1] = "ifstop"
    BY <1>3, <1>4
  <2>2. n + 1 < Len(r.todo)
    BY <1>1, <2>1 DEF CmdOK
  <2> QED BY <1>3, <2>2
<1>8. a \in Lists /\ After(a, "primary", Touching) /\ After(a, "subnet", Giving)
  <2>1. CASE a = Stop
    BY <2>1, StopGuards DEF Guarded
  <2>2. CASE a = << >>
    <3>1. << >> \in Lists
      BY DEF Lists
    <3>2. Len(<< >>) = 0
      OBVIOUS
    <3> QED BY <2>2, <3>1, <3>2 DEF After
  <2> QED BY <2>1, <2>2
<1>9. linkCmd' = [linkCmd EXCEPT ![c] = s]
  BY DEF IfRunningStop
<1> DEFINE b == Tail(r.todo)
<1> HIDE DEF a, b
<1>10. NotLast(l) /\ l \in Lists /\ l # << >>
  BY <1>3, <1>6, <1>7, <1>8, NotLastBoth DEF b
<1>11. IfaceOf(c) = site.primary => After(l, "primary", Touching)
  <2> SUFFICES ASSUME IfaceOf(c) = site.primary PROVE After(l, "primary", Touching)
    OBVIOUS
  <2>1. After(r.todo, "primary", Touching) /\ Head(r.todo) # "primary"
    BY <1>1 DEF CmdOK
  <2>2. After(b, "primary", Touching) /\ b \in Lists
    BY <1>2, <1>3, <2>1, AfterTail DEF Lists, b
  <2>3. After(a \o b, "primary", Touching)
    BY <1>8, <2>2, AfterBoth DEF Lists
  <2> QED BY <2>3 DEF b
<1>12. Clear(TargetOf(c)) \/ After(l, "subnet", Giving)
  <2> SUFFICES ASSUME ~Clear(TargetOf(c)) PROVE After(l, "subnet", Giving)
    OBVIOUS
  <2>1. After(r.todo, "subnet", Giving) /\ Head(r.todo) # "subnet"
    BY <1>1 DEF CmdOK
  <2>2. After(b, "subnet", Giving) /\ b \in Lists
    BY <1>2, <1>3, <2>1, AfterTail DEF Lists, b
  <2>3. After(a \o b, "subnet", Giving)
    BY <1>8, <2>2, AfterBoth DEF Lists
  <2> QED BY <2>3 DEF b
<1> HIDE DEF l
<1>13. s \in LinkCmds /\ s.todo = l /\ s.iface = r.iface
  BY <1>1, <1>10 DEF LinkCmds, Lists
<1> HIDE DEF s
<1>14. CmdOK(c, s)
  BY <1>1, <1>10, <1>11, <1>12, <1>13 DEF CmdOK, NotLast
<1>15. CmdsOK
  BY <1>9, <1>13, <1>14, CmdMoves
<1> QED BY <1>15, OnlyCmds DEF IfRunningStop

LEMMA CleanupStaleKeeps ==
  ASSUME HostInv, NEW c \in Jobs, CleanupStale(c)
  PROVE  HostInv'
<1>1. CmdsOK
  BY PlainStep DEF CleanupStale, LinkSteps
<1>2. StatesOK
  BY StateForgotten DEF CleanupStale
<1>3. ProcOK /\ hit' = hit
  <2>1. CASE IsNamedChildAlive(netState[TargetOf(c)].pid) /\ Signal(netState[TargetOf(c)].pid, "TERM")
    BY <2>1, SignalOK
  <2>2. CASE UNCHANGED <<proc, hit>>
    BY <2>2, ProcStays
  <2> QED BY <2>1, <2>2 DEF CleanupStale
<1> QED BY <1>1, <1>2, <1>3, AddrStays, LinkStays, HostKeeps DEF CleanupStale, Links
LEMMA StopTermKeeps ==
  ASSUME HostInv, NEW c \in Jobs, StopTerm(c)
  PROVE  HostInv'
<1> DEFINE s == netState[TargetOf(c)]
           live == IF IsVerifiedNetbootd(s.pid) THEN s.pid ELSE 0
<1>0. TargetOf(c) \in Targets /\ PidLimit \in Nat
  BY SiteFacts DEF HostInv
<1>1. s \in States /\ s.iface # site.primary
  BY <1>0 DEF HostInv, StateOK
<1>2. CASE s.pid = 0
  <2>1. CmdsOK /\ UNCHANGED <<proc, hit>>
    BY <1>2, EndCmd DEF StopTerm
  <2> QED BY <2>1, OnlyCmds DEF StopTerm, FixedOnes
<1>3. CASE s.pid # 0
  <2> DEFINE q == StepOn(c, linkCmd[c])
             r == [q EXCEPT !.live = live, !.iface = s.iface]
  <2>1. CmdOK(c, q) /\ q \in LinkCmds
    BY StepOnOK DEF StopTerm, AtStep
  <2>2. live \in 0..PidLimit /\ s.iface \in Names
    BY <1>0, <1>1 DEF States
  <2>3. linkCmd' = [linkCmd EXCEPT ![c] = r]
    BY <1>3 DEF StopTerm, StepOn
  <2>7. live # 0 => IsNamedChildAlive(live)
    BY DEF IsVerifiedNetbootd
  <2>8. IF live # 0 THEN Signal(live, "TERM") ELSE UNCHANGED <<proc, hit>>
    BY <1>3 DEF StopTerm
  <2> HIDE DEF q, live, s
  <2>4. r \in LinkCmds /\ r.todo = q.todo /\ r.iface = s.iface /\ r.exit = q.exit
    BY <2>1, <2>2 DEF LinkCmds
  <2> HIDE DEF r
  <2>5. CmdOK(c, r)
    BY <1>1, <2>1, <2>4, CmdMemo
  <2>6. CmdsOK
    BY <2>3, <2>4, <2>5, CmdMoves
  <2>9. ProcOK /\ hit' = hit
    <3>1. CASE live # 0
      BY <2>7, <2>8, <3>1, SignalOK
    <3>2. CASE live = 0
      BY <2>8, <3>2, ProcStays
    <3> QED BY <3>1, <3>2
  <2> QED BY <2>6, <2>9, StatesStay, AddrStays, LinkStays, HostKeeps DEF StopTerm, Links
<1> QED BY <1>2, <1>3
LEMMA StopKillKeeps ==
  ASSUME HostInv, NEW c \in Jobs, StopKill(c)
  PROVE  HostInv'
<1>1. CmdsOK
  BY PlainStep DEF StopKill, LinkSteps
<1>2. ProcOK /\ hit' = hit
  <2>1. CASE IsVerifiedNetbootd(linkCmd[c].live) /\ Signal(linkCmd[c].live, "KILL")
    BY <2>1, SignalOK DEF IsVerifiedNetbootd
  <2>2. CASE UNCHANGED <<proc, hit>>
    BY <2>2, ProcStays
  <2> QED BY <2>1, <2>2 DEF StopKill
<1> QED BY <1>1, <1>2, StatesStay, AddrStays, LinkStays, HostKeeps DEF StopKill, Links
LEMMA StopForgetKeeps ==
  ASSUME HostInv, NEW c \in Jobs, StopForget(c)
  PROVE  HostInv'
<1>1. CASE Fails(c, "survivor") /\ UNCHANGED netState
  BY <1>1, EndCmd, OnlyCmds DEF StopForget
<1>2. CASE StepsOn(c) /\ netState' = [netState EXCEPT ![TargetOf(c)] = NoState]
  <2>1. CmdsOK
    BY <1>2, PlainStep DEF StopForget, LinkSteps
  <2>2. StatesOK
    BY <1>2, StateForgotten
  <2> QED BY <2>1, <2>2, ProcStays, AddrStays, LinkStays, HostKeeps DEF StopForget, Links, FixedOnes
<1> QED BY <1>1, <1>2 DEF StopForget
LEMMA RestoreInterfaceKeeps ==
  ASSUME HostInv, NEW c \in Jobs, RestoreInterface(c)
  PROVE  HostInv'
<1>1. CmdsOK
  BY PlainStep DEF RestoreInterface, LinkSteps
<1>2. linkCmd[c].iface # site.primary
  BY DEF HostInv, CmdOK
<1>3. AddrOK
  <2>1. CASE addr' = addr
    BY <2>1, AddrStays
  <2>2. CASE addr' = [addr EXCEPT ![linkCmd[c].iface] = << >>]
    BY <1>2, <2>2, AddrCleared
  <2> QED BY <2>1, <2>2 DEF RestoreInterface
<1>4. LinkOK
  BY DEF HostInv, LinkOK, PrimaryUntouched, RestoreInterface
<1> QED BY <1>1, <1>3, <1>4, StatesStay, ProcStays, HostKeeps DEF RestoreInterface, FixedOnes
LEMMA GuardSharedSubnetKeeps ==
  ASSUME HostInv, NEW c \in Jobs, GuardSharedSubnet(c)
  PROVE  HostInv'
<1>0. TargetOf(c) \in Targets /\ IfaceOf(c) \in Ifaces /\ IfaceOf(c) = site.iface[TargetOf(c)] /\ IpOf(c) = site.ip[TargetOf(c)]
  BY OwnLink
<1>1. CASE Fails(c, "refused")
  BY <1>1, EndCmd, OnlyCmds DEF GuardSharedSubnet
<1>2. CASE ~SharedSubnetHolder(IfaceOf(c), IpOf(c))
  <2> DEFINE q == StepOn(c, linkCmd[c])
             w == addr[IfaceOf(c)]
             r == [q EXCEPT !.was = w]
  <2>1. Clear(TargetOf(c))
    BY <1>0, <1>2 DEF Clear, SharedSubnetHolder
  <2>2. CmdOK(c, q) /\ q \in LinkCmds
    BY <2>1, StepOnOK DEF GuardSharedSubnet, AtStep
  <2>3. w \in Seq(Nat \X Nat)
    BY <1>0 DEF HostInv
  <2>4. linkCmd' = [linkCmd EXCEPT ![c] = r]
    BY <1>2 DEF GuardSharedSubnet, StepOn
  <2> HIDE DEF q, w
  <2>5. r \in LinkCmds /\ r.todo = q.todo /\ r.iface = q.iface /\ r.exit = q.exit
    BY <2>2, <2>3 DEF LinkCmds
  <2> HIDE DEF r
  <2>6. q.iface # site.primary
    BY <2>2 DEF CmdOK
  <2>7. CmdOK(c, r)
    BY <2>2, <2>5, <2>6, CmdMemo
  <2>8. CmdsOK
    BY <2>4, <2>5, <2>7, CmdMoves
  <2> QED BY <2>8, OnlyCmds DEF GuardSharedSubnet
<1> QED BY <1>1, <1>2 DEF GuardSharedSubnet
\* An address is asserted on the command's own interface.
LEMMA GivesOwn ==
  ASSUME HostInv, NEW c \in Jobs, NEW s \in Giving, AtStep(c, s)
  PROVE  /\ TargetOf(c) \in Targets /\ IfaceOf(c) = site.iface[TargetOf(c)] /\ IpOf(c) = site.ip[TargetOf(c)]
         /\ IfaceOf(c) # site.primary /\ Clear(TargetOf(c)) /\ IfaceOf(c) \in Ifaces
<1>1. s \in Touching
  BY DEF Touching, Giving
<1> QED BY <1>1, OwnLink, MayTouch, MayGive DEF AtStep
LEMMA ReplaceOK ==
  ASSUME HostInv, NEW c \in Jobs, NEW s \in Giving, AtStep(c, s), addr' = ReplacedIn(IfaceOf(c), IpOf(c))
  PROVE  AddrOK
BY GivesOwn, AddrReplaced
LEMMA IpAddrReplaceKeeps ==
  ASSUME HostInv, NEW c \in Jobs, IpAddrReplace(c)
  PROVE  HostInv'
<1>1. CASE Fails(c, "assign") /\ UNCHANGED addr
  BY <1>1, EndCmd, OnlyCmds DEF IpAddrReplace, Links, FixedOnes
<1>2. CASE StepsOn(c) /\ addr' = ReplacedIn(IfaceOf(c), IpOf(c))
  <2>1. CmdsOK
    BY <1>2, PlainStep DEF IpAddrReplace, LinkSteps
  <2>2. AddrOK
    BY <1>2, ReplaceOK DEF IpAddrReplace, Giving
  <2> QED BY <2>1, <2>2, StatesStay, ProcStays, LinkStays, HostKeeps DEF IpAddrReplace, FixedOnes
<1> QED BY <1>1, <1>2 DEF IpAddrReplace
LEMMA ReassertIpKeeps ==
  ASSUME HostInv, NEW c \in Jobs, ReassertIp(c)
  PROVE  HostInv'
<1>1. CASE Fails(c, "reassert") /\ UNCHANGED addr
  BY <1>1, EndCmd, OnlyCmds DEF ReassertIp, Links, FixedOnes
<1>2. CASE StepsOn(c) /\ addr' = ReplacedIn(IfaceOf(c), IpOf(c))
  <2>1. CmdsOK
    BY <1>2, PlainStep DEF ReassertIp, LinkSteps
  <2>2. AddrOK
    BY <1>2, ReplaceOK DEF ReassertIp, Giving
  <2> QED BY <2>1, <2>2, StatesStay, ProcStays, LinkStays, HostKeeps DEF ReassertIp, FixedOnes
<1> QED BY <1>1, <1>2 DEF ReassertIp
LEMMA IfconfigKeeps ==
  ASSUME HostInv, NEW c \in Jobs, Ifconfig(c)
  PROVE  HostInv'
<1>1. CASE Fails(c, "assign") /\ UNCHANGED <<addr, carrier>>
  BY <1>1, EndCmd, OnlyCmds DEF Ifconfig, Links, FixedOnes
<1>2. CASE StepsOn(c) /\ addr' = [addr EXCEPT ![IfaceOf(c)] = <<IpOf(c)>>] /\ carrier' = carrier \cup {IfaceOf(c)}
  <2>1. CmdsOK
    BY <1>2, PlainStep DEF Ifconfig, LinkSteps
  <2>2. /\ TargetOf(c) \in Targets /\ IfaceOf(c) = site.iface[TargetOf(c)] /\ IpOf(c) = site.ip[TargetOf(c)]
        /\ IfaceOf(c) # site.primary /\ Clear(TargetOf(c)) /\ IfaceOf(c) \in Ifaces
    BY GivesOwn DEF Ifconfig, Giving
  <2>3. AddrOK
    BY <1>2, <2>2, AddrSet
  <2>4. LinkOK
    BY <1>2, <2>2 DEF HostInv, LinkOK, PrimaryUntouched, Ifconfig
  <2> QED BY <2>1, <2>3, <2>4, StatesStay, ProcStays, HostKeeps DEF Ifconfig, FixedOnes
<1> QED BY <1>1, <1>2 DEF Ifconfig
\* The deletion of the others is followed by the assertion of ours, under the same guards.
LEMMA DeleteOthersKeeps ==
  ASSUME HostInv, NEW c \in Jobs, DeleteOthers(c)
  PROVE  HostInv'
<1> DEFINE some == \E n \in DOMAIN addr[IfaceOf(c)] : addr[IfaceOf(c)][n] # IpOf(c)
           q == StepOn(c, linkCmd[c])
           a == IF some THEN <<"again">> ELSE << >>
           l == a \o q.todo
           r == [q EXCEPT !.todo = l]
<1>1. /\ TargetOf(c) \in Targets /\ IfaceOf(c) = site.iface[TargetOf(c)] /\ IpOf(c) = site.ip[TargetOf(c)]
      /\ IfaceOf(c) # site.primary /\ Clear(TargetOf(c)) /\ IfaceOf(c) \in Ifaces
  BY GivesOwn DEF DeleteOthers, Giving
<1>2. CmdOK(c, q) /\ q \in LinkCmds
  BY StepOnOK DEF DeleteOthers, AtStep
<1>3. linkCmd' = [linkCmd EXCEPT ![c] = r]
  BY DEF DeleteOthers
<1>4. a \in Lists /\ (a = << >> \/ a = <<"again">>)
  <2>1. << >> \in Lists /\ <<"again">> \in Lists
    BY DEF Lists, LinkSteps
  <2>2. a = << >> \/ a = <<"again">>
    BY Zenon
  <2> HIDE DEF a
  <2> QED BY <2>1, <2>2
<1> HIDE DEF q, a
<1>5. q.todo \in Lists /\ q.exit \in Ends /\ (q.exit = "none" => q.todo # << >>) /\ NotLast(q.todo)
  BY <1>2 DEF CmdOK, LinkCmds, Lists, NotLast
<1>6. l \in Lists /\ (q.exit = "none" => l # << >>) /\ NotLast(l)
  <2>1. CASE a = << >>
    <3>1. l = q.todo
      BY <1>5, <2>1, ConcatEmptySeq DEF Lists
    <3> QED BY <1>5, <3>1
  <2>2. CASE a = <<"again">> /\ q.todo # << >>
    BY <1>4, <1>5, <2>2, NotLastBoth
  <2>3. CASE a = <<"again">> /\ q.todo = << >>
    <3>1. l = a
      BY <1>4, <1>5, <2>3, ConcatEmptySeq DEF Lists
    <3>2. NotLast(a) /\ a # << >>
      BY <2>3 DEF NotLast
    <3> QED BY <1>4, <3>1, <3>2
  <2> QED BY <1>4, <2>1, <2>2, <2>3
<1> HIDE DEF l
<1>7. r \in LinkCmds /\ r.todo = l /\ r.iface = q.iface /\ r.exit = q.exit
  BY <1>2, <1>6 DEF LinkCmds, Lists
<1> HIDE DEF r
<1>8. CmdOK(c, r)
  BY <1>1, <1>2, <1>6, <1>7 DEF CmdOK, NotLast
<1>9. CmdsOK
  BY <1>3, <1>7, <1>8, CmdMoves
<1>10. AddrOK
  <2>1. CASE addr' = [addr EXCEPT ![IfaceOf(c)] = <<IpOf(c)>>]
    BY <1>1, <2>1, AddrSet
  <2>2. CASE addr' = [addr EXCEPT ![IfaceOf(c)] = << >>]
    BY <1>1, <2>2, AddrCleared
  <2>3. CASE addr' = [addr EXCEPT ![IfaceOf(c)] = addr[IfaceOf(c)]]
    <3>1. addr' = addr
      BY <1>1, <2>3 DEF HostInv
    <3> QED BY <3>1, AddrStays
  <2> QED BY <2>1, <2>2, <2>3 DEF DeleteOthers, AfterOthers
<1> QED BY <1>9, <1>10, StatesStay, ProcStays, LinkStays, HostKeeps DEF DeleteOthers, FixedOnes
LEMMA DelHostIpKeeps ==
  ASSUME HostInv, NEW c \in Jobs, DelHostIp(c)
  PROVE  HostInv'
<1>1. CmdsOK
  BY PlainStep DEF DelHostIp, LinkSteps
<1>2. IfaceOf(c) \in Ifaces /\ IfaceOf(c) # site.primary
  BY OwnLink, MayTouch DEF DelHostIp, AtStep, Touching
<1>3. AddrOK
  <2>1. CASE ~Holds(IfaceOf(c), IpOf(c))
    BY <2>1, AddrStays DEF DelHostIp
  <2>2. CASE Holds(IfaceOf(c), IpOf(c))
    <3> DEFINE i == IfaceOf(c)
               k == CHOOSE n \in DOMAIN addr[i] : addr[i][n] = IpOf(c)
    <3>1. k \in DOMAIN addr[i]
      BY <2>2 DEF Holds
    <3>2. addr' = [addr EXCEPT ![i] = RemoveAt(addr[i], k)]
      BY <2>2 DEF DelHostIp
    <3> HIDE DEF k
    <3> QED BY <1>2, <3>1, <3>2, AddrRemoved
  <2> QED BY <2>1, <2>2
<1> QED BY <1>1, <1>3, StatesStay, ProcStays, LinkStays, HostKeeps DEF DelHostIp, FixedOnes
LEMMA LinkMovesKeep ==
  ASSUME HostInv, NEW c \in Jobs, LinkUp(c) \/ DelHostLl(c) \/ AddHostLl(c) \/ AdminDown(c)
  PROVE  HostInv'
<1>0. IfaceOf(c) \in Ifaces
  BY OwnLink
<1>1. CASE LinkUp(c)
  <2>1. CmdsOK
    BY <1>1, PlainStep DEF LinkUp, LinkSteps
  <2>2. LinkOK
    BY <1>0, <1>1 DEF LinkUp, HostInv, LinkOK, PrimaryUntouched
  <2> QED BY <1>1, <2>1, <2>2, StatesStay, ProcStays, AddrStays, HostKeeps DEF LinkUp, FixedOnes
<1>2. CASE DelHostLl(c)
  <2>1. CmdsOK
    BY <1>2, PlainStep DEF DelHostLl, LinkSteps
  <2>2. LinkOK
    BY <1>0, <1>2 DEF DelHostLl, HostInv, LinkOK, PrimaryUntouched
  <2> QED BY <1>2, <2>1, <2>2, StatesStay, ProcStays, AddrStays, HostKeeps DEF DelHostLl, FixedOnes
<1>3. CASE AddHostLl(c)
  <2>0. IfaceOf(c) # site.primary
    BY <1>3, MayTouch DEF AddHostLl, AtStep, Touching
  <2>1. CASE Fails(c, "assign") /\ UNCHANGED <<ll, carrier>>
    BY <1>3, <2>1, EndCmd, OnlyCmds DEF AddHostLl, Links, FixedOnes
  <2>2. CASE StepsOn(c) /\ ll' = ll \cup {IfaceOf(c)} /\ carrier' = carrier \cup {IfaceOf(c)}
    <3>1. CmdsOK
      BY <1>3, <2>2, PlainStep DEF AddHostLl, LinkSteps
    <3>2. LinkOK
      BY <1>0, <2>0, <2>2 DEF HostInv, LinkOK, PrimaryUntouched
    <3> QED BY <1>3, <3>1, <3>2, StatesStay, ProcStays, AddrStays, HostKeeps DEF AddHostLl, FixedOnes
  <2> QED BY <1>3, <2>1, <2>2 DEF AddHostLl
<1>4. CASE AdminDown(c)
  <2>0. IfaceOf(c) # site.primary
    BY <1>4, MayTouch DEF AdminDown, AtStep, Touching
  <2>1. CmdsOK
    BY <1>4, PlainStep DEF AdminDown, LinkSteps
  <2>2. LinkOK
    BY <1>0, <1>4, <2>0 DEF AdminDown, HostInv, LinkOK, PrimaryUntouched
  <2> QED BY <1>4, <2>1, <2>2, StatesStay, ProcStays, AddrStays, HostKeeps DEF AdminDown, FixedOnes
<1> QED BY <1>1, <1>2, <1>3, <1>4

(***************************************************************************)
(* The spawn, and netbootd.                                                *)
(***************************************************************************)
LEMMA NetbootdOK ==
  ASSUME HostInv, NEW c \in Jobs, AtStep(c, "spawn")
  PROVE  Netbootd(c) \in Programs /\ ProgramOK(Netbootd(c))
<1> DEFINE q == Netbootd(c)
<1>1. /\ TargetOf(c) \in Targets /\ IfaceOf(c) = site.iface[TargetOf(c)] /\ IpOf(c) = site.ip[TargetOf(c)]
      /\ IfaceOf(c) # site.primary /\ Clear(TargetOf(c)) /\ IfaceOf(c) \in Ifaces
  BY GivesOwn DEF Giving
<1>2. IpOf(c) \in Nat \X Nat /\ PidLimit \in Nat
  BY OwnLink, HostAssumption
<1>3. q \in Programs /\ q.iface = IfaceOf(c) /\ q.ip = IpOf(c)
  BY <1>1, <1>2 DEF Netbootd, Programs, Names
<1> HIDE DEF q
<1>4. ProgramOK(q)
  BY <1>1, <1>3 DEF ProgramOK
<1> QED BY <1>3, <1>4 DEF q
LEMMA SudoOK ==
  ASSUME HostInv, NEW p \in Procs, NEW prog \in {"sudo", "stranger"}, NEW q \in Procs \cup {0}
  PROVE  /\ [NoProc EXCEPT !.prog = prog, !.child = q] \in Programs
         /\ ProgramOK([NoProc EXCEPT !.prog = prog, !.child = q])
<1> DEFINE x == [NoProc EXCEPT !.prog = prog, !.child = q]
<1>1. NoProc \in Programs /\ q \in 0..PidLimit
  BY NoProcOK, HostAssumption DEF Procs
<1>2. x \in Programs /\ x.prog = prog
  BY <1>1 DEF Programs
<1> HIDE DEF x
<1>3. ProgramOK(x)
  BY <1>2 DEF ProgramOK
<1> QED BY <1>2, <1>3 DEF x
LEMMA SpawnNetbootdKeeps ==
  ASSUME HostInv, NEW c \in Jobs, SpawnNetbootd(c)
  PROVE  HostInv'
<1>1. PICK p \in Procs, q \in Procs :
        /\ proc' = IF site.sudo THEN [proc EXCEPT ![p] = [NoProc EXCEPT !.prog = "sudo", !.child = q], ![q] = Netbootd(c)]
                   ELSE [proc EXCEPT ![p] = Netbootd(c)]
        /\ linkCmd' = [linkCmd EXCEPT ![c] = [StepOn(c, linkCmd[c]) EXCEPT !.live = p]]
  BY DEF SpawnNetbootd
<1> DEFINE d == Netbootd(c)
           e == [NoProc EXCEPT !.prog = "sudo", !.child = q]
           k == StepOn(c, linkCmd[c])
           r == [k EXCEPT !.live = p]
<1>2. d \in Programs /\ ProgramOK(d)
  BY NetbootdOK DEF SpawnNetbootd
<1>3. e \in Programs /\ ProgramOK(e)
  BY SudoOK
<1>4. CmdOK(c, k) /\ k \in LinkCmds
  BY StepOnOK DEF SpawnNetbootd, AtStep
<1>5. linkCmd' = [linkCmd EXCEPT ![c] = r] /\ proc' = IF site.sudo THEN [proc EXCEPT ![p] = e, ![q] = d] ELSE [proc EXCEPT ![p] = d]
  BY <1>1
<1>6. p \in 0..PidLimit
  BY HostAssumption DEF Procs
<1> HIDE DEF d, e, k
<1>7. r \in LinkCmds /\ r.todo = k.todo /\ r.iface = k.iface /\ r.exit = k.exit
  BY <1>4, <1>6 DEF LinkCmds
<1> HIDE DEF r
<1>8. k.iface # site.primary
  BY <1>4 DEF CmdOK
<1>9. CmdOK(c, r)
  BY <1>4, <1>7, <1>8, CmdMemo
<1>10. CmdsOK
  BY <1>5, <1>7, <1>9, CmdMoves
<1>11. ProcOK
  <2>1. proc \in [Procs -> Programs] /\ \A x \in Procs : ProgramOK(proc[x])
    BY DEF HostInv
  <2>2. CASE proc' = [proc EXCEPT ![p] = e, ![q] = d]
    BY <1>2, <1>3, <2>1, <2>2 DEF ProcOK
  <2>3. CASE proc' = [proc EXCEPT ![p] = d]
    BY <1>2, <2>1, <2>3 DEF ProcOK
  <2> QED BY <1>5, <2>2, <2>3
<1> QED BY <1>10, <1>11, StatesStay, AddrStays, LinkStays, HostKeeps DEF SpawnNetbootd, Links, FixedOnes
LEMMA SaveNetbootStateKeeps ==
  ASSUME HostInv, NEW c \in Jobs, SaveNetbootState(c)
  PROVE  HostInv'
<1> DEFINE s == [pid |-> linkCmd[c].live, iface |-> IfaceOf(c)]
<1>1. CmdsOK
  BY PlainStep DEF SaveNetbootState, LinkSteps
<1>2. IfaceOf(c) \in Ifaces /\ IfaceOf(c) # site.primary
  BY OwnLink, MayTouch DEF SaveNetbootState, AtStep, Touching
<1>3. linkCmd[c].live \in 0..PidLimit
  BY DEF HostInv, LinkCmds
<1>4. s \in States /\ StateOK(s)
  BY <1>2, <1>3 DEF States, StateOK, Names
<1>5. netState' = [netState EXCEPT ![TargetOf(c)] = s]
  BY DEF SaveNetbootState
<1> HIDE DEF s
<1>6. StatesOK
  BY <1>4, <1>5 DEF HostInv, StatesOK
<1> QED BY <1>1, <1>6, ProcStays, AddrStays, LinkStays, HostKeeps DEF SaveNetbootState, Links, FixedOnes

LEMMA OnlyProcs ==
  ASSUME HostInv, ProcOK, UNCHANGED <<linkCmd, netState, Links, FixedOnes>>
  PROVE  HostInv'
BY CmdStays, StatesStay, AddrStays, LinkStays, HostKeeps DEF Links, FixedOnes
LEMMA DaemonsKeep ==
  ASSUME HostInv, NEW p \in Procs,
         NetbootdStarts(p) \/ NetbootdExits(p) \/ NetbootdHangs(p) \/ NetbootdDies(p) \/ StrangerStarts(p)
  PROVE  HostInv'
<1>1. CASE NetbootdStarts(p)
  <2>1. CASE proc' = [proc EXCEPT ![p].at = "serving"]
    BY <1>1, <2>1, ProcAt, OnlyProcs DEF NetbootdStarts
  <2>2. CASE proc' = EndedAt(p)
    BY <1>1, <2>2, ProcEnded, OnlyProcs DEF NetbootdStarts
  <2> QED BY <1>1, <2>1, <2>2 DEF NetbootdStarts
<1>2. CASE NetbootdExits(p)
  BY <1>2, ProcEnded, OnlyProcs DEF NetbootdExits
<1>3. CASE NetbootdHangs(p)
  BY <1>3, ProcAt, OnlyProcs DEF NetbootdHangs
<1>4. CASE NetbootdDies(p)
  BY <1>4, ProcEnded, OnlyProcs DEF NetbootdDies
<1>5. CASE StrangerStarts(p)
  <2> DEFINE x == [NoProc EXCEPT !.prog = "stranger"]
  <2>1. NoProc \in Programs
    BY NoProcOK
  <2>2. x \in Programs /\ x.prog = "stranger"
    BY <2>1 DEF Programs
  <2>3. proc' = [proc EXCEPT ![p] = x]
    BY <1>5 DEF StrangerStarts
  <2> HIDE DEF x
  <2>4. ProgramOK(x)
    BY <2>2 DEF ProgramOK
  <2>5. ProcOK
    BY <2>2, <2>3, <2>4 DEF HostInv, ProcOK
  <2> QED BY <1>5, <2>5, OnlyProcs DEF StrangerStarts
<1> QED BY <1>1, <1>2, <1>3, <1>4, <1>5
\* The monitor of a netbootd gives its own address back.
LEMMA MonitorInterfaceKeeps ==
  ASSUME HostInv, NEW p \in Procs, MonitorInterface(p)
  PROVE  HostInv'
<1>1. PICK t \in Targets : proc[p].iface = site.iface[t] /\ proc[p].ip = site.ip[t] /\ Clear(t)
  BY DEF HostInv, ProgramOK, MonitorInterface, Serves
<1>2. site.iface[t] # site.primary
  BY <1>1 DEF MonitorInterface, IsPrimaryInterface
<1>3. AddrOK
  <2>1. CASE addr' = [addr EXCEPT ![site.iface[t]] = <<site.ip[t]>>]
    BY <1>1, <1>2, <2>1, AddrSet
  <2>2. CASE addr' = ReplacedIn(site.iface[t], site.ip[t])
    BY <1>1, <1>2, <2>2, AddrReplaced
  <2> QED BY <1>1, <2>1, <2>2 DEF MonitorInterface
<1> QED BY <1>3, CmdStays, StatesStay, ProcStays, LinkStays, HostKeeps DEF MonitorInterface, FixedOnes
LEMMA FlapsKeep ==
  ASSUME HostInv, NEW i \in Ifaces, LinkFlaps(i) \/ LinkReturns(i)
  PROVE  HostInv'
<1>1. CASE LinkFlaps(i)
  <2>1. AddrOK
    <3>1. CASE addr' = addr
      BY <3>1, AddrStays
    <3>2. CASE addr' = [addr EXCEPT ![i] = << >>]
      BY <1>1, <3>2, AddrCleared DEF LinkFlaps
    <3> QED BY <1>1, <3>1, <3>2 DEF LinkFlaps
  <2>2. LinkOK
    BY <1>1 DEF LinkFlaps, HostInv, LinkOK, PrimaryUntouched
  <2> QED BY <1>1, <2>1, <2>2, CmdStays, StatesStay, ProcStays, HostKeeps DEF LinkFlaps, FixedOnes
<1>2. CASE LinkReturns(i)
  <2>1. LinkOK
    BY <1>2 DEF LinkReturns, HostInv, LinkOK, PrimaryUntouched
  <2> QED BY <1>2, <2>1, CmdStays, StatesStay, ProcStays, AddrStays, HostKeeps DEF LinkReturns, FixedOnes
<1> QED BY <1>1, <1>2

LEMMA HostStep ==
  ASSUME HostInv, HostNext
  PROVE  HostInv'
<1>1. ASSUME NEW c \in Jobs, LinkStep(c) PROVE HostInv'
  BY <1>1, ChecksKeep, IfRunningStopKeeps, CleanupStaleKeeps, StopTermKeeps, StopKillKeeps, StopForgetKeeps,
     RestoreInterfaceKeeps, GuardSharedSubnetKeeps, IpAddrReplaceKeeps, DeleteOthersKeeps, ReassertIpKeeps, IfconfigKeeps,
     LinkMovesKeep, DelHostIpKeeps, SpawnNetbootdKeeps, SaveNetbootStateKeeps, Zenon DEF LinkStep
<1>2. ASSUME NEW p \in Procs, DaemonStep(p) \/ HostMishap(p) PROVE HostInv'
  BY <1>2, DaemonsKeep, MonitorInterfaceKeeps DEF DaemonStep, HostMishap
<1>3. ASSUME NEW i \in Ifaces, LinkFlaps(i) \/ LinkReturns(i) PROVE HostInv'
  BY <1>3, FlapsKeep
<1> QED BY <1>1, <1>2, <1>3 DEF HostNext

\* The inductive invariant of the control host, whatever is asked of it, in whatever order, and
\* whatever happens to its processes and links (netboot.rs, netif.rs).
THEOREM HostInvariant == HostSpec => []HostInv
<1>1. HostInit => HostInv
  BY HostBegins
<1>2. HostInv /\ [HostNext]_hostVars => HostInv'
  <2> SUFFICES ASSUME HostInv, [HostNext]_hostVars PROVE HostInv'
    OBVIOUS
  <2>1. CASE HostNext
    BY <2>1, HostStep
  <2>2. CASE UNCHANGED hostVars
    <3>1. UNCHANGED <<site, linkCmd, netState, proc, addr, ll, carrier, hit>>
      BY <2>2 DEF hostVars
    <3> QED BY <3>1, CmdStays, StatesStay, ProcStays, AddrStays, LinkStays, HostKeeps
  <2> QED BY <2>1, <2>2
<1> QED BY <1>1, <1>2, PTL DEF HostSpec

\* Commands beside each other, on pids the kernel has reused and links given addresses by hand:
\* nobody but netbootd is signalled, the interface with the default route is left alone, and
\* no two interfaces share a /24.
THEOREM LinksAlwaysKept == HostSpec => []LinksAreKept
<1>1. HostInv => LinksAreKept
  BY DEF HostInv, LinksAreKept, HostTypeOK, StrangerSpared, LinkCmds, States, Programs, Names
<1> QED BY <1>1, HostInvariant, PTL

-----------------------------------------------------------------------------
(***************************************************************************)
(* The doctor: its search finds what the shell's finds, since both walk    *)
(* one list up to the path; and a health check that was killed has run for *)
(* its whole time, whatever fraction of a second it began at.              *)
(***************************************************************************)
\* The order of the search, written out.
SearchList == <<"user", "keg", "system", "plugin", "path", "cargo">>
HookList == <<"user", "keg", "system", "plugin", "path">>
LEMMA Joined ==
  ASSUME NEW S, NEW a \in Seq(S), NEW b \in Seq(S), NEW c \in Seq(S), Len(c) = Len(a) + Len(b),
         \A n \in 1..Len(a) : c[n] = a[n], \A n \in 1..Len(b) : c[Len(a) + n] = b[n]
  PROVE  a \o b = c
<1> DEFINE d == a \o b
<1>1. /\ d \in Seq(S) /\ Len(d) = Len(a) + Len(b) /\ Len(a) \in Nat /\ Len(b) \in Nat
      /\ (\A n \in 1..Len(a) : d[n] = a[n]) /\ \A n \in 1..Len(b) : d[Len(a) + n] = b[n]
  OBVIOUS
<1> HIDE DEF d
<1>2. ASSUME NEW n \in 1..Len(d) PROVE d[n] = c[n]
  <2>1. CASE n <= Len(a)
    BY <1>1, <2>1
  <2>2. CASE n > Len(a)
    <3> DEFINE k == n - Len(a)
    <3>1. k \in 1..Len(b) /\ n = Len(a) + k
      BY <1>1, <2>2
    <3> HIDE DEF k
    <3> QED BY <1>1, <3>1
  <2> QED BY <1>1, <2>1, <2>2
<1>3. d = c
  BY <1>1, <1>2, SeqEqual
<1> QED BY <1>3 DEF d
LEMMA SearchOrder == SearchDirs = SearchList /\ HookPath = HookList
<1> DEFINE p == <<"plugin">>
           w == <<"user", "keg", "system", "plugin">>
           last == <<"path", "cargo">>
           pa == <<"path">>
<1>1. Bundled \in Seq(Dirs) /\ p \in Seq(Dirs) /\ w \in Seq(Dirs)
  BY DEF Bundled, Dirs
<1>2. last \in Seq(Dirs) /\ pa \in Seq(Dirs) /\ SearchList \in Seq(Dirs) /\ HookList \in Seq(Dirs)
  BY DEF SearchList, HookList, Dirs
<1>3. PluginDirs = p
  <2>1. PluginDir("plugin") = p /\ PluginDir("relative") = << >>
    BY DEF PluginDir
  <2>2. p \o << >> = p
    BY <1>1, ConcatEmptySeq
  <2> QED BY <2>1, <2>2 DEF PluginDirs
<1>4. Bundled \o p = w
  <2>1. Len(Bundled) = 3 /\ Len(p) = 1 /\ Len(w) = 4
    BY DEF Bundled
  <2>2. \A n \in 1..3 : w[n] = Bundled[n]
    BY DEF Bundled
  <2>3. \A n \in 1..1 : w[3 + n] = p[n]
    OBVIOUS
  <2> HIDE DEF w, p
  <2>4. Len(w) = Len(Bundled) + Len(p) /\ \A n \in 1..Len(Bundled) : w[n] = Bundled[n]
    BY <2>1, <2>2
  <2>5. \A n \in 1..Len(p) : w[Len(Bundled) + n] = p[n]
    BY <2>1, <2>3
  <2> QED BY <1>1, <2>4, <2>5, Joined
<1>5. w \o last = SearchList
  <2>1. Len(w) = 4 /\ Len(last) = 2 /\ Len(SearchList) = 6
    BY DEF SearchList
  <2>2. \A n \in 1..4 : SearchList[n] = w[n]
    BY DEF SearchList
  <2>3. \A n \in 1..2 : SearchList[4 + n] = last[n]
    BY DEF SearchList
  <2> HIDE DEF w, last
  <2>6. w \in Seq(Dirs) /\ last \in Seq(Dirs) /\ SearchList \in Seq(Dirs)
    BY <1>1, <1>2
  <2>4. Len(SearchList) = Len(w) + Len(last) /\ \A n \in 1..Len(w) : SearchList[n] = w[n]
    BY <2>1, <2>2
  <2>5. \A n \in 1..Len(last) : SearchList[Len(w) + n] = last[n]
    BY <2>1, <2>3
  <2> QED BY <2>4, <2>5, <2>6, Joined
<1>6. w \o pa = HookList
  <2>1. Len(w) = 4 /\ Len(pa) = 1 /\ Len(HookList) = 5
    BY DEF HookList
  <2>2. \A n \in 1..4 : HookList[n] = w[n]
    BY DEF HookList
  <2>3. \A n \in 1..1 : HookList[4 + n] = pa[n]
    BY DEF HookList
  <2> HIDE DEF w, pa
  <2>6. w \in Seq(Dirs) /\ pa \in Seq(Dirs) /\ HookList \in Seq(Dirs)
    BY <1>1, <1>2
  <2>4. Len(HookList) = Len(w) + Len(pa) /\ \A n \in 1..Len(w) : HookList[n] = w[n]
    BY <2>1, <2>2
  <2>5. \A n \in 1..Len(pa) : HookList[Len(w) + n] = pa[n]
    BY <2>1, <2>3
  <2> QED BY <2>4, <2>5, <2>6, Joined
<1> QED BY <1>3, <1>4, <1>5, <1>6 DEF SearchDirs, HookPath, WithPlugins

\* The least of some numbers.
LEMMA LeastNumber ==
  ASSUME NEW S, S \subseteq Nat, S # {}
  PROVE  \E m \in S : \A n \in S : m <= n
<1>1. PICK m \in S : \A n \in S : ~(<<n, m>> \in OpToRel(<, Nat))
  BY NatLessThanWellFounded, WFMin
<1>2. \A n \in S : ~(n < m)
  BY <1>1 DEF OpToRel
<1> QED BY <1>2

\* The first directory that has it.
LEMMA FirstFound ==
  ASSUME NEW dirs \in Seq(Dirs), NEW has, NEW is, NEW k \in 1..Len(dirs), has[dirs[k]] \in is
  PROVE  \E n \in 1..k : FirstMatch(dirs, has, is) = dirs[n] /\ has[dirs[n]] \in is
                         /\ \A m \in 1..(n - 1) : has[dirs[m]] \notin is
<1> DEFINE I == { i \in 1..Len(dirs) : has[dirs[i]] \in is }
           lo == CHOOSE x \in I : \A y \in I : x =< y
<1>1. k \in I /\ I \subseteq Nat
  OBVIOUS
<1>2. \E x \in I : \A y \in I : x =< y
  BY <1>1, LeastNumber
<1>3. lo \in I /\ \A y \in I : lo =< y
  BY <1>2
<1>4. FirstMatch(dirs, has, is) = IF lo = 0 THEN "none" ELSE dirs[lo]
  BY <1>1 DEF FirstMatch, SelectInSeq, Min
<1> HIDE DEF lo
<1>5. lo # 0 /\ lo \in 1..k /\ has[dirs[lo]] \in is
  BY <1>1, <1>3
<1>6. \A m \in 1..(lo - 1) : has[dirs[m]] \notin is
  <2> SUFFICES ASSUME NEW m \in 1..(lo - 1), has[dirs[m]] \in is PROVE FALSE
    OBVIOUS
  <2>1. m \in I /\ m < lo
    BY <1>3, <1>5
  <2> QED BY <1>3, <1>5, <2>1
<1> QED BY <1>4, <1>5, <1>6
LEMMA NoneFound ==
  ASSUME NEW dirs \in Seq(Dirs), NEW has, NEW is, \A k \in 1..Len(dirs) : has[dirs[k]] \notin is
  PROVE  FirstMatch(dirs, has, is) = "none"
<1> DEFINE I == { i \in 1..Len(dirs) : has[dirs[i]] \in is }
<1>1. I = {}
  OBVIOUS
<1> QED BY <1>1 DEF FirstMatch, SelectInSeq

LEMMA BundledAlwaysWins == ASSUME exam \in Exams PROVE BundledWins /\ NoFalseAlarm
<1> SUFFICES ASSUME exam.kind = "site" PROVE BundledWins /\ NoFalseAlarm
  BY DEF BundledWins, NoFalseAlarm
<1> DEFINE h == exam.has
           is == {"file", "exec"}
<1>1. h \in [Dirs -> {"none", "file", "exec"}]
  BY DoctorAssumption
<1> HIDE DEF h
<1>2. SearchList \in Seq(Dirs) /\ HookList \in Seq(Dirs) /\ Len(SearchList) = 6 /\ Len(HookList) = 5
  BY DEF SearchList, HookList, Dirs
<1>3. /\ SearchList[1] = "user" /\ SearchList[2] = "keg" /\ SearchList[3] = "system" /\ SearchList[4] = "plugin"
      /\ SearchList[5] = "path" /\ SearchList[6] = "cargo"
  BY DEF SearchList
<1>4. \A n \in 1..5 : HookList[n] = SearchList[n]
  BY DEF SearchList, HookList
<1>5. ToSet(Bundled) = {"user", "keg", "system"}
  BY DEF ToSet, Bundled
<1>6. FindBinary(h) = FirstMatch(SearchList, h, is) /\ ShellFinds(h) = FirstMatch(HookList, h, {"exec"})
  BY SearchOrder DEF FindBinary, ShellFinds
<1>7. \A d \in Dirs : h[d] # "none" => h[d] \in is
  BY <1>1
<1>8. \A n \in 1..6 : SearchList[n] \in Dirs
  BY DEF SearchList, Dirs
<1> HIDE DEF is
<1>9. ASSUME NEW d \in ToSet(Bundled), h[d] # "none" PROVE FindBinary(h) \in ToSet(Bundled)
  <2>1. PICK k \in 1..3 : d = SearchList[k]
    BY <1>3, <1>5, <1>9
  <2>2. k \in 1..Len(SearchList) /\ h[SearchList[k]] \in is
    BY <1>2, <1>7, <1>8, <1>9, <2>1
  <2>3. PICK n \in 1..k : FirstMatch(SearchList, h, is) = SearchList[n] /\ h[SearchList[n]] \in is
                          /\ \A m \in 1..(n - 1) : h[SearchList[m]] \notin is
    BY <1>2, <2>2, FirstFound
  <2>4. n \in 1..3
    BY <2>1, <2>3
  <2> QED BY <1>3, <1>5, <1>6, <2>3, <2>4
<1>10. ASSUME HelperEntry(h) = "plugin" PROVE FindBinary(h) = "plugin"
  <2>1. (\A d \in ToSet(Bundled) : h[d] = "none") /\ h["plugin"] # "none"
    BY <1>10 DEF HelperEntry
  <2>2. "plugin" \in Dirs
    BY DEF Dirs
  <2>3. 4 \in 1..Len(SearchList) /\ h[SearchList[4]] \in is
    BY <1>2, <1>3, <1>7, <2>1, <2>2
  <2>4. PICK n \in 1..4 : FirstMatch(SearchList, h, is) = SearchList[n] /\ h[SearchList[n]] \in is
    BY <1>2, <2>3, FirstFound
  <2>5. n \notin 1..3
    BY <1>3, <1>5, <2>1, <2>4 DEF is
  <2>6. n = 4
    BY <2>4, <2>5
  <2> QED BY <1>3, <1>6, <2>4, <2>6
<1>11. ASSUME ShellFinds(h) = "plugin", NEW d \in ToSet(Bundled) PROVE h[d] # "exec"
  <2> SUFFICES ASSUME h[d] = "exec" PROVE FALSE
    OBVIOUS
  <2>1. PICK k \in 1..3 : d = HookList[k]
    BY <1>3, <1>4, <1>5
  <2>2. k \in 1..Len(HookList) /\ h[HookList[k]] \in {"exec"}
    BY <1>2, <2>1
  <2>3. PICK n \in 1..k : FirstMatch(HookList, h, {"exec"}) = HookList[n] /\ h[HookList[n]] \in {"exec"}
                          /\ \A m \in 1..(n - 1) : h[HookList[m]] \notin {"exec"}
    BY <1>2, <2>2, FirstFound
  <2>4. n \in 1..3
    BY <2>1, <2>3
  <2> QED BY <1>3, <1>4, <1>6, <1>11, <2>3, <2>4
<1>12. ASSUME ShellFinds(h) # "none" PROVE FindBinary(h) # "none"
  <2>1. PICK k \in 1..5 : h[HookList[k]] \in {"exec"}
    BY <1>2, <1>6, <1>12, NoneFound
  <2>2. k \in 1..Len(SearchList) /\ h[SearchList[k]] \in is
    BY <1>2, <1>4, <2>1 DEF is
  <2>3. PICK n \in 1..k : FirstMatch(SearchList, h, is) = SearchList[n] /\ h[SearchList[n]] \in is
                          /\ \A m \in 1..(n - 1) : h[SearchList[m]] \notin is
    BY <1>2, <2>2, FirstFound
  <2>4. n \in 1..6
    BY <2>1, <2>3
  <2>5. SearchList[n] \in Dirs
    BY <1>8, <2>4
  <2> QED BY <1>6, <2>3, <2>5 DEF Dirs
<1>13. BundledWins
  BY <1>9, <1>10, <1>11 DEF BundledWins, h
<1>14. NoFalseAlarm
  BY <1>12 DEF NoFalseAlarm, h, OnHookPath, Interpret
<1> QED BY <1>13, <1>14

\* What a probe of a link concludes.
LEMMA MismatchAlwaysReal == MismatchIsReal
<1>1. Interpret(exam.iface) \in {"unreachable", "ok", "missing"} /\ (exam.iface # 0 => Interpret(exam.iface) # "ok")
  BY DEF Interpret
<1>2. DriftVerdict(exam) = "drifted" => NetbootIpDrift(exam.holds) = "drifted"
  BY DEF DriftVerdict, DriftFromProbe, HoldsScript, LocalDrift, NetbootIpDrift
<1>3. exam.far /\ DriftVerdict(exam) = "fine" => NetbootIpDrift(exam.holds) = "fine"
  BY DEF DriftVerdict, DriftFromProbe, HoldsScript
<1>4. DriftVerdict(exam) \in {"fine", "unknown", "drifted"}
  BY DEF DriftVerdict, DriftFromProbe, LocalDrift, NetbootIpDrift
<1>5. NetbootStatus(exam) = "mismatch" => DriftVerdict(exam) = "drifted"
  BY <1>1, <1>4 DEF NetbootStatus, DriftStatus
<1>6. NetbootStatus(exam) = "ok" => DriftVerdict(exam) = "fine"
  BY <1>1, <1>4 DEF NetbootStatus, DriftStatus
<1> QED BY <1>2, <1>3, <1>5, <1>6 DEF MismatchIsReal

(***************************************************************************)
(* The health check as a process.                                          *)
(***************************************************************************)
Checks ==
  [far : BOOLEAN, at : {"off", "running", "done"}, t0 : Nat, now : Nat, printed : {"nothing", "report", "junk"},
   holds : BOOLEAN, helper : {"none", "up", "gone"}, child : BOOLEAN, rc : {-1, 0, 2, 137}, killed : BOOLEAN,
   verdict : {"none", "checks", "timed_out", "malformed", "no_check"}]
CheckInv ==
  /\ exam \in Exams /\ check \in Checks
  /\ check.killed => /\ check.rc = 137 /\ check.helper = "gone" /\ check.now - check.t0 >= 2 * Secs
                     /\ ~check.far => ~check.child
  /\ check.at = "done" => check.helper = "gone" /\ check.verdict = InterpretHelperDoctor(check)

LEMMA VerdictTyped == \A c : InterpretHelperDoctor(c) \in {"checks", "timed_out", "malformed", "no_check"}
BY DEF InterpretHelperDoctor
\* The verdict does not depend on itself, nor on where the check is.
LEMMA SameVerdict ==
  ASSUME NEW c, NEW d, c.far = d.far, c.killed = d.killed, c.holds = d.holds, c.printed = d.printed, c.rc = d.rc,
         c.now = d.now, c.t0 = d.t0
  PROVE  InterpretHelperDoctor(c) = InterpretHelperDoctor(d)
BY DEF InterpretHelperDoctor, Output, TimedOut
LEMMA CheckBegins == ASSUME exam \in Exams, CheckInit PROVE CheckInv
<1>1. PICK f \in BOOLEAN, t \in 0..1, c \in BOOLEAN :
        check = [NoCheck EXCEPT !.far = f, !.at = "running", !.t0 = t, !.now = t, !.helper = "up", !.child = c]
  BY DEF CheckInit
<1>2. check = [far |-> f, at |-> "running", t0 |-> t, now |-> t, printed |-> "nothing", holds |-> FALSE, helper |-> "up",
               child |-> c, rc |-> -1, killed |-> FALSE, verdict |-> "none"]
  BY <1>1 DEF NoCheck
<1>3. t \in Nat
  OBVIOUS
<1>4. check \in Checks /\ ~check.killed /\ check.at = "running"
  BY <1>2, <1>3 DEF Checks
<1> QED BY <1>4 DEF CheckInv
LEMMA CheckSteps == ASSUME CheckInv, CheckNext PROVE CheckInv'
<1>0. check \in Checks /\ exam' \in Exams
  BY DEF CheckInv, CheckNext
<1>1. CASE HelperPrints
  <2>1. PICK p \in {"report", "junk"} : check' = [check EXCEPT !.printed = p]
    BY <1>1 DEF HelperPrints
  <2>2. check' \in Checks /\ check'.killed = check.killed /\ check'.at = check.at
    BY <1>0, <2>1 DEF Checks
  <2> QED BY <1>0, <1>1, <2>2 DEF CheckInv, HelperPrints
<1>2. CASE HelperExits
  <2>1. PICK code \in {0, 2}, holds \in {FALSE, check.child} :
          check' = [check EXCEPT !.helper = "gone", !.rc = code, !.child = holds, !.holds = holds]
    BY <1>2 DEF HelperExits
  <2>2. holds \in BOOLEAN /\ code \in {-1, 0, 2, 137}
    BY <1>0 DEF Checks
  <2> DEFINE d == [check EXCEPT !.helper = "gone", !.rc = code]
             e == [d EXCEPT !.child = holds, !.holds = holds]
  <2>4. d \in Checks /\ d.killed = check.killed /\ d.at = check.at
    BY <1>0, <2>2 DEF Checks
  <2>5. check' = e
    BY <1>0, <2>1 DEF Checks
  <2> HIDE DEF d
  <2>6. e \in Checks /\ e.killed = d.killed /\ e.at = d.at
    BY <2>2, <2>4 DEF Checks
  <2>3. check' \in Checks /\ check'.killed = check.killed /\ check'.at = check.at
    BY <2>4, <2>5, <2>6
  <2> QED BY <1>0, <1>2, <2>3 DEF CheckInv, HelperExits
<1>3. CASE WatchdogFires
  <2>1. check.helper = "up" /\ check.now - check.t0 >= 2 * Secs
        /\ check' = [check EXCEPT !.helper = "gone", !.rc = 137, !.killed = TRUE, !.child = IF check.far THEN check.child ELSE FALSE]
    BY <1>3 DEF WatchdogFires, Kills
  <2> DEFINE k == IF check.far THEN check.child ELSE FALSE
  <2>2. k \in BOOLEAN /\ (~check.far => ~k)
    BY <1>0 DEF Checks
  <2> HIDE DEF k
  <2>3. check' = [check EXCEPT !.helper = "gone", !.rc = 137, !.killed = TRUE, !.child = k]
    BY <2>1 DEF k
  <2>4. /\ check' \in Checks /\ check'.at = check.at /\ check'.rc = 137 /\ check'.helper = "gone" /\ check'.now = check.now
        /\ check'.t0 = check.t0 /\ check'.far = check.far /\ check'.child = k
    BY <1>0, <2>2, <2>3 DEF Checks
  <2>5. check.at # "done"
    BY <2>1 DEF CheckInv
  <2> QED BY <1>0, <2>1, <2>2, <2>4, <2>5 DEF CheckInv
<1>4. CASE CheckEnds
  <2> DEFINE v == InterpretHelperDoctor(check)
  <2>1. check' = [check EXCEPT !.at = "done", !.verdict = v] /\ check.helper = "gone"
    BY <1>4 DEF CheckEnds
  <2>2. v \in {"checks", "timed_out", "malformed", "no_check"}
    BY VerdictTyped
  <2> HIDE DEF v
  <2>3. /\ check' \in Checks /\ check'.at = "done" /\ check'.verdict = v /\ check'.helper = check.helper
        /\ check'.far = check.far /\ check'.killed = check.killed /\ check'.holds = check.holds
        /\ check'.printed = check.printed /\ check'.rc = check.rc /\ check'.now = check.now /\ check'.t0 = check.t0
        /\ check'.child = check.child
    BY <1>0, <2>1, <2>2 DEF Checks
  <2>4. InterpretHelperDoctor(check') = v
    <3> DEFINE d == check'
    <3> HIDE DEF d
    <3>1. InterpretHelperDoctor(d) = InterpretHelperDoctor(check)
      BY <2>3, SameVerdict DEF d
    <3> QED BY <3>1 DEF d, v
  <2> QED BY <1>0, <2>1, <2>3, <2>4 DEF CheckInv
<1>5. CASE CheckTicks
  <2>1. check' = [check EXCEPT !.now = check.now + 1] /\ check.at = "running" /\ check.helper = "up"
    BY <1>5 DEF CheckTicks
  <2>2. check.now + 1 \in Nat
    BY <1>0 DEF Checks
  <2>3. check' \in Checks /\ check'.killed = check.killed /\ check'.at = check.at
    BY <1>0, <2>1, <2>2 DEF Checks
  <2> QED BY <1>0, <2>1, <2>3 DEF CheckInv
<1> QED BY <1>1, <1>2, <1>3, <1>4, <1>5 DEF CheckNext

\* At the deadline.
LEMMA KilledFacts == CheckInv => KilledIsTimedOut /\ KilledWhole /\ ReportCounts
<1> SUFFICES ASSUME CheckInv PROVE KilledIsTimedOut /\ KilledWhole /\ ReportCounts
  OBVIOUS
<1>1. KilledWhole
  BY DEF CheckInv, KilledWhole
<1>2. ReportCounts
  <2> SUFFICES ASSUME check.at = "done", check.printed = "report", ~check.killed, ~check.holds PROVE check.verdict = "checks"
    BY DEF ReportCounts
  <2>1. Output(check) = "report"
    BY DEF Output
  <2>2. InterpretHelperDoctor(check) = "checks"
    BY <2>1 DEF InterpretHelperDoctor
  <2> QED BY <2>2 DEF CheckInv
<1>3. KilledIsTimedOut
  <2> SUFFICES ASSUME check.at = "done", check.killed PROVE check.verdict = "timed_out"
    BY DEF KilledIsTimedOut
  <2> DEFINE n == check.now
             t == check.t0
  <2>1. n \in Nat /\ t \in Nat /\ n - t >= 2 * Secs /\ Secs \in Nat
    BY DoctorAssumption DEF CheckInv, Checks
  <2> HIDE DEF n, t
  <2>2. n \div 2 - t \div 2 >= Secs
    BY ONLY <2>1
  <2>3. check.rc # 0 /\ check.killed
    BY DEF CheckInv
  <2>4. TimedOut(check)
    BY <2>2, <2>3 DEF TimedOut, n, t
  <2>5. Output(check) = "nothing"
    BY <2>3 DEF Output
  <2> QED BY <2>4, <2>5 DEF CheckInv, InterpretHelperDoctor
<1> QED BY <1>1, <1>2, <1>3

\* The inductive invariant of a helper's health check.
THEOREM CheckInvariant == DoctorSpec => []CheckInv
<1>1. exam \in Exams /\ CheckInit => CheckInv
  BY CheckBegins
<1>2. CheckInv /\ [CheckNext]_doctorVars => CheckInv'
  <2> SUFFICES ASSUME CheckInv, [CheckNext]_doctorVars PROVE CheckInv'
    OBVIOUS
  <2>1. CASE CheckNext
    BY <2>1, CheckSteps
  <2>2. CASE UNCHANGED doctorVars
    BY <2>2 DEF doctorVars, CheckInv
  <2> QED BY <2>1, <2>2
<1> QED BY <1>1, <1>2, PTL DEF DoctorSpec

\* The doctor finds what a hook finds, a plugin replaces no bundled helper, a mismatch was read,
\* and a check killed at its deadline is reported as that, at every fraction of a second.
THEOREM DoctorAlwaysRight == DoctorSpec => []DoctorIsRight
<1>1. CheckInv => DoctorIsRight
  BY BundledAlwaysWins, MismatchAlwaysReal, KilledFacts DEF CheckInv, DoctorIsRight
<1> QED BY <1>1, CheckInvariant, PTL
=============================================================================
