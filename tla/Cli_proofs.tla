----------------------------- MODULE Cli_proofs -----------------------------
(***************************************************************************)
(* The daemons' lives, the console command, setup and commands dispatched  *)
(* over ssh, proved for any number of commands, processes, incarnations,   *)
(* runs and faults.                                                        *)
(*                                                                         *)
(* DaemonLife rests on the advisory lock: whoever is past the lock step of *)
(* its run holds the lock until the kernel has reaped it, so the record    *)
(* and the console link are written by one process at a time.              *)
(***************************************************************************)
EXTENDS DaemonLife, Console, Setup, Dispatch, SequenceTheorems, TLAPS

Steps == {"idle", "failed", "orphan", "old", "spawn", "discover", "post", "reapfile", "wait", "killed",
          "cleanread", "clean", "reap", "reapkill", "ready", "grace"}
Ops == {"none", "watch", "restart", "serve", "hidstop", "stop", "stopall"}
CmdType == [op : Ops, at : Steps, old : 0..MaxPid, orphan : 0..MaxPid, rec : 0..MaxPid, hit : SUBSET Pids]
ProcType(n) == [is : {"free", "daemon", "dying", "gone", "other"}, pc : 0..n, build : 0..3,
                locks : BOOLEAN, stop : BOOLEAN, by : SUBSET (0..MaxPid), wedged : BOOLEAN]

TypeInv ==
  /\ which \in Kinds /\ disc \in 0..MaxPid /\ link \in 0..MaxPid
  /\ proc \in [Pids -> ProcType(Len(Run))]
  /\ meta \in [pid : 0..MaxPid, build : 0..2] /\ installed \in 1..2 /\ faults \in 0..MaxFaults
  /\ cmd \in [Cmds -> CmdType]

\* What is so of every process by itself.
PidInv ==
  \A p \in Pids :
    /\ proc[p].locks <=> proc[p].is \in {"daemon", "dying"} /\ proc[p].pc > 1
    /\ proc[p].is = "daemon" => proc[p].pc >= 1
    /\ proc[p].by \subseteq {p}
LockInv == \A p, q \in Pids : proc[p].locks /\ proc[q].locks => p = q
FileInv ==
  \A p \in Pids : proc[p].is = "daemon" =>
    /\ proc[p].pc \in (Index("publish") + 1)..Index("unpublish") => disc \in {0, p}
    /\ which = "hidrig" /\ proc[p].pc \in 3..7 => link = p
MetaInv ==
  /\ meta.pid # 0 => proc[meta.pid].is # "free"
  /\ \A p \in Pids : proc[p].is = "daemon" /\ meta.pid = p => meta.build = proc[p].build
\* A command that has seen the daemon it replaces leave will find it gone for good.
CmdOK(f, r) ==
  /\ r.old # 0 => f[r.old].is # "free"
  /\ r.at \in {"idle", "orphan", "reap", "reapkill"} => r.old = 0
  /\ r.at \in {"cleanread", "clean", "spawn", "ready"} /\ r.old # 0 => f[r.old].is \in {"gone", "other"}
CmdInv == \A c \in Cmds : CmdOK(proc, cmd[c])

StateInv == PidInv /\ LockInv /\ FileInv /\ MetaInv
LifeInv == TypeInv /\ StateInv /\ CmdInv

(***************************************************************************)
(* The runs of the four daemons.                                           *)
(***************************************************************************)
\* In each daemon's run the lock comes first, the record is published once and withdrawn
\* later, and the exit is last; only hidrig's has a console link, made before the record.
LEMMA RunFacts ==
  ASSUME which \in Kinds
  PROVE  /\ Len(Run) \in 5..8
         /\ Index("lock") = 1
         /\ Index("publish") \in 2..3 /\ Index("unpublish") \in 4..6 /\ Index("unpublish") < Len(Run)
         /\ \A i \in 1..Len(Run) :
              /\ Run[i] = "lock" <=> i = 1
              /\ Run[i] = "publish" <=> i = Index("publish")
              /\ Run[i] = "unpublish" <=> i = Index("unpublish")
              /\ Run[i] = "exit" <=> i = Len(Run)
              /\ Run[i] = "serve" => i > Index("publish") /\ i < Index("unpublish")
              /\ Run[i] = "release" => i > Index("publish") /\ i < Index("unpublish")
              /\ Run[i] = "link" => which = "hidrig" /\ i = 2
              /\ Run[i] = "unlink" => which = "hidrig" /\ i = 7
         /\ which = "hidrig" => Index("publish") = 3 /\ Index("unpublish") = 6
<1>1. which \in {"serialcap", "hdmicap", "ch9329", "hidrig"}
  BY LifeAssumption
<1>2. CASE which \in {"serialcap", "hdmicap"}
  <2>1. Run = <<"lock", "publish", "serve", "unpublish", "exit">>
    BY <1>2 DEF Run, SerialcapRun, HdmicapRun
  <2>2. Len(Run) = 5 /\ Run[1] = "lock" /\ Run[2] = "publish" /\ Run[3] = "serve" /\ Run[4] = "unpublish"
        /\ Run[5] = "exit"
    BY <2>1
  <2>3. Index("lock") = 1 /\ Index("publish") = 2 /\ Index("unpublish") = 4
    BY <2>2 DEF Index
  <2> QED BY <1>2, <2>2, <2>3
<1>3. CASE which = "ch9329"
  <2>1. Run = <<"lock", "publish", "serve", "release", "unpublish", "exit">>
    BY <1>3 DEF Run, Ch9329Run
  <2>2. Len(Run) = 6 /\ Run[1] = "lock" /\ Run[2] = "publish" /\ Run[3] = "serve" /\ Run[4] = "release"
        /\ Run[5] = "unpublish" /\ Run[6] = "exit"
    BY <2>1
  <2>3. Index("lock") = 1 /\ Index("publish") = 2 /\ Index("unpublish") = 5
    BY <2>2 DEF Index
  <2> QED BY <1>3, <2>2, <2>3
<1>4. CASE which = "hidrig"
  <2>1. Run = <<"lock", "link", "publish", "serve", "release", "unpublish", "unlink", "exit">>
    BY <1>4 DEF Run, HidrigRun
  <2>2. Len(Run) = 8 /\ Run[1] = "lock" /\ Run[2] = "link" /\ Run[3] = "publish" /\ Run[4] = "serve"
        /\ Run[5] = "release" /\ Run[6] = "unpublish" /\ Run[7] = "unlink" /\ Run[8] = "exit"
    BY <2>1
  <2>3. Index("lock") = 1 /\ Index("publish") = 3 /\ Index("unpublish") = 6
    BY <2>2 DEF Index
  <2> QED BY <1>4, <2>2, <2>3
<1> QED BY <1>1, <1>2, <1>3, <1>4

\* A daemon's kind never changes, and with it its run.
LEMMA RunFixed ==
  ASSUME which' = which
  PROVE  Run' = Run /\ Index("publish")' = Index("publish") /\ Index("unpublish")' = Index("unpublish")
BY DEF Run, Index, SerialcapRun, HdmicapRun, Ch9329Run, HidrigRun

\* Only the daemon itself has its name on the command line.
LEMMA NameFacts ==
  ASSUME TypeInv, NEW p \in Pids
  PROVE  /\ RunsOneOf(p) <=> proc[p].is = "daemon"
         /\ Alive(p) <=> proc[p].is \in {"daemon", "dying", "other"}
         /\ IsNamedProcessPending(p) <=> proc[p].is \in {"daemon", "dying"}
<1>1. which \in {"serialcap", "hdmicap", "ch9329", "hidrig"}
  BY LifeAssumption DEF TypeInv
<1>2. p # 0 /\ proc[p].is \in {"free", "daemon", "dying", "gone", "other"}
  BY DEF TypeInv, ProcType, Pids
<1>3. Cmdline(p) = IF proc[p].is = "daemon" THEN which ELSE IF proc[p].is = "other" THEN "other" ELSE ""
  <2>1. CASE proc[p].is = "daemon" BY <2>1 DEF Cmdline
  <2>2. CASE proc[p].is = "dying" BY <2>2 DEF Cmdline
  <2>3. CASE proc[p].is = "other" BY <2>3 DEF Cmdline
  <2>4. CASE proc[p].is = "free" BY <2>4 DEF Cmdline
  <2>5. CASE proc[p].is = "gone" BY <2>5 DEF Cmdline
  <2> QED BY <1>2, <2>1, <2>2, <2>3, <2>4, <2>5
<1> QED BY <1>1, <1>2, <1>3 DEF RunsOneOf, Alive, IsNamedProcessPending

(***************************************************************************)
(* What a step may do to a process that is not going through its own run:  *)
(* it dies, is reaped, is succeeded by another program, stops answering,   *)
(* or is asked to stop.                                                    *)
(***************************************************************************)
Lives(q) ==
  \/ proc'[q] = proc[q]
  \/ proc[q].is = "daemon" /\ proc'[q] = [proc[q] EXCEPT !.is = "dying", !.stop = FALSE, !.by = {}, !.wedged = FALSE]
  \/ proc[q].is = "dying" /\ proc'[q] = [Free EXCEPT !.is = "gone"]
  \/ proc[q].is = "gone" /\ proc'[q] = [proc[q] EXCEPT !.is = "other", !.build = 3]
  \/ proc[q].is = "daemon" /\ proc'[q] = [proc[q] EXCEPT !.wedged = TRUE]
  \/ proc[q].is = "daemon" /\ proc'[q] = [proc[q] EXCEPT !.stop = TRUE]
  \/ proc[q].is = "daemon" /\ proc'[q] = [proc[q] EXCEPT !.stop = TRUE, !.by = @ \cup {q}]
AllLive == proc' = [q \in Pids |-> proc'[q]] /\ \A q \in Pids : Lives(q)

\* A pid that was ever used is never free again, and one whose daemon is gone stays so.
Born(q) ==
  /\ proc[q].is # "free" => proc'[q].is # "free"
  /\ proc[q].is \in {"gone", "other"} => proc'[q].is \in {"gone", "other"}

\* What a process that at most dies or is asked to stop still is.
LEMMA LivesFacts ==
  ASSUME TypeInv, PidInv, NEW q \in Pids, Lives(q)
  PROVE  /\ proc'[q] \in ProcType(Len(Run))
         /\ proc'[q].is = "daemon" =>
              proc[q].is = "daemon" /\ proc'[q].pc = proc[q].pc /\ proc'[q].build = proc[q].build
         /\ proc'[q].locks => proc[q].locks
         /\ proc'[q].locks <=> proc'[q].is \in {"daemon", "dying"} /\ proc'[q].pc > 1
         /\ proc'[q].by \subseteq {q}
         /\ Born(q)
<1>1. proc[q] \in ProcType(Len(Run)) /\ Len(Run) \in 5..8 /\ q \in 0..MaxPid
  BY RunFacts DEF TypeInv, Pids
<1>2. /\ proc[q].locks <=> proc[q].is \in {"daemon", "dying"} /\ proc[q].pc > 1
      /\ proc[q].by \subseteq {q}
  BY DEF PidInv
<1>3. CASE proc'[q] = proc[q]
  BY <1>1, <1>2, <1>3 DEF Born
<1>4. CASE proc[q].is = "daemon"
           /\ proc'[q] = [proc[q] EXCEPT !.is = "dying", !.stop = FALSE, !.by = {}, !.wedged = FALSE]
  <2>1. /\ proc'[q].is = "dying" /\ proc'[q].locks = proc[q].locks /\ proc'[q].by = {}
        /\ proc'[q].pc = proc[q].pc
    BY <1>1, <1>4 DEF ProcType
  <2>2. proc'[q] \in ProcType(Len(Run))
    BY <1>1, <1>4 DEF ProcType
  <2> QED BY <1>2, <1>4, <2>1, <2>2 DEF Born
<1>5. CASE proc[q].is = "dying" /\ proc'[q] = [Free EXCEPT !.is = "gone"]
  <2>1. proc'[q] = [is |-> "gone", pc |-> 0, build |-> 0, locks |-> FALSE, stop |-> FALSE, by |-> {},
                    wedged |-> FALSE]
    BY <1>5 DEF Free
  <2>2. proc'[q].is = "gone" /\ proc'[q].locks = FALSE /\ proc'[q].by = {}
    BY <2>1
  <2>3. proc'[q] \in ProcType(Len(Run))
    BY <1>1, <2>1 DEF ProcType
  <2> QED BY <1>5, <2>2, <2>3 DEF Born
<1>6. CASE proc[q].is = "gone" /\ proc'[q] = [proc[q] EXCEPT !.is = "other", !.build = 3]
  <2>1. /\ proc'[q].is = "other" /\ proc'[q].locks = proc[q].locks /\ proc'[q].by = proc[q].by
        /\ proc'[q].pc = proc[q].pc
    BY <1>1, <1>6 DEF ProcType
  <2>2. proc'[q] \in ProcType(Len(Run))
    <3>1. 3 \in 0..3 /\ "other" \in {"free", "daemon", "dying", "gone", "other"}
      OBVIOUS
    <3> QED BY <1>1, <1>6, <3>1, Zenon DEF ProcType
  <2>3. ~proc[q].locks
    BY <1>2, <1>6
  <2> QED BY <1>2, <1>6, <2>1, <2>2, <2>3 DEF Born
<1>7. CASE proc[q].is = "daemon" /\ proc'[q] = [proc[q] EXCEPT !.wedged = TRUE]
  BY <1>1, <1>2, <1>7 DEF Born, ProcType
<1>8. CASE proc[q].is = "daemon" /\ proc'[q] = [proc[q] EXCEPT !.stop = TRUE]
  BY <1>1, <1>2, <1>8 DEF Born, ProcType
<1>9. CASE proc[q].is = "daemon" /\ proc'[q] = [proc[q] EXCEPT !.stop = TRUE, !.by = @ \cup {q}]
  <2>1. /\ proc'[q].is = "daemon" /\ proc'[q].locks = proc[q].locks /\ proc'[q].by = proc[q].by \cup {q}
        /\ proc'[q].pc = proc[q].pc /\ proc'[q].build = proc[q].build
    BY <1>1, <1>9 DEF ProcType
  <2>2. proc'[q] \in ProcType(Len(Run))
    <3>1. proc[q].by \cup {q} \in SUBSET (0..MaxPid)
      BY <1>1 DEF ProcType
    <3> QED BY <1>1, <1>9, <3>1 DEF ProcType
  <2> QED BY <1>2, <1>9, <2>1, <2>2 DEF Born
<1> QED BY <1>3, <1>4, <1>5, <1>6, <1>7, <1>8, <1>9 DEF Lives

\* Such steps disturb no part of the invariant, also when the record is removed.
LEMMA AllLiveKeeps ==
  ASSUME TypeInv, StateInv, AllLive, which' = which, link' = link, disc' \in {0, disc},
         meta' \in {meta, [pid |-> 0, build |-> 0]}
  PROVE  /\ proc' \in [Pids -> ProcType(Len(Run))]
         /\ StateInv'
         /\ \A q \in Pids : Born(q)
<1>0. PidInv /\ LockInv /\ FileInv /\ MetaInv
  BY DEF StateInv
<1>1. \A q \in Pids :
        /\ proc'[q] \in ProcType(Len(Run))
        /\ proc'[q].is = "daemon" =>
             proc[q].is = "daemon" /\ proc'[q].pc = proc[q].pc /\ proc'[q].build = proc[q].build
        /\ proc'[q].locks => proc[q].locks
        /\ proc'[q].locks <=> proc'[q].is \in {"daemon", "dying"} /\ proc'[q].pc > 1
        /\ proc'[q].by \subseteq {q}
        /\ Born(q)
  BY <1>0, LivesFacts DEF AllLive
<1>2. proc' \in [Pids -> ProcType(Len(Run))]
  BY <1>1 DEF AllLive
<1>3. PidInv'
  BY <1>0, <1>1 DEF PidInv
<1>4. LockInv'
  BY <1>0, <1>1 DEF LockInv
<1>5. FileInv'
  BY <1>0, <1>1, RunFixed DEF FileInv
<1>6. MetaInv'
  <2>1. CASE meta' = meta
    <3>1. meta.pid \in 0..MaxPid
      BY DEF TypeInv
    <3>2. meta.pid # 0 => proc'[meta.pid].is # "free"
      BY <1>0, <1>1, <3>1 DEF MetaInv, Born, Pids
    <3>3. \A p \in Pids : proc'[p].is = "daemon" /\ meta.pid = p => meta.build = proc'[p].build
      BY <1>0, <1>1 DEF MetaInv
    <3> QED BY <2>1, <3>2, <3>3 DEF MetaInv
  <2>2. CASE meta' = [pid |-> 0, build |-> 0]
    BY <2>2 DEF MetaInv, Pids
  <2> QED BY <2>1, <2>2
<1> QED BY <1>1, <1>2, <1>3, <1>4, <1>5, <1>6 DEF StateInv

\* A process that dies leaves the others as they are.
LEMMA DiesLives ==
  ASSUME TypeInv, NEW p \in Pids, proc[p].is = "daemon", proc' = Dies(proc, p)
  PROVE  AllLive
BY DEF AllLive, Lives, Dies, TypeInv

\* So does one that is signalled.
LEMMA SignalledLives ==
  ASSUME TypeInv, NEW p \in Pids, NEW sig \in {"term", "kill"}, proc[p].is = "daemon",
         proc' = Signalled(proc, p, sig)
  PROVE  AllLive
<1>1. CASE sig = "kill"
  BY <1>1, DiesLives DEF Signalled
<1>2. CASE sig = "term"
  <2>1. proc' = [proc EXCEPT ![p].stop = TRUE]
    BY <1>2 DEF Signalled
  <2> QED BY <2>1 DEF AllLive, Lives, TypeInv
<1> QED BY <1>1, <1>2

\* And so does a step that touches no process.
LEMMA StillLives ==
  ASSUME TypeInv, proc' = proc
  PROVE  AllLive
BY DEF AllLive, Lives, TypeInv

(***************************************************************************)
(* A daemon goes through its own run.                                      *)
(***************************************************************************)
\* Where a daemon that is at a step of its run is.
LEMMA AtFacts ==
  ASSUME TypeInv, PidInv, NEW p \in Pids, NEW name, At(p, name)
  PROVE  /\ proc[p].is = "daemon" /\ proc[p].pc \in 1..Len(Run) /\ Run[proc[p].pc] = name
         /\ proc[p] \in ProcType(Len(Run))
<1>1. proc[p] \in ProcType(Len(Run)) /\ Len(Run) \in 5..8
  BY RunFacts DEF TypeInv
<1>2. proc[p].is = "daemon" /\ Run[proc[p].pc] = name /\ proc[p].pc >= 1
  BY DEF At, PidInv
<1> QED BY <1>1, <1>2 DEF ProcType

\* What one step forward in its run leaves of the invariant: the part about the files is
\* the step's own business.
LEMMA StepKeeps ==
  ASSUME TypeInv, StateInv, NEW p \in Pids,
         proc[p].is = "daemon", proc[p].pc \in 1..(Len(Run) - 1),
         \/ proc' = [proc EXCEPT ![p].pc = @ + 1, ![p].locks = TRUE]
         \/ proc' = [proc EXCEPT ![p].pc = @ + 1] /\ proc[p].locks,
         \A q \in Pids \ {p} : ~proc[q].locks,
         which' = which, meta' = meta
  PROVE  /\ proc' \in [Pids -> ProcType(Len(Run))]
         /\ PidInv' /\ LockInv' /\ MetaInv'
         /\ \A q \in Pids : Born(q)
         /\ \A q \in Pids \ {p} : proc'[q] = proc[q]
         /\ proc'[p].pc = proc[p].pc + 1 /\ proc'[p].is = "daemon"
<1>0. PidInv /\ LockInv /\ FileInv /\ MetaInv
  BY DEF StateInv
<1>1. proc \in [Pids -> ProcType(Len(Run))] /\ Len(Run) \in 5..8 /\ proc[p] \in ProcType(Len(Run))
  BY RunFacts DEF TypeInv
<1>2. \A q \in Pids \ {p} : proc'[q] = proc[q]
  BY <1>1
<1>4. proc[p].pc + 1 \in 0..Len(Run) /\ proc[p].pc + 1 > 1
  BY <1>1
<1>5. /\ proc'[p].pc = proc[p].pc + 1 /\ proc'[p].is = "daemon" /\ proc'[p].locks
      /\ proc'[p].by = proc[p].by /\ proc'[p].build = proc[p].build
  BY <1>1 DEF ProcType
<1>6. proc'[p] \in ProcType(Len(Run))
  <2>1. CASE proc' = [proc EXCEPT ![p].pc = @ + 1, ![p].locks = TRUE]
    <3>1. proc'[p] = [proc[p] EXCEPT !.pc = proc[p].pc + 1, !.locks = TRUE]
      BY <1>1, <2>1
    <3> QED BY <1>1, <1>4, <3>1 DEF ProcType
  <2>2. CASE proc' = [proc EXCEPT ![p].pc = @ + 1]
    <3>1. proc'[p] = [proc[p] EXCEPT !.pc = proc[p].pc + 1]
      BY <1>1, <2>2
    <3> QED BY <1>1, <1>4, <3>1 DEF ProcType
  <2> QED BY <2>1, <2>2
<1>7. proc' \in [Pids -> ProcType(Len(Run))]
  BY <1>1, <1>2, <1>6
<1>8. PidInv'
  <2>1. \A q \in Pids \ {p} :
          /\ proc'[q].locks <=> proc'[q].is \in {"daemon", "dying"} /\ proc'[q].pc > 1
          /\ proc'[q].is = "daemon" => proc'[q].pc >= 1
          /\ proc'[q].by \subseteq {q}
    BY <1>0, <1>2 DEF PidInv
  <2>2. /\ proc'[p].locks <=> proc'[p].is \in {"daemon", "dying"} /\ proc'[p].pc > 1
        /\ proc'[p].is = "daemon" => proc'[p].pc >= 1
    BY <1>4, <1>5
  <2>3. proc'[p].by \subseteq {p}
    BY <1>0, <1>5 DEF PidInv
  <2> QED BY <2>1, <2>2, <2>3 DEF PidInv
<1>9. LockInv'
  BY <1>2 DEF LockInv
<1>10. \A q \in Pids : Born(q)
  BY <1>2, <1>5 DEF Born
<1>11. MetaInv'
  <2>1. \A q \in Pids : (proc'[q].is = "free" <=> proc[q].is = "free")
                         /\ (proc'[q].is = "daemon" => proc[q].is = "daemon" /\ proc'[q].build = proc[q].build)
    BY <1>2, <1>5
  <2>2. meta.pid # 0 => meta.pid \in Pids
    BY DEF TypeInv, Pids
  <2> QED BY <1>0, <2>1, <2>2 DEF MetaInv
<1> QED BY <1>2, <1>5, <1>7, <1>8, <1>9, <1>10, <1>11

\* Past its lock step a daemon is the only holder of the lock.
LEMMA HolderFacts ==
  ASSUME TypeInv, PidInv, LockInv, NEW p \in Pids, proc[p].is = "daemon", proc[p].pc > 1
  PROVE  /\ proc[p].locks
         /\ \A q \in Pids \ {p} : ~proc[q].locks
         /\ \A q \in Pids \ {p} : proc[q].is = "daemon" => proc[q].pc <= 1
<1>1. proc[p].locks
  BY DEF PidInv
<1>2. \A q \in Pids \ {p} : ~proc[q].locks
  BY <1>1 DEF LockInv
<1>3. \A q \in Pids : proc[q].pc \in Nat
  BY RunFacts DEF TypeInv, ProcType
<1> QED BY <1>1, <1>2, <1>3 DEF PidInv

\* One step of a daemon preserves what is so of processes, files and records.
LEMMA DaemonKeeps ==
  ASSUME TypeInv, StateInv, NEW p \in Pids, DaemonGoesOn(p)
  PROVE  /\ proc' \in [Pids -> ProcType(Len(Run))] /\ disc' \in 0..MaxPid /\ link' \in 0..MaxPid
         /\ StateInv'
         /\ \A q \in Pids : Born(q)
<1> DEFINE Keeps ==
      /\ proc' \in [Pids -> ProcType(Len(Run))] /\ disc' \in 0..MaxPid /\ link' \in 0..MaxPid
      /\ StateInv'
      /\ \A q \in Pids : Born(q)
<1>0. PidInv /\ LockInv /\ FileInv /\ MetaInv /\ which \in Kinds
  BY DEF StateInv, TypeInv
<1>1. which' = which /\ meta' = meta
  BY DEF DaemonGoesOn
<1>2. /\ Run' = Run /\ Index("publish")' = Index("publish") /\ Index("unpublish")' = Index("unpublish")
  BY <1>1, RunFixed
<1>3. p \in 0..MaxPid /\ disc \in 0..MaxPid /\ link \in 0..MaxPid /\ 0 \in 0..MaxPid
  BY LifeAssumption DEF Pids, TypeInv
<1>4. ASSUME proc[p].is = "daemon", proc' = Dies(proc, p), UNCHANGED <<disc, link>>
      PROVE  Keeps
  BY <1>1, <1>3, <1>4, DiesLives, AllLiveKeeps
\* A step past the lock: the others are not past it, so only p's own files are at stake.
<1>5. ASSUME proc[p].is = "daemon", proc[p].pc \in 2..(Len(Run) - 1), proc' = [proc EXCEPT ![p].pc = @ + 1],
             disc' \in 0..MaxPid, link' \in 0..MaxPid,
             proc[p].pc + 1 \in (Index("publish") + 1)..Index("unpublish") => disc' \in {0, p},
             which = "hidrig" /\ proc[p].pc + 1 \in 3..7 => link' = p
      PROVE  Keeps
  <2>1. proc[p].pc > 1 /\ proc[p].pc \in 1..(Len(Run) - 1)
    BY <1>0, <1>5, RunFacts
  <2>2. /\ proc[p].locks /\ \A q \in Pids \ {p} : ~proc[q].locks
        /\ \A q \in Pids \ {p} : proc[q].is = "daemon" => proc[q].pc <= 1
    BY <1>0, <1>5, <2>1, HolderFacts
  <2>3. /\ proc' \in [Pids -> ProcType(Len(Run))]
        /\ PidInv' /\ LockInv' /\ MetaInv'
        /\ \A q \in Pids : Born(q)
        /\ \A q \in Pids \ {p} : proc'[q] = proc[q]
        /\ proc'[p].pc = proc[p].pc + 1 /\ proc'[p].is = "daemon"
    BY <1>1, <1>5, <2>1, <2>2, StepKeeps
  <2>4. FileInv'
    <3>1. \A q \in Pids \ {p} : proc'[q].is = "daemon" =>
            /\ proc'[q].pc \notin (Index("publish") + 1)..Index("unpublish")
            /\ proc'[q].pc \notin 3..7
      <4>1. \A q \in Pids : proc[q].pc \in Nat
        BY <1>0, RunFacts DEF TypeInv, ProcType
      <4> QED BY <1>0, <2>2, <2>3, <4>1, RunFacts
    <3> QED BY <1>1, <1>2, <1>5, <2>3, <3>1 DEF FileInv
  <2> QED BY <1>5, <2>3, <2>4 DEF StateInv
<1> HIDE DEF Keeps
<1>6. ASSUME Lock(p) PROVE Keeps
  <2>1. proc[p].is = "daemon" /\ proc[p].pc = 1 /\ proc[p].pc \in 1..(Len(Run) - 1)
    BY <1>0, <1>6, AtFacts, RunFacts DEF Lock
  <2>2. CASE \E q \in Pids \ {p} : proc[q].locks
    BY <1>4, <1>6, <2>1, <2>2 DEF Lock
  <2>3. CASE \A q \in Pids \ {p} : ~proc[q].locks
    <3>1. proc' = [proc EXCEPT ![p].pc = @ + 1, ![p].locks = TRUE] /\ disc' = disc /\ link' = link
      BY <1>6, <2>3 DEF Lock
    <3>2. /\ proc' \in [Pids -> ProcType(Len(Run))]
          /\ PidInv' /\ LockInv' /\ MetaInv'
          /\ \A q \in Pids : Born(q)
          /\ \A q \in Pids \ {p} : proc'[q] = proc[q]
          /\ proc'[p].pc = proc[p].pc + 1 /\ proc'[p].is = "daemon"
      BY <1>1, <2>1, <2>3, <3>1, StepKeeps
    <3>3. FileInv'
      <4>1. proc'[p].pc = 2
        BY <2>1, <3>2
      <4>2. proc'[p].pc \notin (Index("publish") + 1)..Index("unpublish") /\ proc'[p].pc \notin 3..7
        BY <1>0, <4>1, RunFacts
      <4> QED BY <1>0, <1>1, <1>2, <3>1, <3>2, <4>2 DEF FileInv
    <3> QED BY <1>3, <3>1, <3>2, <3>3 DEF Keeps, StateInv
  <2> QED BY <2>2, <2>3
<1>7. ASSUME OpenConsole(p) PROVE Keeps
  <2>1. /\ proc[p].is = "daemon" /\ proc[p].pc = 2 /\ proc[p].pc \in 2..(Len(Run) - 1)
        /\ proc[p].pc + 1 \notin (Index("publish") + 1)..Index("unpublish")
    BY <1>0, <1>7, AtFacts, RunFacts DEF OpenConsole
  <2>2. link' = p /\ disc' = disc /\ proc' = [proc EXCEPT ![p].pc = @ + 1]
    BY <1>7 DEF OpenConsole, Step
  <2> QED BY <1>3, <1>5, <2>1, <2>2
<1>8. ASSUME Publish(p) PROVE Keeps
  <2>1. /\ proc[p].is = "daemon" /\ proc[p].pc = Index("publish") /\ proc[p].pc \in 2..(Len(Run) - 1)
        /\ which = "hidrig" => proc[p].pc \in 3..7
    BY <1>0, <1>8, AtFacts, RunFacts DEF Publish
  <2>2. CASE disc' = p /\ Step(p) /\ link' = link
    <3>1. proc' = [proc EXCEPT ![p].pc = @ + 1]
      BY <2>2 DEF Step
    <3>2. which = "hidrig" => link' = p
      BY <1>0, <2>1, <2>2 DEF FileInv
    <3> QED BY <1>3, <1>5, <2>1, <2>2, <3>1, <3>2
  <2>3. CASE proc' = Dies(proc, p) /\ UNCHANGED <<disc, link>>
    BY <1>4, <2>1, <2>3
  <2> QED BY <1>8, <2>2, <2>3 DEF Publish
<1>9. ASSUME Shutdown(p) PROVE Keeps
  <2>1. proc' = [proc EXCEPT ![p].pc = @ + 1]
    BY <1>9 DEF Shutdown, Step
  <2>2. CASE (At(p, "serve") \/ At(p, "release")) /\ UNCHANGED <<disc, link>>
    <3>1. /\ proc[p].is = "daemon" /\ proc[p].pc \in (Index("publish") + 1)..Index("unpublish")
          /\ proc[p].pc \in 2..(Len(Run) - 1)
          /\ which = "hidrig" => proc[p].pc \in 3..7
      BY <1>0, <2>2, AtFacts, RunFacts
    <3>2. disc \in {0, p} /\ (which = "hidrig" => link = p)
      BY <1>0, <3>1 DEF FileInv
    <3> QED BY <1>3, <1>5, <2>1, <2>2, <3>1, <3>2
  <2>3. CASE At(p, "unpublish") /\ disc' = 0 /\ link' = link
    <3>1. /\ proc[p].is = "daemon" /\ proc[p].pc \in 2..(Len(Run) - 1)
          /\ which = "hidrig" => proc[p].pc \in 3..7
      BY <1>0, <2>3, AtFacts, RunFacts
    <3>2. which = "hidrig" => link = p
      BY <1>0, <3>1 DEF FileInv
    <3> QED BY <1>3, <1>5, <2>1, <2>3, <3>1, <3>2
  <2>4. CASE At(p, "unlink") /\ link' = 0 /\ disc' = disc
    <3>1. /\ proc[p].is = "daemon" /\ proc[p].pc \in 2..(Len(Run) - 1)
          /\ proc[p].pc + 1 \notin (Index("publish") + 1)..Index("unpublish") /\ proc[p].pc + 1 \notin 3..7
      BY <1>0, <2>4, AtFacts, RunFacts
    <3> QED BY <1>3, <1>5, <2>1, <2>4, <3>1
  <2> QED BY <1>9, <2>2, <2>3, <2>4 DEF Shutdown
<1>10. ASSUME Exit(p) PROVE Keeps
  BY <1>0, <1>4, <1>10, AtFacts DEF Exit
<1> QED BY <1>6, <1>7, <1>8, <1>9, <1>10 DEF DaemonGoesOn, Keeps

(***************************************************************************)
(* The commands.                                                           *)
(***************************************************************************)
LEMMA CmdStays ==
  ASSUME TypeInv, CmdInv, \A q \in Pids : Born(q), cmd' = cmd
  PROVE  CmdInv'
<1> SUFFICES ASSUME NEW c \in Cmds PROVE CmdOK(proc', cmd[c])
  BY DEF CmdInv
<1>1. cmd[c].old # 0 => cmd[c].old \in Pids
  BY DEF TypeInv, CmdType, Pids
<1> QED BY <1>1 DEF CmdInv, CmdOK, Born

\* One command moves on, to a record that is sound by itself.
LEMMA CmdMoves ==
  ASSUME TypeInv, CmdInv, \A q \in Pids : Born(q), NEW c \in Cmds, NEW r \in CmdType,
         cmd' = [cmd EXCEPT ![c] = r], CmdOK(proc', r)
  PROVE  CmdInv' /\ cmd' \in [Cmds -> CmdType]
<1>1. cmd \in [Cmds -> CmdType]
  BY DEF TypeInv
<1>2. ASSUME NEW d \in Cmds PROVE CmdOK(proc', cmd'[d])
  <2>1. CASE d = c
    BY <1>1, <2>1
  <2>2. CASE d # c
    <3>1. cmd'[d] = cmd[d]
      BY <1>1, <2>2
    <3>2. cmd[d].old # 0 => cmd[d].old \in Pids
      BY <1>1 DEF CmdType, Pids
    <3>3. CmdOK(proc', cmd[d])
      BY <3>2 DEF CmdInv, CmdOK, Born
    <3> QED BY <3>1, <3>3
  <2> QED BY <2>1, <2>2
<1>3. CmdInv'
  BY <1>2 DEF CmdInv
<1> QED BY <1>1, <1>3

\* Goes: what a command may go on to depends on whom it replaces.
LEMMA GoesKeeps ==
  ASSUME TypeInv, CmdInv, \A q \in Pids : Born(q), NEW c \in Cmds, NEW at \in Steps, Goes(c, at),
         at \in {"orphan", "reap", "reapkill"} => cmd[c].old = 0,
         at \in {"cleanread", "clean", "spawn", "ready"} /\ cmd[c].old # 0 =>
           proc'[cmd[c].old].is \in {"gone", "other"}
  PROVE  /\ CmdInv' /\ cmd' \in [Cmds -> CmdType]
         /\ cmd'[c].at = at
<1>0. cmd[c] \in CmdType /\ cmd \in [Cmds -> CmdType] /\ 0 \in 0..MaxPid
  BY LifeAssumption DEF TypeInv
<1> DEFINE r == After(cmd[c], at)
<1>1. cmd' = [cmd EXCEPT ![c] = r]
  BY DEF Goes
<1>2. CASE at \in {"idle", "failed"}
  <2>1. r = [op |-> "none", at |-> at, old |-> 0, orphan |-> 0, rec |-> 0, hit |-> {}]
    BY <1>2 DEF After, NoCmd
  <2> HIDE DEF r
  <2>2. r \in CmdType
    <3>1. "none" \in Ops /\ {} \in SUBSET Pids
      BY DEF Ops
    <3> QED BY <1>0, <2>1, <3>1 DEF CmdType
  <2>3. r.old = 0 /\ r.at = at
    BY <2>1
  <2>4. CmdOK(proc', r)
    BY <1>2, <2>3 DEF CmdOK
  <2> QED BY <1>0, <1>1, <2>2, <2>3, <2>4, CmdMoves
<1>3. CASE at \notin {"idle", "failed"}
  <2> DEFINE o == IF at = "ready" THEN 0 ELSE cmd[c].orphan
  <2>1. r = [cmd[c] EXCEPT !.at = at, !.rec = 0, !.orphan = o]
    BY <1>3 DEF After
  <2>2. o \in 0..MaxPid
    BY <1>0 DEF CmdType
  <2> HIDE DEF o, r
  <2>3. r \in CmdType /\ r.old = cmd[c].old /\ r.at = at
    BY <1>0, <2>1, <2>2 DEF CmdType
  <2>4. cmd[c].old # 0 => cmd[c].old \in Pids /\ proc[cmd[c].old].is # "free"
    BY <1>0 DEF CmdType, Pids, CmdInv, CmdOK
  <2>5. cmd[c].old # 0 => proc'[cmd[c].old].is # "free"
    BY <2>4 DEF Born
  <2>6. CmdOK(proc', r)
    BY <1>3, <2>3, <2>5 DEF CmdOK
  <2> QED BY <1>0, <1>1, <2>3, <2>6, CmdMoves
<1> QED BY <1>2, <1>3

\* A command that is not doing anything starts on something.
LEMMA MovesKeeps ==
  ASSUME TypeInv, CmdInv, \A q \in Pids : Born(q), NEW c \in Cmds, NEW op \in Ops,
         NEW at \in {"idle", "orphan", "old", "spawn"}, Moves(c, op, at)
  PROVE  CmdInv' /\ cmd' \in [Cmds -> CmdType]
<1>0. cmd[c] \in CmdType /\ cmd \in [Cmds -> CmdType] /\ at \in Steps
  BY DEF TypeInv, Steps
<1>1. cmd[c].old = 0
  BY DEF Moves, CmdInv, CmdOK
<1> DEFINE o == IF at = "idle" THEN "none" ELSE op
<1>2. o \in Ops
  BY DEF Ops
<1>3. cmd' = [cmd EXCEPT ![c].op = o, ![c].at = at]
  BY DEF Moves
<1> HIDE DEF o
<1>4. cmd' = [cmd EXCEPT ![c] = cmd'[c]] /\ cmd'[c] = [cmd[c] EXCEPT !.op = o, !.at = at]
  BY <1>0, <1>3
<1>5. cmd'[c] \in CmdType /\ cmd'[c].old = 0
  BY <1>0, <1>1, <1>2, <1>4 DEF CmdType
<1>6. CmdOK(proc', cmd'[c])
  BY <1>5 DEF CmdOK
<1> QED BY <1>4, <1>5, <1>6, CmdMoves

\* The endpoint that is discovered is nobody's or a live process's.
LEMMA EndpointFacts ==
  ASSUME TypeInv
  PROVE  /\ Endpoint \in 0..MaxPid
         /\ Endpoint # 0 => Endpoint \in Pids /\ proc[Endpoint].is \in {"daemon", "dying", "other"}
BY LifeAssumption DEF Endpoint, Alive, TypeInv, Pids

\* Where a command goes when there is nobody left to stop.
LEMMA AfterStopFacts ==
  ASSUME TypeInv, NEW c \in Cmds
  PROVE  /\ AfterStop(c) \in {"wait", "idle", "orphan", "spawn"}
         /\ AfterStop(c) # "wait" => cmd[c].old = 0
BY DEF AfterStop

\* What is left to show of a command's step: that the command itself is where it may be.
LEMMA CommandFrame ==
  ASSUME LifeInv, AllLive, Still, disc' \in {0, disc}, meta' = meta
  PROVE  /\ \A q \in Pids : Born(q)
         /\ CmdInv' /\ cmd' \in [Cmds -> CmdType] => LifeInv'
<1>0. TypeInv /\ StateInv
  BY DEF LifeInv
<1>1. which' = which /\ link' = link /\ installed' = installed /\ faults' = faults
  BY DEF Still
<1>2. /\ proc' \in [Pids -> ProcType(Len(Run))] /\ StateInv' /\ \A q \in Pids : Born(q)
  BY <1>0, <1>1, AllLiveKeeps
<1>3. Run' = Run
  BY <1>1, RunFixed
<1>4. disc' \in 0..MaxPid
  BY <1>0, LifeAssumption DEF TypeInv
<1>5. cmd' \in [Cmds -> CmdType] => TypeInv'
  BY <1>0, <1>1, <1>2, <1>3, <1>4 DEF TypeInv
<1> QED BY <1>2, <1>5 DEF LifeInv

\* A command that only looks leaves every process as it is.
LEMMA OnlyCmdFrame ==
  ASSUME LifeInv, OnlyCmd, Still
  PROVE  /\ \A q \in Pids : Born(q)
         /\ CmdInv' /\ cmd' \in [Cmds -> CmdType] => LifeInv'
<1>1. AllLive /\ disc' = disc /\ meta' = meta
  BY StillLives DEF LifeInv, OnlyCmd, FilesStill
<1> QED BY <1>1, CommandFrame

\* Commands that look before they start or stop something.
LEMMA StartsKeep ==
  ASSUME LifeInv, NEW c \in Cmds, Still,
         CmdWatch(c) \/ CmdRestart(c) \/ EnsureHidDaemon(c) \/ CmdHidStop(c) \/ Prompt(c)
  PROVE  LifeInv'
<1>0. TypeInv /\ CmdInv
  BY DEF LifeInv
<1>1. OnlyCmd
  BY DEF CmdWatch, CmdRestart, EnsureHidDaemon, CmdHidStop, Prompt
<1>2. /\ \A q \in Pids : Born(q)
      /\ CmdInv' /\ cmd' \in [Cmds -> CmdType] => LifeInv'
  BY <1>1, OnlyCmdFrame
<1>3. CASE Prompt(c)
  <2>1. Goes(c, "idle") /\ "idle" \in Steps
    BY <1>3 DEF Prompt, Steps
  <2> QED BY <1>0, <1>2, <2>1, GoesKeeps
<1>4. ASSUME NEW op \in Ops, NEW at \in {"idle", "orphan", "old", "spawn"}, Moves(c, op, at)
      PROVE  LifeInv'
  BY <1>0, <1>2, <1>4, MovesKeeps
<1>5. {"watch", "restart", "serve", "hidstop"} \subseteq Ops
  BY DEF Ops
<1>6. CASE CmdWatch(c)
  <2>1. \E at \in {"idle", "orphan", "old", "spawn"} : Moves(c, "watch", at)
    BY <1>6 DEF CmdWatch
  <2> QED BY <1>4, <1>5, <2>1
<1>7. CASE CmdRestart(c)
  <2>1. \E at \in {"idle", "orphan", "old", "spawn"} : Moves(c, "restart", at)
    BY <1>7 DEF CmdRestart
  <2> QED BY <1>4, <1>5, <2>1
<1>8. CASE EnsureHidDaemon(c)
  <2>1. \E at \in {"idle", "orphan", "old", "spawn"} : Moves(c, "serve", at)
    BY <1>8 DEF EnsureHidDaemon
  <2> QED BY <1>4, <1>5, <2>1
<1>9. CASE CmdHidStop(c)
  <2>1. \E at \in {"idle", "orphan", "old", "spawn"} : Moves(c, "hidstop", at)
    BY <1>9 DEF CmdHidStop
  <2> QED BY <1>4, <1>5, <2>1
<1> QED BY <1>3, <1>6, <1>7, <1>8, <1>9

\* Signalling a set of daemons, each by itself.
LEMMA SignalAll ==
  ASSUME TypeInv, NEW S \in SUBSET Pids, NEW sig \in {"term", "kill"},
         \A p \in S : proc[p].is = "daemon",
         proc' = [p \in Pids |-> IF p \in S THEN Signalled(proc, p, sig)[p] ELSE proc[p]]
  PROVE  /\ AllLive
         /\ sig = "kill" => \A p \in S : proc'[p].is = "dying"
<1>0. proc \in [Pids -> ProcType(Len(Run))]
  BY DEF TypeInv
<1>1. ASSUME NEW p \in S
      PROVE  proc'[p] = IF sig = "kill"
                        THEN [proc[p] EXCEPT !.is = "dying", !.stop = FALSE, !.by = {}, !.wedged = FALSE]
                        ELSE [proc[p] EXCEPT !.stop = TRUE]
  <2>0. proc[p].is = "daemon" /\ proc'[p] = Signalled(proc, p, sig)[p] /\ p \in Pids
    OBVIOUS
  <2>1. CASE sig = "kill"
    BY <1>0, <2>0, <2>1 DEF Signalled, Dies
  <2>2. CASE sig = "term"
    BY <1>0, <2>0, <2>2 DEF Signalled
  <2> QED BY <2>1, <2>2
<1>2. \A p \in Pids \ S : proc'[p] = proc[p]
  OBVIOUS
<1>3. AllLive
  <2>1. \A q \in Pids : Lives(q)
    BY <1>1, <1>2 DEF Lives
  <2> QED BY <2>1 DEF AllLive
<1>4. ASSUME sig = "kill", NEW p \in S PROVE proc'[p].is = "dying"
  BY <1>0, <1>1, <1>4 DEF ProcType
<1> QED BY <1>3, <1>4

\* `daemons stop` and the wait that follows it.
LEMMA StopsKeep ==
  ASSUME LifeInv, NEW c \in Cmds, Still, CmdDaemonsStop(c) \/ StopGrace(c)
  PROVE  LifeInv'
<1>0. TypeInv /\ CmdInv /\ cmd[c] \in CmdType /\ cmd \in [Cmds -> CmdType]
  BY DEF LifeInv, TypeInv
<1>1. CASE CmdDaemonsStop(c)
  <2>1. PICK op \in {"stop", "stopall"} :
          /\ proc' = [p \in Pids |-> IF p \in Victims(op) THEN Signalled(proc, p, "term")[p] ELSE proc[p]]
          /\ cmd' = [cmd EXCEPT ![c].op = op, ![c].at = "grace", ![c].hit = Victims(op)]
    BY <1>1 DEF CmdDaemonsStop
  <2>2. cmd[c].at = "idle" /\ disc' = disc /\ meta' = meta
    BY <1>1 DEF CmdDaemonsStop, FilesStill
  <2>3. Victims(op) \in SUBSET Pids /\ \A p \in Victims(op) : proc[p].is = "daemon"
    BY <1>0, NameFacts DEF Victims
  <2>4. AllLive
    BY <1>0, <2>1, <2>3, SignalAll
  <2>5. /\ \A q \in Pids : Born(q)
        /\ CmdInv' /\ cmd' \in [Cmds -> CmdType] => LifeInv'
    BY <2>2, <2>4, CommandFrame
  <2> DEFINE v == Victims(op)
  <2>6. cmd' = [cmd EXCEPT ![c] = cmd'[c]] /\ cmd'[c] = [cmd[c] EXCEPT !.op = op, !.at = "grace", !.hit = v]
    BY <1>0, <2>1
  <2>7. v \in SUBSET Pids /\ "grace" \in Steps /\ op \in Ops
    BY <2>3 DEF Steps, Ops
  <2> HIDE DEF v
  <2>8. cmd'[c] \in CmdType /\ cmd'[c].old = cmd[c].old /\ cmd'[c].at = "grace"
    BY <1>0, <2>6, <2>7 DEF CmdType
  <2>9. CmdOK(proc', cmd'[c])
    <3>1. cmd[c].old = 0
      BY <1>0, <2>2 DEF CmdInv, CmdOK
    <3> QED BY <2>8, <3>1 DEF CmdOK
  <2> QED BY <1>0, <2>5, <2>6, <2>8, <2>9, CmdMoves
<1>2. CASE StopGrace(c)
  <2> DEFINE left == StillIt(cmd[c].hit)
  <2>1. left \in SUBSET Pids /\ \A p \in left : proc[p].is = "daemon"
    BY <1>0, NameFacts DEF StillIt, CmdType
  <2>2. disc' = disc /\ meta' = meta
    BY <1>2 DEF StopGrace, FilesStill
  <2>3. PICK at \in {"idle", "failed"} : Goes(c, at)
    BY <1>2 DEF StopGrace
  <2>4. \/ proc' = proc
        \/ proc' = [p \in Pids |-> IF p \in left THEN Signalled(proc, p, "kill")[p] ELSE proc[p]]
    BY <1>2 DEF StopGrace
  <2> HIDE DEF left
  <2>5. AllLive
    BY <1>0, <2>1, <2>4, SignalAll, StillLives
  <2>6. /\ \A q \in Pids : Born(q)
        /\ CmdInv' /\ cmd' \in [Cmds -> CmdType] => LifeInv'
    BY <2>2, <2>5, CommandFrame
  <2>7. at \in Steps
    BY DEF Steps
  <2> QED BY <1>0, <2>3, <2>6, <2>7, GoesKeeps
<1> QED BY <1>1, <1>2

\* The stop of the daemon to be replaced, up to the wait for its exit.
LEMMA ReplacingKeeps ==
  ASSUME LifeInv, NEW c \in Cmds, Still,
         OldPid(c) \/ Discover(c) \/ DiscoverReaps(c) \/ RequestStop(c)
  PROVE  LifeInv'
<1>0. TypeInv /\ CmdInv /\ PidInv /\ cmd[c] \in CmdType /\ cmd \in [Cmds -> CmdType] /\ 0 \in 0..MaxPid
      /\ proc \in [Pids -> ProcType(Len(Run))] /\ disc \in 0..MaxPid
  BY LifeAssumption DEF LifeInv, StateInv, TypeInv
<1>1. ASSUME NEW at \in {"wait", "idle", "orphan", "spawn", "failed"}, Goes(c, at), AllLive,
             at \in {"orphan", "spawn"} => cmd[c].old = 0, disc' \in {0, disc}, meta' = meta
      PROVE  LifeInv'
  <2>1. /\ \A q \in Pids : Born(q)
        /\ CmdInv' /\ cmd' \in [Cmds -> CmdType] => LifeInv'
    BY <1>1, CommandFrame
  <2>2. at \in Steps
    BY DEF Steps
  <2> QED BY <1>0, <1>1, <2>1, <2>2, GoesKeeps
<1>2. CASE OldPid(c)
  <2>1. /\ \A q \in Pids : Born(q)
        /\ CmdInv' /\ cmd' \in [Cmds -> CmdType] => LifeInv'
    BY <1>2, OnlyCmdFrame DEF OldPid
  <2> DEFINE e == Endpoint
  <2>2. e \in 0..MaxPid /\ (e # 0 => e \in Pids /\ proc[e].is # "free") /\ "discover" \in Steps
    BY <1>0, EndpointFacts DEF Steps
  <2>3. cmd' = [cmd EXCEPT ![c].old = e, ![c].at = "discover"]
    BY <1>2 DEF OldPid
  <2> HIDE DEF e
  <2>4. cmd' = [cmd EXCEPT ![c] = cmd'[c]] /\ cmd'[c] = [cmd[c] EXCEPT !.old = e, !.at = "discover"]
    BY <1>0, <2>3
  <2>5. cmd'[c] \in CmdType /\ cmd'[c].old = e /\ cmd'[c].at = "discover"
    BY <1>0, <2>2, <2>4 DEF CmdType
  <2>6. CmdOK(proc', cmd'[c])
    BY <2>1, <2>2, <2>5 DEF CmdOK, Born
  <2> QED BY <1>0, <2>1, <2>4, <2>5, <2>6, CmdMoves
<1>3. CASE Discover(c)
  <2>1. /\ \A q \in Pids : Born(q)
        /\ CmdInv' /\ cmd' \in [Cmds -> CmdType] => LifeInv'
    BY <1>3, OnlyCmdFrame DEF Discover
  <2> DEFINE e == IF Alive(disc) THEN disc ELSE 0
             at == IF disc # 0 /\ Alive(disc) THEN "post"
                   ELSE IF disc # 0 /\ which \in CaptureKinds THEN "reapfile" ELSE AfterStop(c)
  <2>2. e \in 0..MaxPid /\ at \in {"post", "reapfile", "wait", "idle", "orphan", "spawn"}
        /\ (at \in {"idle", "orphan", "spawn"} => cmd[c].old = 0)
    BY <1>0, AfterStopFacts
  <2>3. cmd' = [cmd EXCEPT ![c].rec = e, ![c].at = at]
    BY <1>3 DEF Discover
  <2> HIDE DEF e, at
  <2>4. cmd' = [cmd EXCEPT ![c] = cmd'[c]] /\ cmd'[c] = [cmd[c] EXCEPT !.rec = e, !.at = at]
    BY <1>0, <2>3
  <2>5. at \in Steps
    BY <2>2 DEF Steps
  <2>6. cmd'[c] \in CmdType /\ cmd'[c].old = cmd[c].old /\ cmd'[c].at = at
    BY <1>0, <2>2, <2>4, <2>5 DEF CmdType
  <2>7. cmd[c].old # 0 => cmd[c].old \in Pids /\ proc[cmd[c].old].is # "free"
    <3>1. cmd[c].old \in 0..MaxPid
      BY <1>0 DEF CmdType
    <3>2. cmd[c].old # 0 => cmd[c].old \in Pids
      BY <3>1 DEF Pids
    <3> QED BY <1>0, <3>2, Zenon DEF CmdInv, CmdOK
  <2>8. CmdOK(proc', cmd'[c])
    BY <2>1, <2>2, <2>6, <2>7 DEF CmdOK, Born
  <2> QED BY <1>0, <2>1, <2>4, <2>6, <2>8, CmdMoves
<1>4. CASE DiscoverReaps(c)
  <2>1. Goes(c, AfterStop(c)) /\ disc' = 0 /\ meta' = meta /\ AllLive
    BY <1>0, <1>4, StillLives DEF DiscoverReaps
  <2> QED BY <1>0, <1>1, <2>1, AfterStopFacts
<1>5. CASE RequestStop(c)
  <2>0. disc' = disc /\ meta' = meta
    BY <1>5 DEF RequestStop, FilesStill
  <2>1. CASE proc' = proc /\ Goes(c, IF cmd[c].op = "hidstop" THEN "failed" ELSE AfterStop(c))
    <3>1. AllLive
      BY <1>0, <2>1, StillLives
    <3>2. CASE cmd[c].op = "hidstop"
      BY <1>1, <2>0, <2>1, <3>1, <3>2
    <3>3. CASE cmd[c].op # "hidstop"
      BY <1>0, <1>1, <2>0, <2>1, <3>1, <3>3, AfterStopFacts
    <3> QED BY <3>2, <3>3
  <2>2. CASE \E q \in Pids :
               /\ Published(q) /\ ~proc[q].wedged /\ Admits(q, cmd[c].rec)
               /\ proc' = [proc EXCEPT ![q].stop = TRUE, ![q].by = @ \cup {cmd[c].rec}]
               /\ Goes(c, AfterStop(c))
    <3>1. PICK q \in Pids :
               /\ Published(q) /\ Admits(q, cmd[c].rec)
               /\ proc' = [proc EXCEPT ![q].stop = TRUE, ![q].by = @ \cup {cmd[c].rec}]
               /\ Goes(c, AfterStop(c))
      BY <2>2
    <3>2. cmd[c].rec = q /\ proc[q].is = "daemon"
      BY <3>1 DEF Published, Admits
    <3>3. /\ proc' = [r \in Pids |-> proc'[r]]
          /\ \A r \in Pids \ {q} : proc'[r] = proc[r]
          /\ proc'[q] = [proc[q] EXCEPT !.stop = TRUE, !.by = @ \cup {q}]
      BY <1>0, <3>1, <3>2
    <3>4. AllLive
      BY <3>2, <3>3 DEF AllLive, Lives
    <3> QED BY <1>0, <1>1, <2>0, <3>1, <3>4, AfterStopFacts
  <2> QED BY <1>5, <2>1, <2>2 DEF RequestStop
<1> QED BY <1>2, <1>3, <1>4, <1>5

\* The wait for the exit, the removal of a stale record, and the reaping of an orphan.
LEMMA WaitingKeeps ==
  ASSUME LifeInv, NEW c \in Cmds, Still,
         WaitForExit(c) \/ CleanRead(c) \/ Clean(c) \/ Orphan(c) \/ ReapUntracked(c)
         \/ OutOfPids(c) \/ WaitForStarted(c)
  PROVE  LifeInv'
<1>0. TypeInv /\ CmdInv /\ cmd[c] \in CmdType /\ cmd \in [Cmds -> CmdType] /\ CmdOK(proc, cmd[c])
  BY DEF LifeInv, TypeInv, CmdInv
<1>1. cmd[c].old # 0 => cmd[c].old \in Pids /\ proc[cmd[c].old].is # "free"
  BY <1>0 DEF CmdType, Pids, CmdOK
<1>2. ASSUME NEW at \in Steps, Goes(c, at), AllLive, disc' \in {0, disc}, meta' = meta,
             at \in {"orphan", "reap", "reapkill"} => cmd[c].old = 0,
             at \in {"cleanread", "clean", "spawn", "ready"} /\ cmd[c].old # 0 =>
               proc[cmd[c].old].is \in {"gone", "other"}
      PROVE  LifeInv'
  <2>1. /\ \A q \in Pids : Born(q)
        /\ CmdInv' /\ cmd' \in [Cmds -> CmdType] => LifeInv'
    BY <1>2, CommandFrame
  <2>2. at \in {"cleanread", "clean", "spawn", "ready"} /\ cmd[c].old # 0 =>
           proc'[cmd[c].old].is \in {"gone", "other"}
    BY <1>1, <1>2, <2>1 DEF Born
  <2> QED BY <1>0, <1>2, <2>1, <2>2, GoesKeeps
<1>3. ASSUME NEW again \in {"killed", "failed"}, Waited(c, cmd[c].old, "cleanread", again)
      PROVE  LifeInv'
  <2> DEFINE p == cmd[c].old
  <2>0. disc' = disc /\ meta' = meta /\ "cleanread" \in Steps /\ again \in Steps
    BY <1>3 DEF Waited, FilesStill, Steps
  <2>1. CASE ~IsNamedProcessPending(p) /\ Goes(c, "cleanread") /\ proc' = proc
    <3>1. AllLive
      BY <1>0, <2>1, StillLives
    <3>2. p # 0 => proc[p].is \in {"gone", "other"}
      <4> SUFFICES ASSUME p # 0 PROVE proc[p].is \in {"gone", "other"}
        OBVIOUS
      <4>1. p \in Pids /\ proc[p].is # "free"
        BY <1>1
      <4>2. proc[p].is \in {"free", "daemon", "dying", "gone", "other"}
        BY <1>0, <4>1 DEF TypeInv, ProcType
      <4> QED BY <1>0, <2>1, <4>1, <4>2, NameFacts
    <3> QED BY <1>2, <2>0, <2>1, <3>1, <3>2
  <2>2. CASE /\ IsNamedProcessPending(p)
             /\ proc' = IF RunsOneOf(p) /\ again # "failed" THEN Signalled(proc, p, "kill") ELSE proc
             /\ Goes(c, again)
    <3>1. p \in Pids
      BY <1>1, <2>2 DEF IsNamedProcessPending, Alive
    <3>2. AllLive
      BY <1>0, <2>2, <3>1, NameFacts, SignalledLives, StillLives
    <3> QED BY <1>2, <2>0, <2>2, <3>2
  <2> QED BY <1>3, <2>1, <2>2 DEF Waited
<1>4. CASE WaitForExit(c)
  BY <1>3, <1>4 DEF WaitForExit
<1>5. Replaces(c) \in {"idle", "spawn"} /\ {"idle", "spawn", "clean", "reap", "reapkill", "failed"} \subseteq Steps
  BY DEF Replaces, Steps
<1>6. CASE CleanRead(c)
  <2>1. AllLive /\ disc' = disc /\ meta' = meta
    BY <1>0, <1>6, StillLives DEF CleanRead, OnlyCmd, FilesStill
  <2>2. cmd[c].old # 0 => proc[cmd[c].old].is \in {"gone", "other"}
    BY <1>0, <1>6 DEF CleanRead, CmdOK
  <2>3. \E at \in {"idle", "spawn", "clean"} : Goes(c, at)
    BY <1>5, <1>6 DEF CleanRead
  <2> QED BY <1>2, <1>5, <2>1, <2>2, <2>3
<1>7. CASE Clean(c)
  <2>1. AllLive /\ disc' = 0 /\ meta' = meta /\ Goes(c, Replaces(c))
    BY <1>0, <1>7, StillLives DEF Clean
  <2>2. cmd[c].old # 0 => proc[cmd[c].old].is \in {"gone", "other"}
    BY <1>0, <1>7 DEF Clean, CmdOK
  <2> QED BY <1>2, <1>5, <2>1, <2>2
<1>8. CASE Orphan(c)
  <2>0. disc' = disc /\ meta' = meta /\ cmd[c].old = 0
    BY <1>0, <1>8 DEF Orphan, FilesStill, CmdOK
  <2>1. CASE Goes(c, "spawn") /\ proc' = proc
    <3>1. AllLive
      BY <1>0, <2>1, StillLives
    <3> QED BY <1>2, <1>5, <2>0, <2>1, <3>1
  <2>2. CASE \E p \in Untracked :
               /\ proc' = Signalled(proc, p, "term")
               /\ cmd' = [cmd EXCEPT ![c].orphan = p, ![c].at = "reap"]
    <3>1. PICK p \in Untracked :
               /\ proc' = Signalled(proc, p, "term")
               /\ cmd' = [cmd EXCEPT ![c].orphan = p, ![c].at = "reap"]
      BY <2>2
    <3>2. p \in Pids /\ proc[p].is = "daemon" /\ p \in 0..MaxPid
      BY <1>0, NameFacts DEF Untracked, Pids
    <3>3. AllLive
      BY <1>0, <3>1, <3>2, SignalledLives
    <3>4. /\ \A q \in Pids : Born(q)
          /\ CmdInv' /\ cmd' \in [Cmds -> CmdType] => LifeInv'
      BY <2>0, <3>3, CommandFrame
    <3>5. cmd' = [cmd EXCEPT ![c] = cmd'[c]] /\ cmd'[c] = [cmd[c] EXCEPT !.orphan = p, !.at = "reap"]
      BY <1>0, <3>1
    <3>6. cmd'[c] \in CmdType /\ cmd'[c].old = 0
      BY <1>0, <1>5, <2>0, <3>2, <3>5 DEF CmdType
    <3>7. CmdOK(proc', cmd'[c])
      BY <3>6 DEF CmdOK
    <3> QED BY <1>0, <3>4, <3>5, <3>6, <3>7, CmdMoves
  <2> QED BY <1>8, <2>1, <2>2 DEF Orphan
<1>9. CASE ReapUntracked(c)
  <2> DEFINE p == cmd[c].orphan
  <2>0. disc' = disc /\ meta' = meta /\ cmd[c].old = 0
    BY <1>0, <1>9 DEF ReapUntracked, FilesStill, CmdOK
  <2>1. p # 0 => p \in Pids
    BY <1>0 DEF CmdType, Pids
  <2>2. CASE proc' = proc
    <3>1. AllLive
      BY <1>0, <2>2, StillLives
    <3>2. \E at \in {"spawn", "reapkill", "failed"} : Goes(c, at)
      BY <1>9 DEF ReapUntracked
    <3> QED BY <1>2, <1>5, <2>0, <3>1, <3>2
  <2>3. CASE RunsOneOf(p) /\ proc' = Signalled(proc, p, "kill") /\ Goes(c, "reapkill")
    <3>1. p \in Pids
      BY <2>1, <2>3 DEF RunsOneOf, Alive
    <3>2. AllLive
      BY <1>0, <2>3, <3>1, NameFacts, SignalledLives
    <3> QED BY <1>2, <1>5, <2>0, <2>3, <3>2
  <2> QED BY <1>9, <2>2, <2>3 DEF ReapUntracked
<1>10. CASE OutOfPids(c) \/ WaitForStarted(c)
  <2>1. AllLive /\ disc' = disc /\ meta' = meta
    BY <1>0, <1>10, StillLives DEF OutOfPids, WaitForStarted, OnlyCmd, FilesStill
  <2>2. \E at \in {"idle", "failed"} : Goes(c, at)
    BY <1>10 DEF OutOfPids, WaitForStarted
  <2> QED BY <1>2, <1>5, <2>1, <2>2
<1> QED BY <1>4, <1>6, <1>7, <1>8, <1>9, <1>10

\* A new daemon takes a pid nobody had, with no lock and no file of its own.
LEMMA SpawnKeeps ==
  ASSUME LifeInv, NEW c \in Cmds, Still, StartDaemon(c)
  PROVE  LifeInv'
<1>0. /\ TypeInv /\ CmdInv /\ PidInv /\ LockInv /\ FileInv /\ MetaInv /\ which \in Kinds
      /\ cmd[c] \in CmdType /\ cmd \in [Cmds -> CmdType] /\ CmdOK(proc, cmd[c]) /\ cmd[c].at = "spawn"
      /\ proc \in [Pids -> ProcType(Len(Run))] /\ Len(Run) \in 5..8 /\ installed \in 1..2
      /\ Goes(c, "ready") /\ disc' = disc
  BY RunFacts DEF LifeInv, StateInv, TypeInv, CmdInv, StartDaemon
<1>1. which' = which /\ link' = link /\ installed' = installed /\ faults' = faults
  BY DEF Still
<1>2. PICK p \in Pids :
       /\ proc[p].is = "free"
       /\ proc' = [proc EXCEPT ![p] = Spawned(installed)]
       /\ meta' = IF which \in CaptureKinds THEN [pid |-> p, build |-> installed] ELSE meta
  BY DEF StartDaemon
<1>3. /\ Spawned(installed).is = "daemon" /\ Spawned(installed).pc = 1
      /\ Spawned(installed).build = installed /\ Spawned(installed).locks = FALSE
      /\ Spawned(installed).by = {}
  BY DEF Spawned, Free
<1>4. /\ proc'[p] = Spawned(installed) /\ \A q \in Pids \ {p} : proc'[q] = proc[q]
  BY <1>0, <1>2
<1>5. /\ proc'[p].is = "daemon" /\ proc'[p].pc = 1 /\ proc'[p].build = installed /\ proc'[p].locks = FALSE
      /\ proc'[p].by = {}
  BY <1>3, <1>4
<1>6. proc' \in [Pids -> ProcType(Len(Run))]
  <2>0. Len(Run) \in 5..8 /\ installed \in 1..2
    BY <1>0
  <2>1. 1 \in 0..Len(Run) /\ installed \in 0..3 /\ 0 \in 0..Len(Run) /\ 0 \in 0..3
    <3>1. \A n \in 5..8 : 1 \in 0..n /\ 0 \in 0..n
      OBVIOUS
    <3>2. \A n \in 1..2 : n \in 0..3
      OBVIOUS
    <3>3. 0 \in 0..3
      OBVIOUS
    <3> QED BY ONLY <2>0, <3>1, <3>2, <3>3, Zenon
  <2>2. Spawned(installed) \in ProcType(Len(Run))
    <3>1. Free \in ProcType(Len(Run))
      BY <2>1 DEF Free, ProcType
    <3> QED BY <2>1, <3>1 DEF Spawned, ProcType
  <2> QED BY <1>0, <1>2, <2>2
<1>7. /\ Run' = Run /\ Index("publish")' = Index("publish") /\ Index("unpublish")' = Index("unpublish")
  BY <1>1, RunFixed
<1>8. PidInv' /\ LockInv'
  <2>1. \A q \in Pids \ {p} :
          /\ proc'[q].locks <=> proc'[q].is \in {"daemon", "dying"} /\ proc'[q].pc > 1
          /\ proc'[q].is = "daemon" => proc'[q].pc >= 1
          /\ proc'[q].by \subseteq {q}
    BY <1>0, <1>4 DEF PidInv
  <2>2. PidInv'
    BY <1>5, <2>1 DEF PidInv
  <2>3. LockInv'
    BY <1>0, <1>4, <1>5 DEF LockInv
  <2> QED BY <2>2, <2>3
<1>9. FileInv'
  <2>1. 1 \notin (Index("publish") + 1)..Index("unpublish") /\ 1 \notin 3..7
    BY <1>0, RunFacts
  <2> QED BY <1>0, <1>1, <1>4, <1>5, <1>7, <2>1 DEF FileInv
<1>10. MetaInv' /\ meta' \in [pid : 0..MaxPid, build : 0..2]
  <2>1. CASE which \in CaptureKinds
    <3>1. meta' = [pid |-> p, build |-> installed]
      BY <1>2, <2>1
    <3>2. meta'.pid = p /\ meta'.build = installed
      BY <3>1
    <3>3. MetaInv'
      BY <1>5, <3>2 DEF MetaInv
    <3>4. p \in 0..MaxPid /\ installed \in 0..2
      BY <1>0 DEF Pids
    <3> QED BY <3>1, <3>3, <3>4
  <2>2. CASE which \notin CaptureKinds
    <3>1. meta' = meta /\ meta \in [pid : 0..MaxPid, build : 0..2]
      BY <1>0, <1>2, <2>2 DEF TypeInv
    <3>2. meta.pid # p /\ (meta.pid # 0 => meta.pid \in Pids)
      BY <1>0, <1>2, <3>1 DEF MetaInv, Pids
    <3>3. MetaInv'
      BY <1>0, <1>4, <1>5, <3>1, <3>2 DEF MetaInv
    <3> QED BY <3>1, <3>3
  <2> QED BY <2>1, <2>2
<1>11. \A q \in Pids : Born(q)
  BY <1>2, <1>4, <1>5 DEF Born
<1>12. CmdInv' /\ cmd' \in [Cmds -> CmdType]
  <2>1. cmd[c].old # 0 => cmd[c].old \in Pids /\ proc[cmd[c].old].is \in {"gone", "other"}
    BY <1>0 DEF CmdType, Pids, CmdOK
  <2>2. cmd[c].old # 0 => proc'[cmd[c].old].is \in {"gone", "other"}
    BY <1>11, <2>1 DEF Born
  <2>3. "ready" \in Steps
    BY DEF Steps
  <2> QED BY <1>0, <1>11, <2>2, <2>3, GoesKeeps
<1>13. TypeInv'
  BY <1>0, <1>1, <1>6, <1>7, <1>10, <1>12 DEF TypeInv
<1> QED BY <1>8, <1>9, <1>10, <1>12, <1>13 DEF LifeInv, StateInv

(***************************************************************************)
(* The kernel and the bench.                                               *)
(***************************************************************************)
LEMMA FaultKeeps ==
  ASSUME LifeInv, (\E p \in Pids : Reaped(p)) \/ Bench
  PROVE  LifeInv'
<1>0. TypeInv /\ StateInv /\ CmdInv /\ proc \in [Pids -> ProcType(Len(Run))]
  BY DEF LifeInv, TypeInv
<1>1. ASSUME AllLive, disc' \in {0, disc}, meta' \in {meta, [pid |-> 0, build |-> 0]}, which' = which,
             link' = link, cmd' = cmd, installed' \in 1..2, faults' \in 0..MaxFaults
      PROVE  LifeInv'
  <2>1. proc' \in [Pids -> ProcType(Len(Run))] /\ StateInv' /\ \A q \in Pids : Born(q)
    BY <1>0, <1>1, AllLiveKeeps
  <2>2. CmdInv'
    BY <1>0, <1>1, <2>1, CmdStays
  <2>3. TypeInv'
    <3>1. Run' = Run
      BY <1>1, RunFixed
    <3>2. meta' \in [pid : 0..MaxPid, build : 0..2] /\ disc' \in 0..MaxPid
      BY <1>0, <1>1, LifeAssumption DEF TypeInv
    <3> QED BY <1>0, <1>1, <2>1, <3>1, <3>2 DEF TypeInv
  <2> QED BY <2>1, <2>2, <2>3 DEF LifeInv
<1>2. installed \in 1..2 /\ faults \in 0..MaxFaults
  BY <1>0 DEF TypeInv
<1>3. CASE \E p \in Pids : Reaped(p)
  <2>1. PICK p \in Pids : Reaped(p)
    BY <1>3
  <2>2. AllLive
    BY <1>0, <2>1 DEF Reaped, AllLive, Lives
  <2> QED BY <1>1, <1>2, <2>1, <2>2 DEF Reaped
<1>4. CASE Bench
  <2>1. faults' \in 0..MaxFaults /\ which' = which /\ link' = link /\ cmd' = cmd
    BY <1>2, <1>4, LifeAssumption DEF Bench
  <2>2. CASE /\ \E p \in Pids :
                  \/ proc[p].is = "daemon" /\ proc' = Dies(proc, p)
                  \/ At(p, "serve") /\ proc' = [proc EXCEPT ![p].wedged = TRUE]
                  \/ proc[p].is = "gone" /\ proc' = [proc EXCEPT ![p].is = "other", ![p].build = 3]
             /\ UNCHANGED <<disc, meta, installed>>
    <3>1. PICK p \in Pids :
                  \/ proc[p].is = "daemon" /\ proc' = Dies(proc, p)
                  \/ At(p, "serve") /\ proc' = [proc EXCEPT ![p].wedged = TRUE]
                  \/ proc[p].is = "gone" /\ proc' = [proc EXCEPT ![p].is = "other", ![p].build = 3]
      BY <2>2
    <3>2. AllLive
      <4>1. CASE proc[p].is = "daemon" /\ proc' = Dies(proc, p)
        BY <1>0, <4>1, DiesLives
      <4>2. CASE At(p, "serve") /\ proc' = [proc EXCEPT ![p].wedged = TRUE]
        BY <1>0, <4>2 DEF At, AllLive, Lives
      <4>3. CASE proc[p].is = "gone" /\ proc' = [proc EXCEPT ![p].is = "other", ![p].build = 3]
        <5>1. /\ proc' = [q \in Pids |-> proc'[q]]
              /\ \A q \in Pids \ {p} : proc'[q] = proc[q]
              /\ proc'[p] = [proc[p] EXCEPT !.is = "other", !.build = 3]
          BY <1>0, <4>3
        <5> QED BY <4>3, <5>1 DEF AllLive, Lives
      <4> QED BY <3>1, <4>1, <4>2, <4>3
    <3> QED BY <1>1, <1>2, <2>1, <2>2, <3>2
  <2>3. CASE installed' = 2 /\ UNCHANGED <<proc, disc, meta>>
    <3>1. AllLive
      BY <1>0, <2>3, StillLives
    <3> QED BY <1>1, <2>1, <2>3, <3>1
  <2>4. CASE disc' = 0 /\ meta' = [pid |-> 0, build |-> 0] /\ UNCHANGED <<proc, installed>>
    <3>1. AllLive
      BY <1>0, <2>4, StillLives
    <3> QED BY <1>1, <1>2, <2>1, <2>4, <3>1
  <2> QED BY <1>4, <2>2, <2>3, <2>4 DEF Bench, Fault
<1> QED BY <1>3, <1>4

(***************************************************************************)
(* The invariant and what follows from it.                                 *)
(***************************************************************************)
LEMMA LifeInitInv ==
  ASSUME LifeInit
  PROVE  LifeInv
<1>0. which \in Kinds
  BY DEF LifeInit
<1>1. Len(Run) \in 5..8 /\ 0 \in 0..MaxPid /\ 0 \in 0..MaxFaults /\ 0 \in 0..Len(Run)
  BY <1>0, LifeAssumption, RunFacts
<1>2. Free \in ProcType(Len(Run)) /\ Free.is = "free" /\ Free.locks = FALSE /\ Free.by = {}
  BY <1>1 DEF Free, ProcType
<1>3. NoCmd \in CmdType /\ NoCmd.old = 0
  <2>1. "none" \in Ops /\ "idle" \in Steps
    BY DEF Ops, Steps
  <2> QED BY <1>1, <2>1 DEF NoCmd, CmdType
<1>4. TypeInv
  BY <1>0, <1>1, <1>2, <1>3 DEF LifeInit, TypeInv
<1>5. \A p \in Pids : proc[p].is = "free" /\ proc[p].locks = FALSE /\ proc[p].by = {}
  BY <1>2 DEF LifeInit
<1>6. StateInv
  BY <1>5 DEF LifeInit, StateInv, PidInv, LockInv, FileInv, MetaInv
<1>7. CmdInv
  BY <1>3 DEF LifeInit, CmdInv, CmdOK
<1> QED BY <1>4, <1>6, <1>7 DEF LifeInv

\* Every step keeps the invariant.
LEMMA LifeNextInv ==
  ASSUME LifeInv, LifeNext
  PROVE  LifeInv'
<1>0. TypeInv /\ StateInv /\ CmdInv
  BY DEF LifeInv
<1>1. CASE \E p \in Pids : DaemonGoesOn(p)
  <2>1. PICK p \in Pids : DaemonGoesOn(p)
    BY <1>1
  <2>2. /\ proc' \in [Pids -> ProcType(Len(Run))] /\ disc' \in 0..MaxPid /\ link' \in 0..MaxPid
        /\ StateInv' /\ \A q \in Pids : Born(q)
    BY <1>0, <2>1, DaemonKeeps
  <2>3. UNCHANGED <<which, meta, installed, faults, cmd>>
    BY <2>1 DEF DaemonGoesOn
  <2>4. CmdInv'
    BY <1>0, <2>2, <2>3, CmdStays
  <2>5. TypeInv'
    BY <1>0, <2>2, <2>3, RunFixed DEF TypeInv
  <2> QED BY <2>2, <2>4, <2>5 DEF LifeInv
<1>2. CASE (\E p \in Pids : Reaped(p)) \/ Bench
  BY <1>2, FaultKeeps
<1>3. CASE \E c \in Cmds : Runs(c) \/ Command(c)
  <2>1. PICK c \in Cmds : Runs(c) \/ Command(c)
    BY <1>3
  <2> QED BY <2>1, StartsKeep, StopsKeep, ReplacingKeeps, WaitingKeeps, SpawnKeeps DEF Runs, Command
<1> QED BY <1>1, <1>2, <1>3 DEF LifeNext

\* And so does none.
LEMMA LifeStutter ==
  ASSUME LifeInv, UNCHANGED lifeVars
  PROVE  LifeInv'
<1>1. /\ which' = which /\ proc' = proc /\ disc' = disc /\ meta' = meta /\ link' = link
      /\ installed' = installed /\ faults' = faults /\ cmd' = cmd
  BY DEF lifeVars
<1>2. Run' = Run /\ Index("publish")' = Index("publish") /\ Index("unpublish")' = Index("unpublish")
  BY <1>1, RunFixed
<1>3. TypeInv'
  BY <1>1, <1>2 DEF LifeInv, TypeInv
<1>4. PidInv' /\ LockInv' /\ MetaInv' /\ CmdInv'
  BY <1>1 DEF LifeInv, StateInv, PidInv, LockInv, MetaInv, CmdInv
<1>5. FileInv'
  BY <1>1, <1>2 DEF LifeInv, StateInv, FileInv
<1> QED BY <1>3, <1>4, <1>5 DEF LifeInv, StateInv

\* At every step of daemons, commands, crashes and pid reuse, the pids, the lock, the runtime
\* files and the command records are as LifeInv says (daemons.rs, lifecycle.rs).
THEOREM LifeInvariant == LifeSpec => []LifeInv
<1>1. LifeInit => LifeInv
  BY LifeInitInv
<1>2. LifeInv /\ [LifeNext]_lifeVars => LifeInv'
  BY LifeNextInv, LifeStutter
<1> QED BY <1>1, <1>2, PTL DEF LifeSpec

\* What the invariant says of the promises.
LEMMA InvImplies ==
  ASSUME LifeInv
  PROVE  OneDaemonAndItsFiles
<1>0. /\ TypeInv /\ PidInv /\ LockInv /\ FileInv /\ MetaInv /\ CmdInv /\ which \in Kinds
  BY DEF LifeInv, StateInv, TypeInv
<1>1. LifeTypeOK
  <2>1. \A c \in Cmds : cmd[c].old \in 0..MaxPid /\ cmd[c].orphan \in 0..MaxPid /\ cmd[c].rec \in 0..MaxPid
    BY <1>0 DEF TypeInv, CmdType
  <2> QED BY <1>0, <2>1 DEF LifeTypeOK, TypeInv, ProcType
<1>2. \A p \in Pids : HoldsDevice(p) <=> proc[p].locks
  BY <1>0, RunFacts DEF HoldsDevice, PidInv
<1>3. OneOwner
  BY <1>0, <1>2 DEF OneOwner, LockInv
<1>4. RuntimeFilesAreTheHolders
  BY <1>0, RunFacts DEF RuntimeFilesAreTheHolders, Published, FileInv
<1>5. ReplacementWaits
  <2> SUFFICES ASSUME NEW c \in Cmds, cmd[c].at = "spawn", cmd[c].old # 0
               PROVE  ~HoldsDevice(cmd[c].old)
    BY DEF ReplacementWaits
  <2>1. proc[cmd[c].old].is \in {"gone", "other"}
    BY <1>0 DEF CmdInv, CmdOK
  <2> QED BY <2>1 DEF HoldsDevice
<1>6. InnocentSpared
  BY <1>0 DEF InnocentSpared, PidInv, Pids
<1>7. StopReachesItsAuthor
  BY <1>0 DEF StopReachesItsAuthor, PidInv
<1>8. VerdictIsTrue
  <2> SUFFICES ASSUME NEW p \in Pids, proc[p].is = "daemon"
               PROVE  /\ BinaryStatus(p) = "changed" => proc[p].build # installed
                      /\ BinaryStatus(p) = "current" => proc[p].build = installed
    BY DEF VerdictIsTrue
  <2>1. StartDigest(p) \in {0, proc[p].build}
    BY <1>0 DEF StartDigest, MetaInv
  <2> QED BY <2>1 DEF BinaryStatus
<1> QED BY <1>1, <1>3, <1>4, <1>5, <1>6, <1>7, <1>8 DEF OneDaemonAndItsFiles

\* However starts, stops, kills and pid reuse of any number of commands interleave, one
\* process has the device, the runtime files are its own, a replacement waits for the old
\* daemon, no signal or stop reaches another process and a verdict on the build is true
\* (acquire_lock, wait_for_daemon_exit, pid_runs_one_of, request_stop, compare_binary).
THEOREM OneDaemonAlways == LifeSpec => []OneDaemonAndItsFiles
<1>1. LifeInv => OneDaemonAndItsFiles
  BY InvImplies
<1> QED BY <1>1, LifeInvariant, PTL

\* `daemons stop` reports success only when none of the daemons it was to stop still runs.
THEOREM StoppedAlwaysStopped == LifeSpec => StoppedIsStopped
<1>1. ASSUME LifeInv, NEW c \in Cmds, StopGrace(c), cmd'[c].at = "idle", NEW p \in cmd[c].hit
      PROVE  proc'[p].is # "daemon"
  <2>0. TypeInv /\ cmd \in [Cmds -> CmdType] /\ p \in Pids /\ CmdInv
    BY <1>1 DEF LifeInv, TypeInv, CmdType
  <2> DEFINE left == StillIt(cmd[c].hit)
  <2>1. left \in SUBSET Pids /\ (\A q \in left : proc[q].is = "daemon") /\ (proc[p].is = "daemon" => p \in left)
    BY <1>1, <2>0, NameFacts DEF StillIt, TypeInv, CmdType
  <2>2. CASE cmd[c].op = "stopall"
    <3>1. proc' = [q \in Pids |-> IF q \in left THEN Signalled(proc, q, "kill")[q] ELSE proc[q]]
      BY <1>1, <2>2 DEF StopGrace
    <3> HIDE DEF left
    <3>2. \A q \in left : proc'[q].is = "dying"
      BY <2>0, <2>1, <3>1, SignalAll
    <3>3. p \notin left => proc'[p] = proc[p]
      BY <2>0, <3>1
    <3> QED BY <2>1, <3>2, <3>3
  <2>3. CASE cmd[c].op # "stopall"
    <3>1. proc' = proc /\ Goes(c, IF left = {} THEN "idle" ELSE "failed")
      BY <1>1, <2>3 DEF StopGrace
    <3>2. left = {}
      <4> SUFFICES ASSUME left # {} PROVE FALSE
        OBVIOUS
      <4>1. Goes(c, "failed")
        BY <3>1
      <4>2. cmd'[c] = After(cmd[c], "failed")
        BY <2>0, <4>1 DEF Goes
      <4>3. cmd'[c].at = "failed"
        BY <4>2 DEF After, NoCmd
      <4> QED BY <1>1, <4>3
    <3> QED BY <2>1, <3>1, <3>2
  <2> QED BY <2>2, <2>3
<1>2. LifeInv => [\A c \in Cmds : StopGrace(c) /\ cmd'[c].at = "idle" =>
                   \A p \in cmd[c].hit : proc'[p].is # "daemon"]_lifeVars
  BY <1>1
<1> QED BY <1>2, LifeInvariant, PTL DEF StoppedIsStopped

-----------------------------------------------------------------------------
(***************************************************************************)
(* The console command.  What the reader is shown at the end depends on    *)
(* every step before it, so the invariant says, of each step of the local  *)
(* and of the remote run, which endpoints the command already has and      *)
(* which tunnel each of them goes through.                                 *)
(***************************************************************************)
EndpointType == [port : Nat, token : Nat, via : {"none", "local", "remote", "tunnel"}]
Tunnel == [to : Nat, live : BOOLEAN]

Over == {"done", "failed"}
LocalSteps == {"source", "startVideo", "serial", "hid", "read"}
RemoteSteps ==
  {"watchVideo", "watchSerial", "readVideo", "spawnVideo", "pollVideo", "readSerial", "spawnSerial", "pollSerial",
   "hidServe", "readHid", "spawnHid", "pollHid", "holding"}
SerialSteps == {"watchSerial", "readSerial", "spawnSerial", "pollSerial"}
\* Where the video endpoint, and then the serial one, is behind a tunnel.
PastVideo == {"readSerial", "spawnSerial", "pollSerial", "hidServe", "readHid", "spawnHid", "pollHid", "show", "holding"}
PastSerial == {"hidServe", "readHid", "spawnHid", "pollHid", "show", "holding"}

ConsoleTypes ==
  /\ scene \in ConsoleCases
  /\ up \in [Legs -> Nat] /\ born \in [Legs -> Nat]
  /\ \A l \in Legs : up[l] <= born[l] /\ born[l] <= MaxInc
  /\ step \in {"host", "show"} \cup Over \cup LocalSteps \cup RemoteSteps
  /\ ends \in [Legs -> EndpointType] /\ tunnels \in [Legs -> Tunnel]
  /\ consoleFaults \in 0..ConsoleFaults

\* A port and its token were read together; a target without serial has no such endpoint.
OneIncarnation == \A l \in Legs : ends[l].token = ends[l].port
NoSerialEnd == ~scene.serial => ends["serial"].via = "none" /\ step \notin SerialSteps

LocalRun ==
  ~scene.remote =>
     /\ step \notin RemoteSteps
     /\ \A l \in Legs : tunnels[l] = NoTunnel /\ ends[l].via \in {"none", "local"}
     /\ step \in {"show", "done"} => ends["video"].via = "local"

RemoteRun ==
  scene.remote =>
     /\ step \notin LocalSteps
     /\ \A l \in Legs : ends[l].via \in {"none", "remote", "tunnel"}
     /\ \A l \in Legs : ends[l].via = "remote" => step = SpawnStep[l] \/ step = PollStep[l]
     /\ \A l \in Legs : step = PollStep[l] => tunnels[l].to = ends[l].port
     /\ \A l \in Legs : ends[l].via = "tunnel" => step \in Over \/ tunnels[l].to = ends[l].port
     /\ step \in PastVideo \cup {"done"} => ends["video"].via = "tunnel"
     /\ scene.serial /\ step \in PastSerial \cup {"done"} => ends["serial"].via = "tunnel"

Handed ==
  Shown => /\ told.browser \/ told.printed \/ told.file
           /\ OverSsh => ~told.browser /\ told.hint = InUrl

ConsoleInv ==
  ConsoleTypes /\ OneIncarnation /\ NoSerialEnd /\ LocalRun /\ RemoteRun /\ Handed /\ TokenKept /\ NoTunnelLeft

\* It holds before the command's first step.
LEMMA ConsoleInitInv == ConsoleInit => ConsoleInv
<1> SUFFICES ASSUME ConsoleInit PROVE ConsoleInv
  OBVIOUS
<1> USE ConsoleAssumption
<1>1. ConsoleTypes
  BY DEF ConsoleInit, ConsoleTypes, EndpointType, Tunnel, NoEnd, NoTunnel, Legs
<1>2. OneIncarnation /\ NoSerialEnd /\ LocalRun /\ RemoteRun
  BY DEF ConsoleInit, OneIncarnation, NoSerialEnd, LocalRun, RemoteRun, NoEnd, NoTunnel, Legs,
         SerialSteps, RemoteSteps, LocalSteps, PastVideo, PastSerial, Over, SpawnStep, PollStep
<1>3. Handed /\ TokenKept /\ NoTunnelLeft
  BY DEF ConsoleInit, Handed, Shown, TokenKept, NoTunnelLeft, Silent
<1> QED BY <1>1, <1>2, <1>3 DEF ConsoleInv

\* The incarnations stay in order.
InOrder ==
  /\ up' \in [Legs -> Nat] /\ born' \in [Legs -> Nat]
  /\ \A k \in Legs : up'[k] <= born'[k] /\ born'[k] <= MaxInc

\* What starting or finding a daemon leaves of the incarnations.
LEMMA EnsuredFacts ==
  ASSUME ConsoleTypes, NEW l \in Legs,
         Ensured(l) \/ UNCHANGED <<up, born>> \/ (up' = [up EXCEPT ![l] = 0] /\ UNCHANGED born)
  PROVE  InOrder
BY ConsoleAssumption DEF InOrder, ConsoleTypes, Ensured, Started

\* Steps that hand nothing over leave what was told as it is.
LEMMA NothingTold ==
  ASSUME ConsoleInv, UNCHANGED <<scene, told>>, ~Shown'
  PROVE  Handed' /\ TokenKept'
BY DEF ConsoleInv, Handed, TokenKept, WritePrivateUrl

\* A call that fails uses up a fault.
LEMMA FaultFacts == 
  ASSUME ConsoleTypes, Kept \/ Broken
  PROVE  consoleFaults' \in 0..ConsoleFaults
BY ConsoleAssumption DEF ConsoleTypes, Kept, Broken

\* The command fails, at whatever step: its tunnels are dropped and nothing is shown.
LEMMA FailKeeps ==
  ASSUME ConsoleInv, Fail, UNCHANGED <<scene, told>>, Kept \/ Broken,
         InOrder,
         \A k \in Legs : ends'[k] = ends[k] \/ ends'[k] = NoEnd, ends' \in [Legs -> EndpointType],
         \A k \in Legs : ends'[k].via # "remote"
  PROVE  ConsoleInv'
<1>1. step' = "failed" /\ \A k \in Legs : tunnels'[k] = NoTunnel
  BY DEF Fail, ForwardDropped
<1>2. tunnels' \in [Legs -> Tunnel]
  BY DEF Fail, ForwardDropped, NoTunnel, Tunnel
<1>3. ConsoleTypes'
  BY <1>1, <1>2, FaultFacts DEF ConsoleInv, ConsoleTypes, InOrder, Over
<1>4. OneIncarnation' /\ NoSerialEnd'
  BY <1>1 DEF ConsoleInv, OneIncarnation, NoSerialEnd, NoEnd, SerialSteps, Legs
<1>5. LocalRun' /\ RemoteRun'
  BY <1>1 DEF ConsoleInv, LocalRun, RemoteRun, NoEnd, RemoteSteps, LocalSteps, PastVideo, PastSerial, Over,
              SpawnStep, PollStep, Legs
<1>6. Handed' /\ TokenKept'
  BY <1>1, NothingTold DEF Shown
<1>7. NoTunnelLeft'
  BY <1>1 DEF NoTunnelLeft
<1> QED BY <1>3, <1>4, <1>5, <1>6, <1>7 DEF ConsoleInv

\* No endpoint is left waiting for its tunnel where the command is not at that tunnel.
LEMMA NotRemote ==
  ASSUME ConsoleInv, \A l \in Legs : step # SpawnStep[l] /\ step # PollStep[l]
  PROVE  \A l \in Legs : ends[l].via # "remote"
BY DEF ConsoleInv, LocalRun, RemoteRun

\* The command is between tunnels, and goes on to a step at which it needs no endpoint that
\* it does not have.
Between == step \notin {"show", "holding"} \cup Over /\ \A l \in Legs : step # SpawnStep[l] /\ step # PollStep[l]
MayGo(s) ==
  /\ \A l \in Legs : s # PollStep[l]
  /\ IF scene.remote THEN s \in (RemoteSteps \ {"holding"}) \cup {"show"} ELSE s \in LocalSteps
  /\ s \in SerialSteps => scene.serial
  /\ s \in PastVideo => s \in PastSerial /\ step \in PastSerial

LEMMA GotoKeeps ==
  ASSUME ConsoleInv, NEW s, Goto(s), UNCHANGED <<scene, told, ends, tunnels>>, Kept \/ Broken, InOrder, Between, MayGo(s)
  PROVE  ConsoleInv'
<1>1. step' = s /\ s \notin Over
  BY DEF Goto, MayGo, LocalSteps, RemoteSteps, Over
<1>2. ConsoleTypes'
  BY <1>1, FaultFacts DEF ConsoleInv, ConsoleTypes, InOrder, MayGo
<1>3. OneIncarnation' /\ NoSerialEnd'
  BY <1>1 DEF ConsoleInv, OneIncarnation, NoSerialEnd, MayGo
<1>4. \A l \in Legs : ends[l].via # "remote"
  BY NotRemote DEF Between
<1>5. LocalRun'
  BY <1>1 DEF ConsoleInv, LocalRun, MayGo, LocalSteps, RemoteSteps
<1>6. RemoteRun'
  <2>1. s \in PastSerial => s \in PastVideo /\ step \in PastSerial /\ step \in PastVideo
    BY DEF MayGo, PastVideo, PastSerial
  <2>2. s \notin LocalSteps \/ ~scene.remote
    BY DEF MayGo, LocalSteps, RemoteSteps
  <2> QED BY <1>1, <1>4, <2>1, <2>2 DEF ConsoleInv, RemoteRun, Over, MayGo, Between
<1>7. ~Shown'
  BY <1>1 DEF Shown, MayGo, LocalSteps, RemoteSteps
<1>8. NoTunnelLeft'
  BY <1>1 DEF NoTunnelLeft, Over
<1> QED BY <1>2, <1>3, <1>5, <1>6, <1>7, <1>8, NothingTold DEF ConsoleInv

\* console_host: both channels on one host, or no console.
LEMMA HostKeeps == ConsoleInv /\ ConsoleHost => ConsoleInv'
<1> SUFFICES ASSUME ConsoleInv, ConsoleHost PROVE ConsoleInv'
  OBVIOUS
<1>1. Between
  BY DEF ConsoleHost, SpawnStep, PollStep, Legs, Between, Over
<1>2. InOrder
  BY DEF ConsoleHost, ConsoleInv, ConsoleTypes, InOrder
<1>3. CASE Fail
  BY <1>1, <1>2, <1>3, NotRemote, FailKeeps DEF ConsoleHost, ConsoleInv, ConsoleTypes, Between
<1>4. CASE Goto("watchVideo") /\ scene.remote /\ UNCHANGED tunnels
  <2>1. MayGo("watchVideo")
    BY <1>4 DEF MayGo, PollStep, Legs, LocalSteps, RemoteSteps, SerialSteps, PastVideo
  <2> QED BY <1>1, <1>2, <1>4, <2>1, GotoKeeps DEF ConsoleHost
<1>5. CASE Goto("source") /\ ~scene.remote /\ UNCHANGED tunnels
  <2>1. MayGo("source")
    BY <1>5 DEF MayGo, PollStep, Legs, LocalSteps, RemoteSteps, SerialSteps, PastVideo
  <2> QED BY <1>1, <1>2, <1>5, <2>1, GotoKeeps DEF ConsoleHost
<1> QED BY <1>3, <1>4, <1>5 DEF ConsoleHost

\* The steps that start daemons here, and fail or go on.
LEMMA LocalGoes ==
  ASSUME ConsoleInv, step \in {"source", "startVideo", "serial"}, UNCHANGED <<scene, ends, told>>, Kept \/ Broken, InOrder,
         Fail \/ ((Goto("startVideo") \/ Goto("serial") \/ Goto("hid")) /\ UNCHANGED tunnels)
  PROVE  ConsoleInv'
<1>1. Between
  BY DEF SpawnStep, PollStep, Legs, Between, Over
<1>2. ~scene.remote
  BY DEF ConsoleInv, RemoteRun, LocalSteps
<1>3. CASE Fail
  BY <1>1, <1>3, NotRemote, FailKeeps DEF ConsoleInv, ConsoleTypes, Between
<1>4. MayGo("startVideo") /\ MayGo("serial") /\ MayGo("hid")
  BY <1>2 DEF MayGo, PollStep, Legs, LocalSteps, SerialSteps, PastVideo
<1>5. CASE Goto("startVideo") /\ UNCHANGED tunnels
  BY <1>1, <1>4, <1>5, GotoKeeps
<1>6. CASE Goto("serial") /\ UNCHANGED tunnels
  BY <1>1, <1>4, <1>6, GotoKeeps
<1>7. CASE Goto("hid") /\ UNCHANGED tunnels
  BY <1>1, <1>4, <1>7, GotoKeeps
<1> QED BY <1>3, <1>5, <1>6, <1>7

\* Starting a daemon, finding it or failing to keeps the incarnations in order.
LEMMA DaemonsKeep ==
  ASSUME ConsoleInv, NEW l \in Legs, Ensured(l) \/ NotStarted(l) \/ UNCHANGED <<up, born>>
  PROVE  InOrder
BY EnsuredFacts DEF NotStarted, ConsoleInv

\* The daemons started here.
LEMMA StartsLocally == ConsoleInv /\ (EnsureVideoSource \/ StartVideo \/ StartSerial) => ConsoleInv'
<1> SUFFICES ASSUME ConsoleInv, EnsureVideoSource \/ StartVideo \/ StartSerial PROVE ConsoleInv'
  OBVIOUS
<1>0. "video" \in Legs /\ "serial" \in Legs /\ "hid" \in Legs
  BY DEF Legs
<1>1. CASE EnsureVideoSource
  <2>1. InOrder
    BY <1>0, <1>1, DaemonsKeep DEF EnsureVideoSource
  <2>2. Kept \/ Broken
    BY <1>1 DEF EnsureVideoSource, NotStarted
  <2>3. Fail \/ ((Goto("startVideo") \/ Goto("serial") \/ Goto("hid")) /\ UNCHANGED tunnels)
    BY <1>1 DEF EnsureVideoSource
  <2> QED BY <1>1, <2>1, <2>2, <2>3, LocalGoes DEF EnsureVideoSource
<1>2. CASE StartVideo
  <2>1. InOrder
    BY <1>0, <1>2, DaemonsKeep DEF StartVideo
  <2>2. Kept \/ Broken
    BY <1>2 DEF StartVideo, NotStarted
  <2> QED BY <1>2, <2>1, <2>2, LocalGoes DEF StartVideo
<1>3. CASE StartSerial
  <2>1. InOrder
    BY <1>0, <1>3, DaemonsKeep DEF StartSerial
  <2>2. Kept \/ Broken
    BY <1>3 DEF StartSerial, NotStarted
  <2> QED BY <1>3, <2>1, <2>2, LocalGoes DEF StartSerial
<1> QED BY <1>1, <1>2, <1>3

\* The endpoints of a local run: read here, each with the token beside its port.
LEMMA EndpointsRead ==
  ASSUME ConsoleInv, ~scene.remote, UNCHANGED <<scene, told, tunnels>>, Kept \/ Broken, InOrder,
         ends' \in [Legs -> EndpointType],
         \A l \in Legs : ends'[l] = ends[l] \/ (ends'[l].token = ends'[l].port /\ ends'[l].via \in {"none", "local"}),
         ~scene.serial => ends'["serial"].via = "none",
         step' = "read" \/ (step' = "show" /\ ends'["video"].via = "local")
  PROVE  ConsoleInv'
<1>1. ConsoleTypes'
  BY FaultFacts DEF ConsoleInv, ConsoleTypes, InOrder, LocalSteps
<1>2. OneIncarnation' /\ NoSerialEnd'
  BY DEF ConsoleInv, OneIncarnation, NoSerialEnd, SerialSteps
<1>3. LocalRun' /\ RemoteRun'
  BY DEF ConsoleInv, LocalRun, RemoteRun, RemoteSteps
<1>4. ~Shown' /\ NoTunnelLeft'
  BY DEF Shown, NoTunnelLeft
<1> QED BY <1>1, <1>2, <1>3, <1>4, NothingTold DEF ConsoleInv

\* The hid endpoint of a local run, and then the other two.
LEMMA ReadsLocally == ConsoleInv /\ (StartHid \/ ReadEndpoints) => ConsoleInv'
<1> SUFFICES ASSUME ConsoleInv, StartHid \/ ReadEndpoints PROVE ConsoleInv'
  OBVIOUS
<1>0. "video" \in Legs /\ "serial" \in Legs /\ "hid" \in Legs
  BY DEF Legs
<1>1. ~scene.remote
  BY DEF ConsoleInv, RemoteRun, LocalSteps, StartHid, ReadEndpoints
<1>2. CASE StartHid
  <2>1. InOrder
    BY <1>0, <1>2, DaemonsKeep DEF StartHid
  <2>2. Kept \/ Broken
    BY <1>2 DEF StartHid, NotStarted
  <2>3. EndpointOf("hid")' \in EndpointType /\ EndpointOf("hid")'.token = EndpointOf("hid")'.port
        /\ EndpointOf("hid")'.via \in {"none", "local"}
    BY <2>1, <1>0 DEF EndpointOf, EndpointType, InOrder
  <2>4. /\ ends' \in [Legs -> EndpointType]
        /\ \A l \in Legs : l # "hid" => ends'[l] = ends[l]
        /\ ends'["hid"] = ends["hid"] \/ ends'["hid"] = EndpointOf("hid")'
    BY <1>0, <1>2, <2>3 DEF StartHid, ConsoleInv, ConsoleTypes
  <2>5. ~scene.serial => ends'["serial"].via = "none"
    BY <1>0, <2>4 DEF ConsoleInv, NoSerialEnd
  <2>6. step' = "read" /\ UNCHANGED <<scene, told, tunnels>>
    BY <1>2 DEF StartHid, Goto
  <2> QED BY <1>1, <2>1, <2>2, <2>3, <2>4, <2>5, <2>6, EndpointsRead
<1>3. CASE ReadEndpoints
  <2>1. InOrder
    BY <1>3 DEF ReadEndpoints, ConsoleInv, ConsoleTypes, InOrder
  <2>2. CASE up["video"] = 0
    <3>1. Between
      BY <1>3 DEF ReadEndpoints, SpawnStep, PollStep, Legs, Between, Over
    <3> QED BY <1>3, <2>1, <2>2, <3>1, NotRemote, FailKeeps DEF ReadEndpoints, ConsoleInv, ConsoleTypes, Between
  <2>3. CASE up["video"] # 0
    <3>1. \A l \in Legs : EndpointOf(l) \in EndpointType /\ EndpointOf(l).token = EndpointOf(l).port
        /\ EndpointOf(l).via \in {"none", "local"} /\ (up[l] # 0 => EndpointOf(l).via = "local")
      BY DEF EndpointOf, EndpointType, ConsoleInv, ConsoleTypes
    <3>2. NoEnd \in EndpointType /\ NoEnd.token = NoEnd.port /\ NoEnd.via = "none"
      BY DEF EndpointType, NoEnd
    <3>3. ends' = [ends EXCEPT !["video"] = EndpointOf("video"),
                               !["serial"] = IF scene.serial THEN EndpointOf("serial") ELSE NoEnd]
      BY <1>3, <2>3 DEF ReadEndpoints
    <3>4. /\ ends' \in [Legs -> EndpointType]
          /\ ends'["video"] = EndpointOf("video") /\ ends'["hid"] = ends["hid"]
          /\ ends'["serial"] = IF scene.serial THEN EndpointOf("serial") ELSE NoEnd
      BY <1>0, <3>1, <3>2, <3>3 DEF ConsoleInv, ConsoleTypes
    <3>5. \A l \in Legs : ends'[l] = ends[l] \/ (ends'[l].token = ends'[l].port /\ ends'[l].via \in {"none", "local"})
      BY <1>0, <3>1, <3>2, <3>4 DEF Legs
    <3>6. ~scene.serial => ends'["serial"].via = "none"
      BY <3>2, <3>4
    <3>7. step' = "show" /\ ends'["video"].via = "local"
      BY <1>0, <1>3, <2>3, <3>1, <3>4 DEF ReadEndpoints, Goto
    <3> QED BY <1>1, <1>3, <2>1, <2>3, <3>4, <3>5, <3>6, <3>7, EndpointsRead DEF ReadEndpoints
  <2> QED BY <2>2, <2>3
<1> QED BY <1>2, <1>3

\* One leg of a remote run moves on: what it needs of its endpoint and its tunnel, and of the
\* legs before it.
LEMMA LegKeeps ==
  ASSUME ConsoleInv, scene.remote, NEW l \in Legs, UNCHANGED <<scene, told>>, Kept \/ Broken, InOrder,
         ends' \in [Legs -> EndpointType], tunnels' \in [Legs -> Tunnel],
         \A k \in Legs : k # l => ends'[k] = ends[k] /\ tunnels'[k] = tunnels[k],
         \A k \in Legs : k # l => step # SpawnStep[k] /\ step # PollStep[k] /\ step' # PollStep[k],
         step \notin Over, step' \in (RemoteSteps \ {"holding"}) \cup {"show"},
         ends'[l].token = ends'[l].port,
         ends'[l].via \in {"none", "remote", "tunnel"},
         ends'[l].via = "remote" => step' = SpawnStep[l] \/ step' = PollStep[l],
         step' = PollStep[l] \/ ends'[l].via = "tunnel" => tunnels'[l].to = ends'[l].port,
         step' \in PastVideo => ends'["video"].via = "tunnel",
         scene.serial /\ step' \in PastSerial => ends'["serial"].via = "tunnel",
         ~scene.serial => ends'["serial"].via = "none" /\ step' \notin SerialSteps
  PROVE  ConsoleInv'
<1>1. step' \notin Over /\ step' \notin LocalSteps
  BY DEF RemoteSteps, Over, LocalSteps
<1>2. ConsoleTypes'
  BY FaultFacts DEF ConsoleInv, ConsoleTypes, InOrder
<1>3. OneIncarnation' /\ NoSerialEnd' /\ LocalRun'
  BY DEF ConsoleInv, OneIncarnation, NoSerialEnd, LocalRun
<1>4. \A k \in Legs : k # l => ends[k].via # "remote"
  BY DEF ConsoleInv, RemoteRun
<1>5. RemoteRun'
  BY <1>1, <1>4 DEF ConsoleInv, RemoteRun, Over
<1>6. ~Shown' /\ NoTunnelLeft'
  BY <1>1 DEF Shown, NoTunnelLeft, RemoteSteps, Over
<1> QED BY <1>2, <1>3, <1>5, <1>6, NothingTold DEF ConsoleInv

\* The daemons started by a command over ssh.
LEMMA WatchKeeps ==
  ConsoleInv /\ (\/ RemoteWatch("video", IF scene.serial THEN "watchSerial" ELSE "readVideo")
                 \/ RemoteWatch("serial", "readVideo"))
    => ConsoleInv'
<1> SUFFICES ASSUME ConsoleInv, NEW l \in {"video", "serial"}, NEW s \in {"watchSerial", "readVideo"},
                    RemoteWatch(l, s), s = "watchSerial" => scene.serial
             PROVE  ConsoleInv'
  OBVIOUS
<1>1. step \in {"watchVideo", "watchSerial"}
  BY DEF RemoteWatch, WatchStep
<1>2. Between
  BY <1>1 DEF SpawnStep, PollStep, Legs, Between, Over
<1>3. scene.remote
  BY <1>1 DEF ConsoleInv, LocalRun, RemoteSteps
<1>4. l \in Legs
  BY DEF Legs
<1>5. InOrder
  BY <1>4, DaemonsKeep DEF RemoteWatch
<1>6. Kept \/ Broken
  BY DEF RemoteWatch
<1>7. CASE Fail
  BY <1>2, <1>5, <1>6, <1>7, NotRemote, FailKeeps DEF RemoteWatch, ConsoleInv, ConsoleTypes, Between
<1>8. CASE Goto(s) /\ UNCHANGED tunnels
  <2>1. MayGo(s)
    BY <1>3 DEF MayGo, PollStep, Legs, RemoteSteps, SerialSteps, PastVideo
  <2> QED BY <1>2, <1>5, <1>6, <1>8, <2>1, GotoKeeps DEF RemoteWatch
<1> QED BY <1>7, <1>8 DEF RemoteWatch

\* The steps of each tunnel, by name.
LEMMA SpawnSteps ==
  /\ SpawnStep["video"] = "spawnVideo" /\ SpawnStep["serial"] = "spawnSerial" /\ SpawnStep["hid"] = "spawnHid"
  /\ PollStep["video"] = "pollVideo" /\ PollStep["serial"] = "pollSerial" /\ PollStep["hid"] = "pollHid"
BY DEF SpawnStep, PollStep

\* A discovery file read over ssh: its endpoint waits for its tunnel.
LEMMA RemoteReads ==
  ASSUME ConsoleInv, NEW l \in Legs, NEW here,
         \/ l = "video" /\ here = "readVideo"
         \/ l = "serial" /\ here = "readSerial"
         \/ l = "hid" /\ here = "readHid",
         step = here, up[l] # 0,
         ends' = [ends EXCEPT ![l] = [EndpointOf(l) EXCEPT !.via = "remote"]],
         Goto(SpawnStep[l]), UNCHANGED tunnels, Kept, UNCHANGED <<scene, up, born, told>>
  PROVE  ConsoleInv'
<1>1. scene.remote
  BY DEF ConsoleInv, LocalRun, RemoteSteps
<1>2. InOrder
  BY DEF ConsoleInv, ConsoleTypes, InOrder
<1> DEFINE e == [EndpointOf(l) EXCEPT !.via = "remote"]
<1>3. e \in EndpointType /\ e.token = e.port /\ e.via = "remote"
  BY DEF EndpointOf, EndpointType, ConsoleInv, ConsoleTypes
<1>4. ends' \in [Legs -> EndpointType] /\ ends'[l] = e /\ \A k \in Legs : k # l => ends'[k] = ends[k]
  BY <1>3 DEF ConsoleInv, ConsoleTypes
<1> HIDE DEF e
<1>5. tunnels' \in [Legs -> Tunnel] /\ \A k \in Legs : tunnels'[k] = tunnels[k]
  BY DEF ConsoleInv, ConsoleTypes
<1>6. step' = SpawnStep[l]
  BY DEF Goto
<1>7. \A k \in Legs : k # l => step # SpawnStep[k] /\ step # PollStep[k] /\ step' # PollStep[k]
  BY <1>6, SpawnSteps DEF Legs
<1>8. step \notin Over /\ step' \in (RemoteSteps \ {"holding"}) \cup {"show"} /\ step' # PollStep[l]
  BY <1>6, SpawnSteps DEF Over, RemoteSteps
<1>9. step' \in PastVideo => ends'["video"].via = "tunnel"
  BY <1>1, <1>4, <1>6, SpawnSteps DEF ConsoleInv, RemoteRun, PastVideo, Legs
<1>10. scene.serial /\ step' \in PastSerial => ends'["serial"].via = "tunnel"
  BY <1>1, <1>4, <1>6, SpawnSteps DEF ConsoleInv, RemoteRun, PastSerial, Legs
<1>11. ~scene.serial => ends'["serial"].via = "none" /\ step' \notin SerialSteps
  BY <1>4, <1>6, SpawnSteps DEF ConsoleInv, NoSerialEnd, SerialSteps, Legs
<1>12. ends'[l].token = ends'[l].port /\ ends'[l].via = "remote"
  BY <1>3, <1>4
<1>13. step' = PollStep[l] \/ ends'[l].via = "tunnel" => tunnels'[l].to = ends'[l].port
  BY <1>8, <1>12
<1>14. ends'[l].via \in {"none", "remote", "tunnel"} /\ (ends'[l].via = "remote" => step' = SpawnStep[l] \/ step' = PollStep[l])
  BY <1>6, <1>12
<1>15. \A k \in Legs : k # l => ends'[k] = ends[k] /\ tunnels'[k] = tunnels[k]
  BY <1>4, <1>5
<1>16. ends' \in [Legs -> EndpointType] /\ tunnels' \in [Legs -> Tunnel]
  BY <1>4, <1>5
<1> QED BY <1>1, <1>2, <1>7, <1>8, <1>9, <1>10, <1>11, <1>12, <1>13, <1>14, <1>15, <1>16, LegKeeps

\* The discovery file of a leg: read, done without, or missed.
LEMMA EndpointKeeps ==
  ASSUME ConsoleInv, NEW l \in Legs, NEW here, NEW next, NEW optional \in BOOLEAN,
         \/ l = "video" /\ here = "readVideo" /\ ~optional
         \/ l = "serial" /\ here = "readSerial" /\ ~optional
         \/ l = "hid" /\ here = "readHid" /\ next = "show",
         RemoteEndpoint(l, here, next, optional)
  PROVE  ConsoleInv'
<1>1. CASE up[l] # 0
  BY <1>1, RemoteReads DEF RemoteEndpoint
<1>2. Between
  BY DEF RemoteEndpoint, SpawnStep, PollStep, Legs, Between, Over
<1>3. InOrder
  BY DEF RemoteEndpoint, ConsoleInv, ConsoleTypes, InOrder
<1>4. CASE up[l] = 0 /\ Fail /\ UNCHANGED ends
  BY <1>2, <1>3, <1>4, NotRemote, FailKeeps DEF RemoteEndpoint, ConsoleInv, ConsoleTypes, Between
<1>5. CASE up[l] = 0 /\ optional
  <2>1. next = "show" /\ step = "readHid"
    BY <1>5 DEF RemoteEndpoint
  <2>2. scene.remote
    BY <2>1 DEF ConsoleInv, LocalRun, RemoteSteps
  <2>3. MayGo("show")
    BY <2>1, <2>2 DEF MayGo, PollStep, Legs, RemoteSteps, SerialSteps, PastVideo, PastSerial
  <2>4. Goto("show") /\ Kept /\ UNCHANGED <<scene, told, ends, tunnels>>
    BY <1>5, <2>1 DEF RemoteEndpoint
  <2> QED BY <1>2, <1>3, <2>3, <2>4, GotoKeeps
<1> QED BY <1>1, <1>4, <1>5 DEF RemoteEndpoint

\* ssh -L is started for the port that was read.
LEMMA ForwardSpawnKeeps == ASSUME ConsoleInv, NEW l \in Legs, ForwardSpawn(l) PROVE ConsoleInv'
<1>0. l = "video" \/ l = "serial" \/ l = "hid"
  BY DEF Legs
<1>1. step = SpawnStep[l] /\ step' = PollStep[l]
  BY DEF ForwardSpawn, Goto
<1>2. scene.remote
  BY <1>0, <1>1, SpawnSteps DEF ConsoleInv, LocalRun, RemoteSteps
<1>3. InOrder /\ Kept
  BY DEF ForwardSpawn, ConsoleInv, ConsoleTypes, InOrder
<1>4. /\ tunnels' \in [Legs -> Tunnel] /\ tunnels'[l].to = ends[l].port
      /\ \A k \in Legs : k # l => tunnels'[k] = tunnels[k]
  BY DEF ForwardSpawn, ConsoleInv, ConsoleTypes, Tunnel, EndpointType
<1>5. \A k \in Legs : k # l => step # SpawnStep[k] /\ step # PollStep[k] /\ step' # PollStep[k]
  BY <1>0, <1>1, SpawnSteps DEF Legs
<1>6. step \notin Over /\ step' \in (RemoteSteps \ {"holding"}) \cup {"show"}
  BY <1>0, <1>1, SpawnSteps DEF Over, RemoteSteps
<1>7. ends' = ends /\ ends \in [Legs -> EndpointType] /\ ends[l].token = ends[l].port
      /\ ends[l].via \in {"none", "remote", "tunnel"}
  BY <1>2 DEF ForwardSpawn, ConsoleInv, ConsoleTypes, OneIncarnation, RemoteRun
<1>8. step' \in PastVideo => ends["video"].via = "tunnel"
  BY <1>0, <1>1, <1>2, SpawnSteps DEF ConsoleInv, RemoteRun, PastVideo
<1>9. scene.serial /\ step' \in PastSerial => ends["serial"].via = "tunnel"
  BY <1>0, <1>1, <1>2, SpawnSteps DEF ConsoleInv, RemoteRun, PastSerial
<1>10. ~scene.serial => ends["serial"].via = "none" /\ step' \notin SerialSteps
  BY <1>0, <1>1, SpawnSteps DEF ConsoleInv, NoSerialEnd, SerialSteps
<1>11. UNCHANGED <<scene, told>>
  BY DEF ForwardSpawn
<1> QED BY <1>1, <1>2, <1>3, <1>4, <1>5, <1>6, <1>7, <1>8, <1>9, <1>10, <1>11, LegKeeps

\* Where a leg goes on to when its tunnel stands, or when it is given up.
Onwards(l, next) ==
  \/ l = "video" /\ next = AfterVideo
  \/ l = "serial" /\ next = "hidServe"
  \/ l = "hid" /\ next = "show"

\* The wait for a tunnel is over: the leg is behind it, or an optional one is given up.
LEMMA ForwardEnds ==
  ASSUME ConsoleInv, NEW l \in Legs, NEW next, Onwards(l, next), NEW e \in EndpointType,
         step = PollStep[l], Goto(next), ends' = [ends EXCEPT ![l] = e],
         tunnels' \in [Legs -> Tunnel], \A k \in Legs : k # l => tunnels'[k] = tunnels[k],
         e.token = e.port, (e.via = "tunnel" /\ tunnels'[l].to = e.port) \/ (l = "hid" /\ e.via = "none"),
         Kept \/ Broken, UNCHANGED <<scene, up, born, told>>
  PROVE  ConsoleInv'
<1>0. l = "video" \/ l = "serial" \/ l = "hid"
  BY DEF Legs
<1>1. step' = next /\ \A k \in Legs : next # PollStep[k]
  BY SpawnSteps DEF Goto, Onwards, AfterVideo, Legs
<1>2. scene.remote
  BY <1>0, SpawnSteps DEF ConsoleInv, LocalRun, RemoteSteps
<1>3. InOrder
  BY DEF ConsoleInv, ConsoleTypes, InOrder
<1>4. ends' \in [Legs -> EndpointType] /\ ends'[l] = e /\ \A k \in Legs : k # l => ends'[k] = ends[k]
  BY DEF ConsoleInv, ConsoleTypes
<1>5. \A k \in Legs : k # l => step # SpawnStep[k] /\ step # PollStep[k]
  BY <1>0, SpawnSteps DEF Legs
<1>6. step \notin Over /\ step' \in (RemoteSteps \ {"holding"}) \cup {"show"}
  BY <1>0, <1>1, SpawnSteps DEF Over, RemoteSteps, Onwards, AfterVideo
<1>7. step' \in PastVideo => ends'["video"].via = "tunnel"
  <2>1. CASE l = "video"
    BY <1>4, <2>1
  <2>2. CASE l # "video"
    BY <1>0, <1>2, <1>4, <2>2, SpawnSteps DEF ConsoleInv, RemoteRun, PastVideo, Legs
  <2> QED BY <2>1, <2>2
<1>8. scene.serial /\ step' \in PastSerial => ends'["serial"].via = "tunnel"
  <2>1. CASE l = "serial"
    BY <1>4, <2>1
  <2>2. CASE l = "video"
    BY <1>1, <2>2 DEF Onwards, AfterVideo, PastSerial
  <2>3. CASE l = "hid"
    BY <1>2, <1>4, <2>3, SpawnSteps DEF ConsoleInv, RemoteRun, PastSerial, Legs
  <2> QED BY <1>0, <2>1, <2>2, <2>3
<1>9. ~scene.serial => ends'["serial"].via = "none" /\ step' \notin SerialSteps
  BY <1>0, <1>1, <1>4, SpawnSteps DEF ConsoleInv, NoSerialEnd, SerialSteps, Onwards, AfterVideo, Legs
<1> QED BY <1>1, <1>2, <1>3, <1>4, <1>5, <1>6, <1>7, <1>8, <1>9, LegKeeps

\* The tunnel accepts.
LEMMA AcceptsKeeps ==
  ASSUME ConsoleInv, NEW l \in Legs, NEW next, Onwards(l, next), ForwardAccepts(l, next) PROVE ConsoleInv'
<1> DEFINE e == [port |-> tunnels[l].to, token |-> ends[l].token, via |-> "tunnel"]
<1>0. l = "video" \/ l = "serial" \/ l = "hid"
  BY DEF Legs
<1>1. scene.remote
  BY <1>0, SpawnSteps DEF ForwardAccepts, ConsoleInv, LocalRun, RemoteSteps
<1>2. ends[l].token = ends[l].port /\ tunnels[l].to = ends[l].port /\ ends[l] \in EndpointType
  BY <1>1 DEF ForwardAccepts, ConsoleInv, RemoteRun, OneIncarnation, ConsoleTypes
<1>3. e \in EndpointType /\ e.token = e.port /\ e.via = "tunnel" /\ e.port = tunnels[l].to
  BY <1>2 DEF EndpointType
<1>4. ends' = [ends EXCEPT ![l] = e]
  BY DEF ForwardAccepts, ConsoleInv, ConsoleTypes
<1> HIDE DEF e
<1>5. tunnels' = tunnels /\ tunnels \in [Legs -> Tunnel]
  BY DEF ForwardAccepts, ConsoleInv, ConsoleTypes
<1>6. step = PollStep[l] /\ Goto(next) /\ Kept /\ UNCHANGED <<scene, up, born, told>>
  BY DEF ForwardAccepts
<1> QED BY <1>3, <1>4, <1>5, <1>6, ForwardEnds

\* The tunnel does not come up.
LEMMA ForwardFailsKeeps ==
  ASSUME ConsoleInv, NEW l \in Legs, NEW next, NEW optional \in BOOLEAN, optional => l = "hid" /\ next = "show",
         ForwardFails(l, next, optional)
  PROVE  ConsoleInv'
<1>1. NoEnd \in EndpointType /\ NoEnd.token = NoEnd.port /\ NoEnd.via = "none"
  BY DEF NoEnd, EndpointType
<1>2. NoTunnel \in Tunnel
  BY DEF NoTunnel, Tunnel
<1>3. CASE optional
  <2>1. tunnels' = [tunnels EXCEPT ![l] = NoTunnel] /\ Goto(next) /\ Onwards(l, next)
    BY <1>3 DEF ForwardFails, Onwards
  <2>2. tunnels' \in [Legs -> Tunnel] /\ \A k \in Legs : k # l => tunnels'[k] = tunnels[k]
    BY <1>2, <2>1 DEF ConsoleInv, ConsoleTypes
  <2>3. step = PollStep[l] /\ ends' = [ends EXCEPT ![l] = NoEnd] /\ Broken /\ UNCHANGED <<scene, up, born, told>>
    BY DEF ForwardFails
  <2> QED BY <1>1, <1>3, <2>1, <2>2, <2>3, ForwardEnds
<1>4. CASE ~optional
  <2>1. step = PollStep[l] /\ Broken /\ Fail /\ UNCHANGED <<scene, told>>
    BY <1>4 DEF ForwardFails
  <2>2. InOrder
    BY DEF ForwardFails, ConsoleInv, ConsoleTypes, InOrder
  <2>3. ends' \in [Legs -> EndpointType] /\ ends'[l] = NoEnd /\ \A k \in Legs : k # l => ends'[k] = ends[k]
    BY <1>1 DEF ForwardFails, ConsoleInv, ConsoleTypes
  <2>4. \A k \in Legs : k # l => step # SpawnStep[k] /\ step # PollStep[k]
    BY <2>1, SpawnSteps DEF Legs
  <2>5. \A k \in Legs : ends'[k].via # "remote"
    BY <1>1, <2>3, <2>4 DEF ConsoleInv, LocalRun, RemoteRun
  <2> QED BY <2>1, <2>2, <2>3, <2>5, FailKeeps
<1> QED BY <1>3, <1>4

\* The hid daemon on the other host, if there is one.
LEMMA HidServeKeeps == ConsoleInv /\ RemoteHidServe => ConsoleInv'
<1> SUFFICES ASSUME ConsoleInv, RemoteHidServe PROVE ConsoleInv'
  OBVIOUS
<1>1. step = "hidServe" /\ UNCHANGED <<scene, ends, tunnels, told>> /\ (Kept \/ Broken)
  BY DEF RemoteHidServe
<1>2. Between
  BY <1>1 DEF SpawnStep, PollStep, Legs, Between, Over
<1>3. scene.remote
  BY <1>1 DEF ConsoleInv, LocalRun, RemoteSteps
<1>4. "hid" \in Legs
  BY DEF Legs
<1>5. InOrder
  BY <1>4, DaemonsKeep DEF RemoteHidServe
<1>6. MayGo("show") /\ MayGo("readHid")
  BY <1>1, <1>3 DEF MayGo, PollStep, Legs, RemoteSteps, SerialSteps, PastVideo, PastSerial
<1>7. Goto("show") \/ Goto("readHid")
  BY DEF RemoteHidServe
<1> QED BY <1>1, <1>2, <1>5, <1>6, <1>7, GotoKeeps

\* Every step of remote_console.
LEMMA RemoteConsoleKeeps == ConsoleInv /\ RemoteConsole => ConsoleInv'
<1> SUFFICES ASSUME ConsoleInv, RemoteConsole PROVE ConsoleInv'
  OBVIOUS
<1>0. "video" \in Legs /\ "serial" \in Legs /\ "hid" \in Legs
  BY DEF Legs
<1>1. Onwards("video", AfterVideo) /\ Onwards("serial", "hidServe") /\ Onwards("hid", "show")
  BY DEF Onwards
<1>2. CASE \/ RemoteWatch("video", IF scene.serial THEN "watchSerial" ELSE "readVideo")
           \/ RemoteWatch("serial", "readVideo")
  BY <1>2, WatchKeeps
<1>3. CASE RemoteEndpoint("video", "readVideo", "failed", FALSE)
  BY <1>0, <1>3, EndpointKeeps
<1>4. CASE RemoteEndpoint("serial", "readSerial", "failed", FALSE)
  BY <1>0, <1>4, EndpointKeeps
<1>5. CASE RemoteEndpoint("hid", "readHid", "show", TRUE)
  BY <1>0, <1>5, EndpointKeeps
<1>6. CASE \E l \in Legs : ForwardSpawn(l)
  BY <1>6, ForwardSpawnKeeps
<1>7. CASE ForwardAccepts("video", AfterVideo) \/ ForwardAccepts("serial", "hidServe") \/ ForwardAccepts("hid", "show")
  BY <1>0, <1>1, <1>7, AcceptsKeeps
<1>8. CASE ForwardFails("video", "failed", FALSE) \/ ForwardFails("serial", "failed", FALSE)
  BY <1>0, <1>8, ForwardFailsKeeps
<1>9. CASE ForwardFails("hid", "show", TRUE)
  BY <1>0, <1>9, ForwardFailsKeeps
<1>10. CASE RemoteHidServe
  BY <1>10, HidServeKeeps
<1> QED BY <1>2, <1>3, <1>4, <1>5, <1>6, <1>7, <1>8, <1>9, <1>10 DEF RemoteConsole

\* What is handed over is handed over to somebody, and printed only as it may be.
LEMMA ShowKeeps == ConsoleInv /\ ShowConsole => ConsoleInv'
<1> SUFFICES ASSUME ConsoleInv, ShowConsole PROVE ConsoleInv'
  OBVIOUS
<1>1. step = "show" /\ step' = (IF scene.remote THEN "holding" ELSE "done") /\ Kept /\ UNCHANGED <<scene, up, born, ends, tunnels>>
  BY DEF ShowConsole, Goto
<1>2. ConsoleTypes'
  BY <1>1, FaultFacts DEF ConsoleInv, ConsoleTypes, RemoteSteps, Over
<1>3. OneIncarnation' /\ NoSerialEnd'
  BY <1>1 DEF ConsoleInv, OneIncarnation, NoSerialEnd, SerialSteps
<1>4. LocalRun' /\ RemoteRun'
  BY <1>1, SpawnSteps DEF ConsoleInv, LocalRun, RemoteRun, RemoteSteps, LocalSteps, Over, PastVideo, PastSerial, Legs
<1>5. NoTunnelLeft'
  BY <1>1 DEF ConsoleInv, LocalRun, NoTunnelLeft
<1>6. InUrl' = InUrl /\ OverSsh' = OverSsh /\ WritePrivateUrl' = WritePrivateUrl
  BY <1>1 DEF InUrl, OverSsh, WritePrivateUrl
<1>7. Handed' /\ TokenKept'
  <2>1. CASE ~OverSsh /\ OpenInBrowser
    <3>1. told' = [Silent EXCEPT !.browser = TRUE, !.printed = scene.print]
      BY <2>1 DEF ShowConsole
    <3>2. told'.browser = TRUE /\ told'.printed = scene.print
      BY <3>1 DEF Silent
    <3> QED BY <1>1, <1>6, <2>1, <3>2 DEF Handed, TokenKept
  <2>2. CASE ~OverSsh /\ ~OpenInBrowser /\ scene.print
    <3>1. told' = [Silent EXCEPT !.printed = TRUE]
      BY <2>2 DEF ShowConsole
    <3>2. told'.printed = TRUE
      BY <3>1 DEF Silent
    <3> QED BY <1>1, <1>6, <2>2, <3>2 DEF Handed, TokenKept
  <2>3. CASE ~OverSsh /\ ~OpenInBrowser /\ ~scene.print
    <3>1. told' = ConsoleFallback
      BY <2>3 DEF ShowConsole
    <3>2. told'.printed = ~WritePrivateUrl /\ told'.file = WritePrivateUrl
      BY <3>1 DEF ConsoleFallback, Silent
    <3> QED BY <1>1, <1>6, <2>3, <3>2 DEF Handed, TokenKept
  <2>4. CASE OverSsh /\ scene.print
    <3>1. told' = [[Silent EXCEPT !.printed = TRUE] EXCEPT !.hint = SshForwardHint]
      BY <2>4 DEF ShowConsole
    <3>2. told'.printed = TRUE /\ told'.browser = FALSE /\ told'.hint = InUrl
      BY <3>1 DEF Silent, SshForwardHint, Ports
    <3> QED BY <1>1, <1>6, <2>4, <3>2 DEF Handed, TokenKept
  <2>5. CASE OverSsh /\ ~scene.print
    <3>1. told' = [ConsoleUrlOverSsh EXCEPT !.hint = SshForwardHint]
      BY <2>5 DEF ShowConsole
    <3>2. told'.printed = ~WritePrivateUrl /\ told'.file = WritePrivateUrl /\ told'.browser = FALSE /\ told'.hint = InUrl
      BY <3>1 DEF ConsoleUrlOverSsh, Silent, SshForwardHint, Ports
    <3> QED BY <1>1, <1>6, <2>5, <3>2 DEF Handed, TokenKept
  <2> QED BY <2>1, <2>2, <2>3, <2>4, <2>5
<1> QED BY <1>2, <1>3, <1>4, <1>5, <1>7 DEF ConsoleInv

\* Ctrl-C ends the command with its tunnels.
LEMMA CtrlCKeeps == ConsoleInv /\ CtrlC => ConsoleInv'
<1> SUFFICES ASSUME ConsoleInv, CtrlC PROVE ConsoleInv'
  OBVIOUS
<1>1. step = "holding" /\ step' = "done" /\ Kept /\ UNCHANGED <<scene, up, born, ends, told>>
  BY DEF CtrlC, Goto
<1>2. tunnels' \in [Legs -> Tunnel] /\ \A l \in Legs : tunnels'[l] = NoTunnel
  BY DEF CtrlC, ForwardDropped, NoTunnel, Tunnel
<1>3. ConsoleTypes'
  BY <1>1, <1>2, FaultFacts DEF ConsoleInv, ConsoleTypes, Over
<1>4. OneIncarnation' /\ NoSerialEnd'
  BY <1>1 DEF ConsoleInv, OneIncarnation, NoSerialEnd, SerialSteps
<1>5. LocalRun' /\ RemoteRun'
  BY <1>1, <1>2, SpawnSteps DEF ConsoleInv, LocalRun, RemoteRun, RemoteSteps, LocalSteps, Over, PastVideo, PastSerial, Legs
<1>6. Handed' /\ TokenKept' /\ NoTunnelLeft'
  BY <1>1, <1>2 DEF ConsoleInv, Handed, TokenKept, NoTunnelLeft, Shown, InUrl, OverSsh, WritePrivateUrl
<1> QED BY <1>3, <1>4, <1>5, <1>6 DEF ConsoleInv

\* Daemons that come and go, and a tunnel that breaks, change nothing the command has.
LEMMA ElsewhereKeeps == ConsoleInv /\ Elsewhere => ConsoleInv'
<1> SUFFICES ASSUME ConsoleInv, Elsewhere PROVE ConsoleInv'
  OBVIOUS
<1>1. step \notin Over /\ Broken /\ UNCHANGED <<scene, step, ends, told>>
  BY DEF Elsewhere, Over
<1>2. PICK l \in Legs :
          \/ up[l] # 0 /\ up' = [up EXCEPT ![l] = 0] /\ UNCHANGED <<born, tunnels>>
          \/ Started(l) /\ UNCHANGED tunnels
          \/ /\ tunnels[l].live /\ tunnels' = [tunnels EXCEPT ![l].live = FALSE]
             /\ UNCHANGED <<up, born>>
  BY DEF Elsewhere
<1>3. InOrder
  BY <1>2, EnsuredFacts DEF ConsoleInv, Ensured
<1>4. /\ tunnels' \in [Legs -> Tunnel] /\ \A k \in Legs : tunnels'[k].to = tunnels[k].to
      /\ (\A k \in Legs : tunnels[k] = NoTunnel) => tunnels' = tunnels
  <2>1. CASE UNCHANGED tunnels
    BY <2>1 DEF ConsoleInv, ConsoleTypes
  <2>2. CASE tunnels[l].live /\ tunnels' = [tunnels EXCEPT ![l].live = FALSE]
    <3>1. tunnels[l] # NoTunnel /\ tunnels \in [Legs -> Tunnel]
      BY <2>2 DEF NoTunnel, ConsoleInv, ConsoleTypes
    <3>2. tunnels'[l] = [tunnels[l] EXCEPT !.live = FALSE] /\ \A k \in Legs : k # l => tunnels'[k] = tunnels[k]
      BY <2>2, <3>1
    <3>3. tunnels'[l] \in Tunnel /\ tunnels'[l].to = tunnels[l].to
      BY <3>1, <3>2 DEF Tunnel
    <3>4. tunnels' = [k \in Legs |-> tunnels'[k]]
      BY <2>2, <3>1
    <3> QED BY <3>1, <3>2, <3>3, <3>4
  <2> QED BY <1>2, <2>1, <2>2
<1>5. ConsoleTypes'
  BY <1>1, <1>3, <1>4, FaultFacts DEF ConsoleInv, ConsoleTypes, InOrder
<1>6. OneIncarnation' /\ NoSerialEnd'
  BY <1>1 DEF ConsoleInv, OneIncarnation, NoSerialEnd
<1>7. LocalRun'
  BY <1>1, <1>4 DEF ConsoleInv, LocalRun
<1>8. RemoteRun'
  BY <1>1, <1>4 DEF ConsoleInv, RemoteRun
<1>9. Handed' /\ TokenKept' /\ NoTunnelLeft'
  BY <1>1 DEF ConsoleInv, Handed, TokenKept, NoTunnelLeft, Shown, InUrl, OverSsh, WritePrivateUrl, Over
<1> QED BY <1>5, <1>6, <1>7, <1>8, <1>9 DEF ConsoleInv

\* At every step of the console command, whatever dies around it, its endpoints are each of
\* one incarnation and behind the tunnel that goes there, and what it told is whole.
THEOREM ConsoleInvariant == ConsoleSpec => []ConsoleInv
<1>1. ConsoleInv /\ [ConsoleNext]_consoleVars => ConsoleInv'
  <2> SUFFICES ASSUME ConsoleInv, [ConsoleNext]_consoleVars PROVE ConsoleInv'
    OBVIOUS
  <2>1. CASE CmdConsole
    BY <2>1, HostKeeps, StartsLocally, ReadsLocally DEF CmdConsole
  <2>2. CASE RemoteConsole
    BY <2>2, RemoteConsoleKeeps
  <2>3. CASE ShowConsole \/ CtrlC \/ Elsewhere
    BY <2>3, ShowKeeps, CtrlCKeeps, ElsewhereKeeps
  <2>4. CASE UNCHANGED consoleVars
    BY <2>4 DEF consoleVars, ConsoleInv, ConsoleTypes, OneIncarnation, NoSerialEnd, LocalRun, RemoteRun, Handed,
                TokenKept, NoTunnelLeft, Shown, InUrl, OverSsh, WritePrivateUrl
  <2> QED BY <2>1, <2>2, <2>3, <2>4 DEF ConsoleNext
<1> QED BY <1>1, ConsoleInitInv, PTL DEF ConsoleSpec

\* Whatever daemons die and are replaced while the console comes up, on either host, the URL
\* it hands over has a video link, each port with the token of its own incarnation and behind
\* the tunnel the command holds; its reader can open it, it is printed only as it may be, and
\* no ssh child outlives the command (remote_console, console_fallback, Drop for Forward).
THEOREM ConsoleAlwaysSafe == ConsoleSpec => []ConsoleIsSafe
<1>1. ConsoleInv => ConsoleIsSafe
  <2> SUFFICES ASSUME ConsoleInv PROVE ConsoleIsSafe
    OBVIOUS
  <2>1. ConsoleTypeOK
    BY ConsoleAssumption DEF ConsoleInv, ConsoleTypes, ConsoleTypeOK, EndpointType
  <2>2. Shown => ends["video"].via # "none" /\ "video" \in Legs
    BY DEF ConsoleInv, LocalRun, RemoteRun, Shown, RemoteSteps, PastVideo, Legs
  <2>3. ReaderReaches
    BY <2>2 DEF ConsoleInv, Handed, ReaderReaches, InUrl
  <2>4. ASSUME Shown, NEW l \in InUrl
        PROVE  /\ ends[l].token = ends[l].port
               /\ ends[l].via = IF scene.remote THEN "tunnel" ELSE "local"
               /\ (scene.remote /\ step = "holding") => tunnels[l].to = ends[l].port
    <3>1. l \in Legs /\ ends[l].via # "none"
      BY DEF InUrl
    <3>2. step \notin {SpawnStep[l], PollStep[l]}
      BY <2>4, <3>1, SpawnSteps DEF Legs, Shown
    <3> QED BY <2>4, <3>1, <3>2 DEF ConsoleInv, OneIncarnation, LocalRun, RemoteRun, Over, Shown
  <2>5. VideoOnly => "serial" \notin InUrl
    BY DEF ConsoleInv, NoSerialEnd, VideoOnly, InUrl
  <2>6. Shown /\ scene.remote /\ scene.serial => "serial" \in InUrl
    BY DEF ConsoleInv, RemoteRun, Shown, InUrl, Legs, PastSerial
  <2>7. LinksAgree
    BY <2>4, <2>5, <2>6 DEF LinksAgree
  <2> QED BY <2>1, <2>3, <2>7 DEF ConsoleInv, ConsoleIsSafe
<1> QED BY <1>1, ConsoleInvariant, PTL

-----------------------------------------------------------------------------
(***************************************************************************)
(* `paniolo setup`, for any crates, skills, hosts, revisions, runs and     *)
(* faults.  What a completed run says rests on what is left of its list:   *)
(* nothing on it was done before or comes twice, everything a checkout's   *)
(* run must not skip was done or is still on it, and no crate, which would *)
(* put an unprivileged helper back, comes after the promotion.             *)
(***************************************************************************)
AllSteps == Crates \cup SetupSteps
Slow == {"groups", "setuid", "ocr", "zigplug", "jetkvm"}
Needed == Crates \cup {"drop", "skills"}
Optional == {"ocr", "zigplug", "jetkvm"}
RunRec ==
  [kind : {"none", "full", "rust", "packaged"}, todo : Seq(AllSteps), did : SUBSET AllSteps,
   used : SUBSET {"sudo", "uv", "go"}, ticks : SUBSET (AllSteps \cup {"venv"}), skillsOk : BOOLEAN, faults : Nat,
   result : {"none", "running", "complete", "failed", "killed"}]
HelperRec == [owner : {"user", "root", "other"}, suid : BOOLEAN, ours : BOOLEAN]
Revs == 0..MaxRev

DiskTypes ==
  /\ machine \in SetupHosts /\ rev \in 1..MaxRev
  /\ libexec \in [Crates -> Revs] /\ stale \in [Crates -> Revs] /\ skillRev \in [Skills -> Revs]
  /\ helper \in HelperRec /\ groups \subseteq {"dialout", "video"}
  /\ venv \in {"none", "bare", "pip", "full"} /\ extras \subseteq Optional
  /\ runsLeft \in Nat /\ setupFaults \in Nat

\* A list of steps in which nothing comes twice and crates come before all but the groups.
Listed(todo) ==
  /\ todo \in Seq(AllSteps) /\ IsInjective(todo)
  /\ \A i, j \in DOMAIN todo : i < j /\ todo[j] \in Crates => todo[i] \in Crates \cup {"groups"}

\* What is left of the list, and what was done of it.
LeftInv ==
  /\ run.kind # "none"
  /\ Listed(run.todo) /\ \A s \in Range(run.todo) : s \notin run.did
  /\ "setuid" \in run.did => \A s \in Range(run.todo) : s \notin Crates
  /\ run.ticks \subseteq run.did \cup {"venv"}
  /\ run.kind \in {"full", "rust"} => Needed \subseteq run.did \cup Range(run.todo)

\* What was done is on the disk.
DoneInv ==
  /\ \A c \in Crates : c \in run.did => libexec[c] = rev
  /\ "drop" \in run.did /\ run.faults = 0 => \A c \in Crates : stale[c] = 0
  /\ "setuid" \in run.ticks => helper.owner = "root" /\ helper.suid
  /\ run.ticks \cap Optional \subseteq extras
  /\ run.skillsOk => "skills" \in run.did /\ \A s \in Skills : skillRev[s] = rev

\* --rust-only, however its run ends.
FastInv == run.kind = "rust" => run.used = {} /\ \A s \in Slow : s \notin run.did

Standing == run.result \in {"running", "complete"}
SetupInv ==
  /\ DiskTypes /\ run \in RunRec
  /\ helper.owner # "other" => helper.ours
  /\ run.result = "complete" => run.todo = << >>
  /\ Standing => LeftInv /\ DoneInv
  /\ FastInv

-----------------------------------------------------------------------------
\* The list a run begins with.
LEMMA JoinFacts ==
  ASSUME NEW S, NEW s \in Seq(S), NEW t \in Seq(S)
  PROVE  /\ s \o t \in Seq(S) /\ DOMAIN (s \o t) = 1..(Len(s) + Len(t))
         /\ \A i \in 1..(Len(s) + Len(t)) : (s \o t)[i] = IF i <= Len(s) THEN s[i] ELSE t[i - Len(s)]
         /\ Range(s \o t) = Range(s) \cup Range(t)
<1>1. /\ s \o t \in Seq(S) /\ DOMAIN (s \o t) = 1..(Len(s) + Len(t)) /\ DOMAIN s = 1..Len(s) /\ DOMAIN t = 1..Len(t)
      /\ Len(s) \in Nat /\ Len(t) \in Nat
  OBVIOUS
<1>2. \A i \in 1..(Len(s) + Len(t)) : (s \o t)[i] = IF i <= Len(s) THEN s[i] ELSE t[i - Len(s)]
  OBVIOUS
<1>3. ASSUME NEW x \in Range(s \o t) PROVE x \in Range(s) \cup Range(t)
  <2>1. PICK i \in 1..(Len(s) + Len(t)) : x = (s \o t)[i]
    BY <1>1 DEF Range
  <2>2. CASE i <= Len(s)
    BY <1>1, <1>2, <2>1, <2>2 DEF Range
  <2>3. CASE ~(i <= Len(s))
    <3>1. i - Len(s) \in 1..Len(t) /\ x = t[i - Len(s)]
      BY <1>1, <1>2, <2>1, <2>3
    <3> QED BY <1>1, <3>1 DEF Range
  <2> QED BY <2>2, <2>3
<1>4. ASSUME NEW x \in Range(s) PROVE x \in Range(s \o t)
  <2>1. PICK i \in 1..Len(s) : x = s[i]
    BY <1>1 DEF Range
  <2>2. i \in 1..(Len(s) + Len(t)) /\ x = (s \o t)[i]
    BY <1>1, <1>2, <2>1
  <2> QED BY <1>1, <2>2 DEF Range
<1>5. ASSUME NEW x \in Range(t) PROVE x \in Range(s \o t)
  <2>1. PICK i \in 1..Len(t) : x = t[i]
    BY <1>1 DEF Range
  <2>2. Len(s) + i \in 1..(Len(s) + Len(t)) /\ ~(Len(s) + i <= Len(s)) /\ (Len(s) + i) - Len(s) = i
    BY <1>1, <2>1
  <2>3. x = (s \o t)[Len(s) + i]
    BY <1>2, <2>1, <2>2
  <2> QED BY <1>1, <2>2, <2>3 DEF Range
<1>6. Range(s \o t) = Range(s) \cup Range(t)
  BY <1>3, <1>4, <1>5
<1> QED BY <1>1, <1>2, <1>6

LEMMA JoinInjective ==
  ASSUME NEW S, NEW s \in Seq(S), NEW t \in Seq(S), IsInjective(s), IsInjective(t),
         \A x \in Range(s) : x \notin Range(t)
  PROVE  IsInjective(s \o t)
<1>1. DOMAIN s = 1..Len(s) /\ DOMAIN t = 1..Len(t) /\ Len(s) \in Nat /\ Len(t) \in Nat
  OBVIOUS
<1> SUFFICES ASSUME NEW i \in 1..(Len(s) + Len(t)), NEW j \in 1..(Len(s) + Len(t)), (s \o t)[i] = (s \o t)[j]
             PROVE  i = j
  BY JoinFacts DEF IsInjective
<1>2. /\ (s \o t)[i] = IF i <= Len(s) THEN s[i] ELSE t[i - Len(s)]
      /\ (s \o t)[j] = IF j <= Len(s) THEN s[j] ELSE t[j - Len(s)]
  BY JoinFacts
<1>3. \A a \in 1..Len(s), b \in 1..Len(t) : s[a] # t[b]
  BY <1>1 DEF Range
<1>4. \A a, b \in 1..Len(s) : s[a] = s[b] => a = b
  BY <1>1 DEF IsInjective
<1>5. \A a, b \in 1..Len(t) : t[a] = t[b] => a = b
  BY <1>1 DEF IsInjective
<1>6. /\ i <= Len(s) => i \in 1..Len(s)
      /\ j <= Len(s) => j \in 1..Len(s)
      /\ ~(i <= Len(s)) => i - Len(s) \in 1..Len(t)
      /\ ~(j <= Len(s)) => j - Len(s) \in 1..Len(t)
  BY <1>1
<1>7. CASE i <= Len(s) /\ j <= Len(s)
  BY <1>2, <1>4, <1>6, <1>7
<1>8. CASE i <= Len(s) /\ ~(j <= Len(s))
  BY <1>2, <1>3, <1>6, <1>8
<1>9. CASE ~(i <= Len(s)) /\ j <= Len(s)
  BY <1>2, <1>3, <1>6, <1>9
<1>10. CASE ~(i <= Len(s)) /\ ~(j <= Len(s))
  <2>1. i - Len(s) = j - Len(s)
    BY <1>2, <1>5, <1>6, <1>10
  <2> QED BY <1>1, <2>1
<1> QED BY <1>7, <1>8, <1>9, <1>10

LEMMA ShortLists ==
  ASSUME NEW os \in {"macos", "linux"}
  PROVE  /\ GroupSteps(os) \in Seq(AllSteps) /\ IsInjective(GroupSteps(os)) /\ Range(GroupSteps(os)) \subseteq {"groups"}
         /\ <<"cli">> \in Seq(AllSteps) /\ IsInjective(<<"cli">>) /\ Range(<<"cli">>) = {"cli"}
         /\ AfterBuild(os) \in Seq(AllSteps) /\ IsInjective(AfterBuild(os))
         /\ Range(AfterBuild(os)) \subseteq SetupSteps \ {"cli", "groups"}
         /\ {"skills", "drop"} \subseteq Range(AfterBuild(os))
         /\ PackagedSteps(os) \in Seq(AllSteps) /\ IsInjective(PackagedSteps(os))
         /\ Range(PackagedSteps(os)) \subseteq {"groups", "setuid"}
<1>0. SetupSteps \subseteq AllSteps
  BY DEF AllSteps
<1>1. GroupSteps(os) \in Seq(AllSteps) /\ IsInjective(GroupSteps(os)) /\ Range(GroupSteps(os)) \subseteq {"groups"}
  BY <1>0 DEF GroupSteps, IsInjective, Range, SetupSteps
<1>2. <<"cli">> \in Seq(AllSteps) /\ IsInjective(<<"cli">>) /\ Range(<<"cli">>) = {"cli"}
  BY <1>0 DEF IsInjective, Range, SetupSteps
<1>3. PackagedSteps(os) \in Seq(AllSteps) /\ IsInjective(PackagedSteps(os))
      /\ Range(PackagedSteps(os)) \subseteq {"groups", "setuid"}
  BY <1>0 DEF PackagedSteps, IsInjective, Range, SetupSteps
<1>4. ASSUME NEW t, t = <<"skills", "drop", "setuid", "ocr", "zigplug", "jetkvm">> \/ t = <<"skills", "drop", "ocr", "zigplug", "jetkvm">>
      PROVE  /\ t \in Seq(AllSteps) /\ IsInjective(t) /\ Range(t) \subseteq SetupSteps \ {"cli", "groups"}
             /\ {"skills", "drop"} \subseteq Range(t)
  <2>1. CASE t = <<"skills", "drop", "setuid", "ocr", "zigplug", "jetkvm">>
    <3>1. /\ DOMAIN t = 1..6 /\ t[1] = "skills" /\ t[2] = "drop" /\ t[3] = "setuid" /\ t[4] = "ocr" /\ t[5] = "zigplug"
          /\ t[6] = "jetkvm"
      BY <2>1
    <3>2. t \in Seq(AllSteps)
      BY <1>0, <2>1 DEF SetupSteps
    <3>3. \A i \in 1..6 : i = 1 \/ i = 2 \/ i = 3 \/ i = 4 \/ i = 5 \/ i = 6
      OBVIOUS
    <3> HIDE <2>1
    <3>4. IsInjective(t)
      BY <3>1, <3>3 DEF IsInjective
    <3>5. Range(t) = {"skills", "drop", "setuid", "ocr", "zigplug", "jetkvm"}
      BY <3>1, <3>3 DEF Range
    <3> QED BY <3>2, <3>4, <3>5 DEF SetupSteps
  <2>2. CASE t = <<"skills", "drop", "ocr", "zigplug", "jetkvm">>
    <3>1. DOMAIN t = 1..5 /\ t[1] = "skills" /\ t[2] = "drop" /\ t[3] = "ocr" /\ t[4] = "zigplug" /\ t[5] = "jetkvm"
      BY <2>2
    <3>2. t \in Seq(AllSteps)
      BY <1>0, <2>2 DEF SetupSteps
    <3>3. \A i \in 1..5 : i = 1 \/ i = 2 \/ i = 3 \/ i = 4 \/ i = 5
      OBVIOUS
    <3> HIDE <2>2
    <3>4. IsInjective(t)
      BY <3>1, <3>3 DEF IsInjective
    <3>5. Range(t) = {"skills", "drop", "ocr", "zigplug", "jetkvm"}
      BY <3>1, <3>3 DEF Range
    <3> QED BY <3>2, <3>4, <3>5 DEF SetupSteps
  <2> QED BY <1>4, <2>1, <2>2
<1>5. AfterBuild(os) = <<"skills", "drop", "setuid", "ocr", "zigplug", "jetkvm">>
      \/ AfterBuild(os) = <<"skills", "drop", "ocr", "zigplug", "jetkvm">>
  BY DEF AfterBuild
<1> QED BY <1>1, <1>2, <1>3, <1>4, <1>5

\* A run begins with a proper list, and a checkout's has all that must not be left out.
LEMMA TodoListed ==
  ASSUME NEW kind \in {"full", "rust", "packaged"}, NEW os \in {"macos", "linux"}
  PROVE  Listed(Todo(kind, os)) /\ (kind # "packaged" => Needed \subseteq Range(Todo(kind, os)))
<1>0. /\ HelperCrates \in Seq(Crates) /\ IsInjective(HelperCrates) /\ Range(HelperCrates) = Crates
      /\ \A c \in Crates : c \notin SetupSteps
  BY SetupAssumption DEF Crates
<1>1. HelperCrates \in Seq(AllSteps)
  BY <1>0 DEF AllSteps
<1>2. CASE kind = "packaged"
  <2>1. Todo(kind, os) = PackagedSteps(os)
    BY <1>2 DEF Todo
  <2>2. \A i \in DOMAIN PackagedSteps(os) : PackagedSteps(os)[i] \notin Crates
    <3>1. {"groups", "setuid"} \cap Crates = {}
      BY <1>0 DEF SetupSteps
    <3>2. Range(PackagedSteps(os)) \subseteq {"groups", "setuid"}
      BY ShortLists
    <3> QED BY ONLY <3>1, <3>2 DEF Range
  <2> QED BY <1>2, <2>1, <2>2, ShortLists DEF Listed
<1>3. CASE kind # "packaged"
  <2> DEFINE g == GroupSteps(os)
             a == AfterBuild(os)
             f == g \o HelperCrates
             r == <<"cli">> \o a
  <2>1. Todo(kind, os) = f \o r
    BY <1>3 DEF Todo
  <2>2. f \in Seq(AllSteps) /\ Range(f) = Range(g) \cup Crates /\ IsInjective(f)
    <3>1. \A x \in Range(g) : x \notin Range(HelperCrates)
      BY <1>0, ShortLists DEF SetupSteps
    <3> QED BY <1>0, <1>1, <3>1, ShortLists, JoinFacts, JoinInjective
  <2>3. r \in Seq(AllSteps) /\ Range(r) = {"cli"} \cup Range(a) /\ IsInjective(r)
    <3>1. \A x \in Range(<<"cli">>) : x \notin Range(a)
      BY ShortLists
    <3>2. /\ <<"cli">> \in Seq(AllSteps) /\ IsInjective(<<"cli">>) /\ Range(<<"cli">>) = {"cli"}
          /\ a \in Seq(AllSteps) /\ IsInjective(a)
      BY ShortLists
    <3> DEFINE b == <<"cli">>
    <3> HIDE DEF a, b
    <3>0. b \in Seq(AllSteps) /\ IsInjective(b) /\ Range(b) = {"cli"} /\ (\A x \in Range(b) : x \notin Range(a)) /\ r = b \o a
      BY <3>1, <3>2 DEF b
    <3>3. r \in Seq(AllSteps) /\ Range(r) = {"cli"} \cup Range(a)
      BY ONLY <3>0, <3>2, JoinFacts
    <3>4. IsInjective(r)
      BY ONLY <3>0, <3>2, JoinInjective
    <3> QED BY <3>3, <3>4
  <2>4. /\ Range(f) \subseteq Crates \cup {"groups"} /\ Range(r) \subseteq SetupSteps \ {"groups"}
        /\ Needed \subseteq Range(f) \cup Range(r)
    BY <2>2, <2>3, ShortLists DEF Needed, SetupSteps
  <2> HIDE DEF f, r
  <2>5. f \o r \in Seq(AllSteps) /\ IsInjective(f \o r) /\ Range(f \o r) = Range(f) \cup Range(r)
    <3>1. \A x \in Range(f) : x \notin Range(r)
      BY <1>0, <2>4
    <3> QED BY <2>2, <2>3, <3>1, JoinFacts, JoinInjective
  <2>6. ASSUME NEW i \in DOMAIN (f \o r), NEW j \in DOMAIN (f \o r), i < j, (f \o r)[j] \in Crates
        PROVE  (f \o r)[i] \in Crates \cup {"groups"}
    <3>1. Len(f) \in Nat /\ Len(r) \in Nat /\ DOMAIN f = 1..Len(f) /\ DOMAIN r = 1..Len(r)
      BY <2>2, <2>3
    <3>2. /\ i \in 1..(Len(f) + Len(r)) /\ j \in 1..(Len(f) + Len(r))
          /\ (f \o r)[i] = IF i <= Len(f) THEN f[i] ELSE r[i - Len(f)]
          /\ (f \o r)[j] = IF j <= Len(f) THEN f[j] ELSE r[j - Len(f)]
      BY <2>2, <2>3, <2>6, JoinFacts
    <3>3. \A k \in 1..Len(r) : r[k] \notin Crates
      BY <1>0, <2>4, <3>1 DEF Range
    <3>4. j <= Len(f)
      BY <2>6, <3>1, <3>2, <3>3
    <3>5. i \in 1..Len(f) /\ (f \o r)[i] = f[i]
      BY <2>6, <3>1, <3>2, <3>4
    <3> QED BY <2>4, <3>1, <3>5 DEF Range
  <2> QED BY <2>1, <2>4, <2>5, <2>6 DEF Listed
<1> QED BY <1>2, <1>3

\* One step further down the list.
LEMMA ListedTail ==
  ASSUME NEW todo, Listed(todo), todo # << >>
  PROVE  /\ Listed(Tail(todo)) /\ Head(todo) \in AllSteps
         /\ Range(todo) = {Head(todo)} \cup Range(Tail(todo)) /\ Head(todo) \notin Range(Tail(todo))
         /\ Head(todo) \notin Crates \cup {"groups"} => \A s \in Range(Tail(todo)) : s \notin Crates
<1> DEFINE t == Tail(todo)
<1>1. /\ todo \in Seq(AllSteps) /\ DOMAIN todo = 1..Len(todo) /\ Len(todo) \in Nat \ {0} /\ Head(todo) = todo[1]
      /\ t \in Seq(AllSteps) /\ DOMAIN t = 1..(Len(todo) - 1) /\ \A i \in 1..(Len(todo) - 1) : t[i] = todo[i + 1]
  BY DEF Listed
<1> HIDE DEF t
<1>2. \A i, j \in 1..Len(todo) : todo[i] = todo[j] => i = j
  BY <1>1 DEF Listed, IsInjective
<1>3. \A i, j \in 1..Len(todo) : i < j /\ todo[j] \in Crates => todo[i] \in Crates \cup {"groups"}
  BY <1>1 DEF Listed
<1>4. \A i \in 1..(Len(todo) - 1) : i + 1 \in 1..Len(todo) /\ 1 < i + 1
  BY <1>1
<1>5. IsInjective(t)
  <2> SUFFICES ASSUME NEW i \in 1..(Len(todo) - 1), NEW j \in 1..(Len(todo) - 1), t[i] = t[j] PROVE i = j
    BY <1>1 DEF IsInjective
  <2>1. i + 1 = j + 1
    BY <1>1, <1>2, <1>4
  <2> QED BY <1>1, <2>1
<1>6. \A i, j \in DOMAIN t : i < j /\ t[j] \in Crates => t[i] \in Crates \cup {"groups"}
  <2> SUFFICES ASSUME NEW i \in 1..(Len(todo) - 1), NEW j \in 1..(Len(todo) - 1), i < j, t[j] \in Crates
               PROVE  t[i] \in Crates \cup {"groups"}
    BY <1>1
  <2>1. i + 1 < j + 1
    BY <1>1
  <2> QED BY <1>1, <1>3, <1>4, <2>1
<1>7. Head(todo) \in AllSteps
  BY <1>1
<1>8. ASSUME NEW s \in Range(todo) PROVE s \in {Head(todo)} \cup Range(t)
  <2>1. PICK i \in 1..Len(todo) : s = todo[i]
    BY <1>1 DEF Range
  <2>2. CASE i = 1
    BY <1>1, <2>1, <2>2
  <2>3. CASE i # 1
    <3>1. i - 1 \in 1..(Len(todo) - 1) /\ (i - 1) + 1 = i
      BY <1>1, <2>3
    <3>2. t[i - 1] = s
      BY <1>1, <2>1, <3>1
    <3> QED BY <1>1, <3>1, <3>2 DEF Range
  <2> QED BY <2>2, <2>3
<1>9. ASSUME NEW s \in Range(t)
      PROVE  s \in Range(todo) /\ s # Head(todo) /\ (Head(todo) \notin Crates \cup {"groups"} => s \notin Crates)
  <2>1. PICK i \in 1..(Len(todo) - 1) : s = t[i]
    BY <1>1 DEF Range
  <2>2. s = todo[i + 1] /\ i + 1 \in 1..Len(todo) /\ 1 < i + 1 /\ 1 \in 1..Len(todo)
    BY <1>1, <1>4, <2>1
  <2> QED BY <1>1, <1>2, <1>3, <2>2 DEF Range
<1>10. Head(todo) \in Range(todo)
  BY <1>1 DEF Range
<1> QED BY <1>1, <1>5, <1>6, <1>7, <1>8, <1>9, <1>10 DEF Listed, t

-----------------------------------------------------------------------------
\* A run's record after a step that was taken, that went on with a fault, or that was skipped.
LEMMA ToolsTyped == \A s : Tools(s) \subseteq {"sudo", "uv", "go"} /\ (s \notin Slow => Tools(s) = {})
BY DEF Tools, Slow

LEMMA PassedRun ==
  ASSUME run \in RunRec, run.todo # << >>, NEW T \in SUBSET (AllSteps \cup {"venv"}), Passed(T)
  PROVE  /\ run' \in RunRec /\ run'.kind = run.kind /\ run'.todo = Tail(run.todo)
         /\ run'.did = run.did \cup {SetupStep} /\ run'.used = run.used \cup Tools(SetupStep)
         /\ run'.ticks = run.ticks \cup T /\ run'.skillsOk = run.skillsOk /\ run'.faults = run.faults
         /\ run'.result = run.result
<1> DEFINE a == Tail(run.todo)
           b == run.did \cup {SetupStep}
           c == run.used \cup Tools(SetupStep)
           d == run.ticks \cup T
<1>1. run' = [run EXCEPT !.todo = a, !.did = b, !.used = c, !.ticks = d]
  BY DEF Passed
<1>2. run.todo \in Seq(AllSteps) /\ run.did \subseteq AllSteps /\ run.used \subseteq {"sudo", "uv", "go"}
      /\ run.ticks \subseteq AllSteps \cup {"venv"}
  BY DEF RunRec
<1>3. a \in Seq(AllSteps) /\ SetupStep \in AllSteps
  BY <1>2 DEF SetupStep
<1>4. b \in SUBSET AllSteps /\ c \in SUBSET {"sudo", "uv", "go"} /\ d \in SUBSET (AllSteps \cup {"venv"})
  BY <1>2, <1>3, ToolsTyped
<1> HIDE DEF a, b, c, d
<1>5. run' \in RunRec
  BY <1>1, <1>3, <1>4 DEF RunRec
<1>6. /\ run'.kind = run.kind /\ run'.todo = a /\ run'.did = b /\ run'.used = c /\ run'.ticks = d
      /\ run'.skillsOk = run.skillsOk /\ run'.faults = run.faults /\ run'.result = run.result
  BY <1>1 DEF RunRec
<1> QED BY <1>5, <1>6 DEF a, b, c, d

LEMMA FaultedRun ==
  ASSUME run \in RunRec, run.todo # << >>, setupFaults \in Nat, NEW T \in SUBSET (AllSteps \cup {"venv"}), FaultedOn(T)
  PROVE  /\ run' \in RunRec /\ run'.kind = run.kind /\ run'.todo = Tail(run.todo)
         /\ run'.did = run.did \cup {SetupStep} /\ run'.used = run.used \cup Tools(SetupStep)
         /\ run'.ticks = run.ticks \cup T /\ run'.skillsOk = run.skillsOk /\ run'.faults # 0
         /\ run'.result = run.result /\ setupFaults' \in Nat
<1> DEFINE a == Tail(run.todo)
           b == run.did \cup {SetupStep}
           c == run.used \cup Tools(SetupStep)
           d == run.ticks \cup T
           n == run.faults + 1
<1>1. run' = [run EXCEPT !.todo = a, !.did = b, !.faults = n, !.used = c, !.ticks = d]
  BY DEF FaultedOn
<1>2. run.todo \in Seq(AllSteps) /\ run.did \subseteq AllSteps /\ run.used \subseteq {"sudo", "uv", "go"}
      /\ run.ticks \subseteq AllSteps \cup {"venv"} /\ run.faults \in Nat
  BY DEF RunRec
<1>3. a \in Seq(AllSteps) /\ SetupStep \in AllSteps
  BY <1>2 DEF SetupStep
<1>4. b \in SUBSET AllSteps /\ c \in SUBSET {"sudo", "uv", "go"} /\ d \in SUBSET (AllSteps \cup {"venv"})
  BY <1>2, <1>3, ToolsTyped
<1>5. n \in Nat /\ n # 0
  BY <1>2
<1>6. setupFaults' \in Nat
  BY DEF FaultedOn, SetupFault
<1> HIDE DEF a, b, c, d, n
<1>7. run' \in RunRec
  BY <1>1, <1>3, <1>4, <1>5 DEF RunRec
<1>8. /\ run'.kind = run.kind /\ run'.todo = a /\ run'.did = b /\ run'.used = c /\ run'.ticks = d
      /\ run'.skillsOk = run.skillsOk /\ run'.faults = n /\ run'.result = run.result
  BY <1>1 DEF RunRec
<1> QED BY <1>5, <1>6, <1>7, <1>8 DEF a, b, c, d

LEMMA SkippedRun ==
  ASSUME run \in RunRec, run.todo # << >>, Skip
  PROVE  /\ run' \in RunRec /\ run'.kind = run.kind /\ run'.todo = Tail(run.todo) /\ run'.did = run.did
         /\ run'.used = run.used /\ run'.ticks = run.ticks /\ run'.skillsOk = run.skillsOk /\ run'.faults = run.faults
         /\ run'.result = run.result
<1> DEFINE a == Tail(run.todo)
<1>1. run' = [run EXCEPT !.todo = a]
  BY DEF Skip
<1>2. run.todo \in Seq(AllSteps)
  BY DEF RunRec
<1>3. a \in Seq(AllSteps)
  BY <1>2
<1> HIDE DEF a
<1> QED BY <1>1, <1>3 DEF RunRec, a

\* A run that ends before its list does.
LEMMA StoppedStep ==
  ASSUME SetupInv, NEW how \in {"failed", "killed"}, run' = [run EXCEPT !.result = how, !.todo = << >>],
         DiskTypes', helper'.owner # "other" => helper'.ours
  PROVE  SetupInv'
<1>1. run \in RunRec /\ << >> \in Seq(AllSteps)
  BY DEF SetupInv
<1>2. run' \in RunRec /\ run'.result = how /\ run'.kind = run.kind /\ run'.used = run.used /\ run'.did = run.did
  BY <1>1 DEF RunRec
<1>3. FastInv'
  BY <1>2 DEF SetupInv, FastInv
<1> QED BY <1>2, <1>3 DEF SetupInv, Standing

\* A step of a run keeps what is known of the list.
LEMMA MovedLeft ==
  ASSUME SetupInv, SetupRuns, run.todo # << >>, run'.kind = run.kind, run'.todo = Tail(run.todo),
         \/ run'.did = run.did \cup {SetupStep}
         \/ run'.did = run.did /\ SetupStep \in Slow,
         run'.ticks \subseteq run'.did \cup {"venv"}
  PROVE  LeftInv'
<1> DEFINE h == Head(run.todo)
           t == Tail(run.todo)
<1>1. LeftInv /\ SetupStep = h
  BY DEF SetupInv, Standing, SetupRuns, SetupStep
<1>2. /\ Listed(t) /\ Range(run.todo) = {h} \cup Range(t) /\ h \notin Range(t)
      /\ h \notin Crates \cup {"groups"} => \A s \in Range(t) : s \notin Crates
  BY <1>1, ListedTail DEF LeftInv
<1>3. \A s \in Slow : s \notin Needed
  BY SetupAssumption DEF Slow, Needed, SetupSteps
<1>4. "setuid" \notin Crates
  BY SetupAssumption DEF SetupSteps
<1> HIDE DEF h, t
<1>5. run'.todo = t
  BY DEF t
<1>6. \A s \in Range(t) : s \notin run'.did
  BY <1>1, <1>2 DEF LeftInv
<1>7. "setuid" \in run'.did => \A s \in Range(t) : s \notin Crates
  <2>1. CASE "setuid" \in run.did
    BY <1>1, <1>2, <2>1 DEF LeftInv
  <2>2. CASE h = "setuid"
    BY <1>2, <1>4, <2>2
  <2> QED BY <1>1, <2>1, <2>2
<1>8. /\ run'.kind \in {"full", "rust"} => Needed \subseteq run'.did \cup Range(t)
      /\ run'.kind # "none"
  BY <1>1, <1>2, <1>3 DEF LeftInv
<1> QED BY <1>2, <1>5, <1>6, <1>7, <1>8 DEF LeftInv

\* A step that leaves crates, copies, helper and skills alone.
LEMMA InertStep ==
  ASSUME SetupInv, SetupRuns, run.todo # << >>,
         UNCHANGED <<machine, rev, libexec, stale, helper, skillRev, runsLeft>>,
         groups' \subseteq {"dialout", "video"}, venv' \in {"none", "bare", "pip", "full"}, extras' \subseteq Optional,
         setupFaults' \in Nat,
         run' \in RunRec, run'.kind = run.kind, run'.todo = Tail(run.todo), run'.result = run.result,
         run'.skillsOk = run.skillsOk, run'.faults = 0 => run.faults = 0,
         \/ run'.did = run.did \cup {SetupStep} /\ SetupStep \notin Crates \cup {"drop"}
         \/ run'.did = run.did /\ SetupStep \in Slow,
         run'.ticks \subseteq run'.did \cup {"venv"},
         "setuid" \in run'.ticks => "setuid" \in run.ticks,
         run'.ticks \cap Optional \subseteq extras',
         run.kind = "rust" => run'.used = {} /\ (SetupStep \notin Slow \/ run'.did = run.did)
  PROVE  SetupInv'
<1>1. LeftInv /\ DoneInv /\ FastInv /\ DiskTypes
  BY DEF SetupInv, Standing, SetupRuns
<1>2. LeftInv'
  BY MovedLeft
<1>3. DiskTypes'
  BY <1>1 DEF DiskTypes
<1>4. (\A c \in Crates : c \in run.did <=> c \in run'.did) /\ ("drop" \in run'.did => "drop" \in run.did)
      /\ ("skills" \in run.did => "skills" \in run'.did)
  <2>1. \A s \in Slow : s \notin Crates \cup {"drop"}
    BY SetupAssumption DEF Slow, SetupSteps
  <2> QED BY <2>1
<1>5. DoneInv'
  BY <1>1, <1>4 DEF DoneInv
<1>6. FastInv'
  BY <1>1 DEF FastInv
<1>7. run'.result = "running"
  BY DEF SetupRuns
<1> QED BY <1>2, <1>3, <1>5, <1>6, <1>7 DEF SetupInv

-----------------------------------------------------------------------------
\* The steps, one by one.
LEMMA StepAtFacts ==
  ASSUME SetupInv, NEW s, SetupAt(s)
  PROVE  /\ SetupRuns /\ run.todo # << >> /\ SetupStep = s /\ LeftInv /\ DoneInv /\ FastInv /\ DiskTypes /\ run \in RunRec
         /\ helper.owner # "other" => helper.ours
         /\ s \notin run.did /\ (s # "venv" => s \notin run.ticks)
<1>1. SetupRuns /\ run.todo # << >> /\ SetupStep = s /\ LeftInv /\ DoneInv /\ FastInv /\ DiskTypes /\ run \in RunRec
      /\ (helper.owner # "other" => helper.ours)
  BY DEF SetupInv, SetupAt, Standing, SetupRuns
<1>2. s \notin run.did
  BY <1>1, ListedTail DEF LeftInv, SetupStep
<1> QED BY <1>1, <1>2 DEF LeftInv

LEMMA StepNamesApart ==
  /\ \A s \in SetupSteps : s \notin Crates
  /\ SetupSteps \subseteq AllSteps /\ Crates \subseteq AllSteps
  /\ {"groups", "setuid", "ocr", "zigplug", "jetkvm", "cli", "skills", "drop"} \subseteq SetupSteps
BY SetupAssumption DEF AllSteps, SetupSteps

LEMMA GroupsStep == ASSUME SetupInv, EnsureLinuxGroups PROVE SetupInv'
<1>1. SetupAt("groups") /\ UNCHANGED <<machine, rev, libexec, stale, helper, venv, extras, skillRev, runsLeft>>
  BY DEF EnsureLinuxGroups
<1>2. /\ SetupRuns /\ run.todo # << >> /\ SetupStep = "groups" /\ LeftInv /\ DoneInv /\ FastInv /\ DiskTypes
      /\ run \in RunRec /\ (helper.owner # "other" => helper.ours)
  BY <1>1, StepAtFacts
<1>3. venv' \in {"none", "bare", "pip", "full"} /\ extras' \subseteq Optional /\ "groups" \in Slow
      /\ "groups" \notin Crates \cup {"drop"} /\ setupFaults \in Nat /\ groups \subseteq {"dialout", "video"}
  BY <1>1, <1>2, StepNamesApart DEF DiskTypes, Slow
<1>4. CASE ~Will("groups") /\ Skip /\ UNCHANGED <<groups, setupFaults>>
  <2>1. run.kind = "rust" => run'.used = {}
    BY <1>2, <1>4, SkippedRun DEF FastInv
  <2> QED BY <1>1, <1>2, <1>3, <1>4, <2>1, SkippedRun, InertStep DEF LeftInv, DoneInv
<1>5. CASE Will("groups") /\ groups' = {"dialout", "video"} /\ Passed({"groups"}) /\ UNCHANGED setupFaults
  <2>1. run.kind # "rust"
    BY <1>5 DEF Will, OnTheFastPath
  <2>2. {"groups"} \in SUBSET (AllSteps \cup {"venv"}) /\ "groups" \notin Optional
    BY StepNamesApart DEF Optional
  <2>3. /\ run'.ticks \subseteq run'.did \cup {"venv"} /\ ("setuid" \in run'.ticks => "setuid" \in run.ticks)
        /\ run'.ticks \cap Optional \subseteq extras'
    BY <1>1, <1>2, <1>5, <2>2, PassedRun DEF LeftInv, DoneInv
  <2> QED BY <1>1, <1>2, <1>3, <1>5, <2>1, <2>2, <2>3, PassedRun, InertStep
<1>6. CASE Will("groups") /\ (\E g \in SUBSET {"dialout", "video"} : groups' = groups \union g) /\ FaultedOn({})
  <2>1. run.kind # "rust"
    BY <1>6 DEF Will, OnTheFastPath
  <2>2. {} \in SUBSET (AllSteps \cup {"venv"}) /\ groups' \subseteq {"dialout", "video"}
    BY <1>3, <1>6
  <2>3. /\ run'.ticks \subseteq run'.did \cup {"venv"} /\ ("setuid" \in run'.ticks => "setuid" \in run.ticks)
        /\ run'.ticks \cap Optional \subseteq extras'
    BY <1>1, <1>2, <1>3, <1>6, <2>2, FaultedRun DEF LeftInv, DoneInv
  <2> QED BY <1>1, <1>2, <1>3, <1>6, <2>1, <2>2, <2>3, FaultedRun, InertStep
<1>7. CASE Will("groups") /\ SetupFault /\ Bail /\ UNCHANGED groups
  <2>1. DiskTypes'
    BY <1>1, <1>2, <1>7 DEF DiskTypes, SetupFault
  <2> QED BY <1>1, <1>2, <1>7, <2>1, StoppedStep DEF Bail
<1> QED BY <1>4, <1>5, <1>6, <1>7 DEF EnsureLinuxGroups

LEMMA CrateStep == ASSUME SetupInv, NEW c \in Crates, InstallCrate(c) PROVE SetupInv'
<1>1. SetupAt(c) /\ UNCHANGED <<machine, rev, stale, groups, venv, extras, skillRev, runsLeft>>
  BY DEF InstallCrate
<1>2. /\ SetupRuns /\ run.todo # << >> /\ SetupStep = c /\ LeftInv /\ DoneInv /\ FastInv /\ DiskTypes
      /\ run \in RunRec /\ (helper.owner # "other" => helper.ours)
  BY <1>1, StepAtFacts
<1>3. c \notin SetupSteps /\ c \in AllSteps
  BY StepNamesApart
<1>4. CASE /\ libexec' = [libexec EXCEPT ![c] = rev]
           /\ helper' = IF c = "netbootd" THEN [owner |-> "user", suid |-> FALSE, ours |-> TRUE] ELSE helper
           /\ Passed({c}) /\ UNCHANGED setupFaults
  <2>1. /\ run' \in RunRec /\ run'.kind = run.kind /\ run'.todo = Tail(run.todo) /\ run'.did = run.did \cup {c}
        /\ run'.used = run.used \cup Tools(c) /\ run'.ticks = run.ticks \cup {c} /\ run'.skillsOk = run.skillsOk
        /\ run'.faults = run.faults /\ run'.result = run.result
    <3>1. {c} \in SUBSET (AllSteps \cup {"venv"})
      BY <1>3
    <3> QED BY <1>2, <1>4, <3>1, PassedRun
  <2>2. helper' \in HelperRec /\ (helper'.owner # "other" => helper'.ours)
    <3>1. CASE c = "netbootd"
      <4>1. helper' = [owner |-> "user", suid |-> FALSE, ours |-> TRUE]
        BY <1>4, <3>1
      <4> QED BY <4>1 DEF HelperRec
    <3>2. CASE c # "netbootd"
      BY <1>2, <1>4, <3>2 DEF DiskTypes
    <3> QED BY <3>1, <3>2
  <2>3. DiskTypes'
    BY <1>1, <1>2, <1>4, <2>2 DEF DiskTypes, Revs
  <2>4. LeftInv'
    BY <1>2, <2>1, MovedLeft DEF LeftInv
  <2>5. FastInv'
    <3>1. Tools(c) = {} /\ c \notin Slow
      BY <1>3, ToolsTyped, StepNamesApart DEF Slow
    <3> QED BY <1>2, <2>1, <3>1 DEF FastInv
  <2>6. DoneInv'
    <3>1. \A d \in Crates : d \in run'.did => libexec'[d] = rev'
      BY <1>1, <1>2, <1>4, <2>1 DEF DoneInv, DiskTypes
    <3>2. "setuid" \notin run'.ticks
      <4>1. c \in Range(run.todo) /\ c # "setuid"
        BY <1>2, <1>3, ListedTail, StepNamesApart DEF LeftInv, SetupStep
      <4>2. "setuid" \notin run.did
        BY <1>2, <4>1 DEF LeftInv
      <4> QED BY <1>2, <2>1, <4>1, <4>2 DEF LeftInv
    <3>3. c # "drop" /\ c \notin Optional /\ c # "skills"
      BY <1>3, StepNamesApart DEF Optional
    <3>4. "drop" \in run'.did /\ run'.faults = 0 => \A d \in Crates : stale'[d] = 0
      BY <1>1, <1>2, <2>1, <3>3 DEF DoneInv
    <3>5. run'.ticks \cap Optional \subseteq extras'
      BY <1>1, <1>2, <2>1, <3>3 DEF DoneInv
    <3>6. run'.skillsOk => "skills" \in run'.did /\ \A s \in Skills : skillRev'[s] = rev'
      BY <1>1, <1>2, <2>1 DEF DoneInv
    <3> QED BY <3>1, <3>2, <3>4, <3>5, <3>6 DEF DoneInv
  <2> QED BY <1>2, <2>1, <2>2, <2>3, <2>4, <2>5, <2>6 DEF SetupInv, SetupRuns
<1>5. CASE SetupFault /\ Bail /\ UNCHANGED <<libexec, helper>>
  <2>1. DiskTypes'
    BY <1>1, <1>2, <1>5 DEF DiskTypes, SetupFault
  <2> QED BY <1>1, <1>2, <1>5, <2>1, StoppedStep DEF Bail
<1> QED BY <1>4, <1>5 DEF InstallCrate

LEMMA CliStep == ASSUME SetupInv, InstallCli PROVE SetupInv'
<1>1. SetupAt("cli") /\ UNCHANGED <<machine, diskVars, runsLeft>>
  BY DEF InstallCli
<1>2. /\ SetupRuns /\ run.todo # << >> /\ SetupStep = "cli" /\ LeftInv /\ DoneInv /\ FastInv /\ DiskTypes
      /\ run \in RunRec /\ (helper.owner # "other" => helper.ours)
  BY <1>1, StepAtFacts
<1>3. UNCHANGED <<machine, rev, libexec, stale, helper, groups, venv, extras, skillRev, runsLeft>>
  BY <1>1 DEF diskVars
<1>4. CASE Passed({"cli"}) /\ UNCHANGED setupFaults
  <2>1. {"cli"} \in SUBSET (AllSteps \cup {"venv"}) /\ "cli" \notin Optional /\ "cli" \notin Slow
        /\ "cli" \notin Crates \cup {"drop"}
    BY StepNamesApart DEF Optional, Slow
  <2>2. Tools("cli") = {}
    BY <2>1, ToolsTyped
  <2>3. /\ run'.ticks \subseteq run'.did \cup {"venv"} /\ ("setuid" \in run'.ticks => "setuid" \in run.ticks)
        /\ run'.ticks \cap Optional \subseteq extras' /\ (run.kind = "rust" => run'.used = {})
    BY <1>2, <1>3, <1>4, <2>1, <2>2, PassedRun DEF LeftInv, DoneInv, FastInv
  <2> QED BY <1>2, <1>3, <1>4, <2>1, <2>3, PassedRun, InertStep DEF DiskTypes
<1>5. CASE SetupFault /\ Bail
  <2>1. DiskTypes'
    BY <1>2, <1>3, <1>5 DEF DiskTypes, SetupFault
  <2> QED BY <1>2, <1>3, <1>5, <2>1, StoppedStep DEF Bail
<1> QED BY <1>4, <1>5 DEF InstallCli

LEMMA CopiedTyped ==
  ASSUME DiskTypes, NEW part \in SUBSET Skills
  PROVE  /\ GuideCopied(part) \in [Skills -> Revs]
         /\ part = Skills => \A s \in Skills : GuideCopied(part)[s] = rev
BY DEF DiskTypes, GuideCopied, Revs

LEMMA SkillsStep == ASSUME SetupInv, InstallSkills PROVE SetupInv'
<1>1. SetupAt("skills") /\ UNCHANGED <<machine, rev, libexec, stale, helper, groups, venv, extras, runsLeft>>
  BY DEF InstallSkills
<1>2. /\ SetupRuns /\ run.todo # << >> /\ SetupStep = "skills" /\ LeftInv /\ DoneInv /\ FastInv /\ DiskTypes
      /\ run \in RunRec /\ (helper.owner # "other" => helper.ours) /\ "skills" \notin run.did
  BY <1>1, StepAtFacts
<1>3. "skills" \in AllSteps /\ "skills" \notin Crates /\ "skills" \notin Slow /\ "skills" \notin Optional /\ Tools("skills") = {}
  BY StepNamesApart, ToolsTyped DEF Slow, Optional
<1>4. PICK T \in SUBSET {"skills"} :
        /\ run' \in RunRec /\ run'.kind = run.kind /\ run'.todo = Tail(run.todo) /\ run'.did = run.did \cup {"skills"}
        /\ run'.used = run.used /\ run'.ticks = run.ticks \cup T /\ run'.result = run.result
        /\ (run'.faults = 0 => run.faults = 0) /\ setupFaults' \in Nat /\ skillRev' \in [Skills -> Revs]
        /\ (run'.skillsOk => \A s \in Skills : skillRev'[s] = rev)
  <2>1. CASE /\ skillRev' = GuideCopied(Skills)
             /\ run' = [run EXCEPT !.todo = Tail(@), !.did = @ \union {"skills"},
                                   !.ticks = @ \union {"skills"}, !.skillsOk = TRUE]
             /\ UNCHANGED setupFaults
    <3> DEFINE a == Tail(run.todo)
               b == run.did \cup {"skills"}
               d == run.ticks \cup {"skills"}
    <3>1. run' = [run EXCEPT !.todo = a, !.did = b, !.ticks = d, !.skillsOk = TRUE]
      BY <2>1
    <3>2. run.todo \in Seq(AllSteps) /\ run.did \subseteq AllSteps /\ run.ticks \subseteq AllSteps \cup {"venv"}
      BY <1>2 DEF RunRec
    <3>3. a \in Seq(AllSteps) /\ b \in SUBSET AllSteps /\ d \in SUBSET (AllSteps \cup {"venv"})
      BY <1>2, <1>3, <3>2
    <3> HIDE DEF a, b, d
    <3>4. /\ run' \in RunRec /\ run'.kind = run.kind /\ run'.todo = a /\ run'.did = b
          /\ run'.used = run.used /\ run'.ticks = d /\ run'.result = run.result /\ run'.faults = run.faults
      BY <1>2, <3>1, <3>3 DEF RunRec
    <3>5. skillRev' \in [Skills -> Revs] /\ \A s \in Skills : skillRev'[s] = rev
      BY <1>2, <2>1, CopiedTyped
    <3>6. setupFaults' \in Nat
      BY <1>2, <2>1 DEF DiskTypes
    <3> QED BY <3>4, <3>5, <3>6 DEF a, b, d
  <2>2. CASE (\E part \in SUBSET Skills : skillRev' = GuideCopied(part)) /\ FaultedOn({})
    <3>1. /\ run' \in RunRec /\ run'.kind = run.kind /\ run'.todo = Tail(run.todo) /\ run'.did = run.did \cup {"skills"}
          /\ run'.used = run.used \cup Tools("skills") /\ run'.ticks = run.ticks \cup {} /\ run'.skillsOk = run.skillsOk
          /\ run'.faults # 0 /\ run'.result = run.result /\ setupFaults' \in Nat
      <4>1. {} \in SUBSET (AllSteps \cup {"venv"}) /\ setupFaults \in Nat
        BY <1>2 DEF DiskTypes
      <4> QED BY <1>2, <2>2, <4>1, FaultedRun
    <3>2. ~run.skillsOk
      BY <1>2 DEF DoneInv
    <3>3. skillRev' \in [Skills -> Revs]
      BY <1>2, <2>2, CopiedTyped
    <3> QED BY <1>3, <3>1, <3>2, <3>3
  <2> QED BY <2>1, <2>2 DEF InstallSkills
<1>5. DiskTypes'
  BY <1>1, <1>2, <1>4 DEF DiskTypes
<1>6. LeftInv'
  BY <1>2, <1>4, MovedLeft DEF LeftInv
<1>7. FastInv'
  BY <1>2, <1>3, <1>4 DEF FastInv
<1>8. DoneInv'
  BY <1>1, <1>2, <1>3, <1>4 DEF DoneInv
<1> QED BY <1>1, <1>2, <1>4, <1>5, <1>6, <1>7, <1>8 DEF SetupInv, SetupRuns

LEMMA DropStep == ASSUME SetupInv, DropStaleCopies PROVE SetupInv'
<1>1. SetupAt("drop") /\ UNCHANGED <<machine, rev, libexec, helper, groups, venv, extras, skillRev, runsLeft>>
  BY DEF DropStaleCopies
<1>2. /\ SetupRuns /\ run.todo # << >> /\ SetupStep = "drop" /\ LeftInv /\ DoneInv /\ FastInv /\ DiskTypes
      /\ run \in RunRec /\ (helper.owner # "other" => helper.ours)
  BY <1>1, StepAtFacts
<1>3. "drop" \in AllSteps /\ "drop" \notin Crates /\ "drop" \notin Slow /\ "drop" \notin Optional /\ Tools("drop") = {}
  BY StepNamesApart, ToolsTyped DEF Slow, Optional
<1>4. PICK T \in SUBSET {"drop"} :
        /\ run' \in RunRec /\ run'.kind = run.kind /\ run'.todo = Tail(run.todo) /\ run'.did = run.did \cup {"drop"}
        /\ run'.used = run.used /\ run'.ticks = run.ticks \cup T /\ run'.result = run.result /\ run'.skillsOk = run.skillsOk
        /\ setupFaults' \in Nat /\ stale' \in [Crates -> Revs]
        /\ (run'.faults = 0 => \A c \in Crates : stale'[c] = 0)
  <2>1. CASE stale' = [c \in Crates |-> 0] /\ Passed({"drop"}) /\ UNCHANGED setupFaults
    <3>1. /\ run' \in RunRec /\ run'.kind = run.kind /\ run'.todo = Tail(run.todo) /\ run'.did = run.did \cup {"drop"}
          /\ run'.used = run.used \cup Tools("drop") /\ run'.ticks = run.ticks \cup {"drop"}
          /\ run'.skillsOk = run.skillsOk /\ run'.result = run.result
      <4>1. {"drop"} \in SUBSET (AllSteps \cup {"venv"})
        BY <1>3
      <4> QED BY <1>2, <2>1, <4>1, PassedRun
    <3>2. stale' \in [Crates -> Revs] /\ \A c \in Crates : stale'[c] = 0
      BY <2>1, SetupAssumption DEF Revs
    <3>3. setupFaults' \in Nat
      BY <1>2, <2>1 DEF DiskTypes
    <3> QED BY <1>3, <3>1, <3>2, <3>3
  <2>2. CASE /\ \E kept \in SUBSET Crates : stale' = [c \in Crates |-> IF c \in kept THEN stale[c] ELSE 0]
             /\ FaultedOn({})
    <3>1. /\ run' \in RunRec /\ run'.kind = run.kind /\ run'.todo = Tail(run.todo) /\ run'.did = run.did \cup {"drop"}
          /\ run'.used = run.used \cup Tools("drop") /\ run'.ticks = run.ticks \cup {} /\ run'.skillsOk = run.skillsOk
          /\ run'.faults # 0 /\ run'.result = run.result /\ setupFaults' \in Nat
      <4>1. {} \in SUBSET (AllSteps \cup {"venv"}) /\ setupFaults \in Nat
        BY <1>2 DEF DiskTypes
      <4> QED BY <1>2, <2>2, <4>1, FaultedRun
    <3>2. stale' \in [Crates -> Revs]
      BY <1>2, <2>2, SetupAssumption DEF Revs, DiskTypes
    <3> QED BY <1>3, <3>1, <3>2
  <2> QED BY <2>1, <2>2 DEF DropStaleCopies
<1>5. DiskTypes'
  BY <1>1, <1>2, <1>4 DEF DiskTypes
<1>6. LeftInv'
  BY <1>2, <1>4, MovedLeft DEF LeftInv
<1>7. FastInv'
  BY <1>2, <1>3, <1>4 DEF FastInv
<1>8. DoneInv'
  BY <1>1, <1>2, <1>3, <1>4 DEF DoneInv
<1> QED BY <1>1, <1>2, <1>4, <1>5, <1>6, <1>7, <1>8 DEF SetupInv, SetupRuns

LEMMA SetuidStep == ASSUME SetupInv, SetuidBpfHelper PROVE SetupInv'
<1>1. SetupAt("setuid") /\ UNCHANGED <<machine, rev, libexec, stale, groups, venv, extras, skillRev, runsLeft>>
  BY DEF SetuidBpfHelper
<1>2. /\ SetupRuns /\ run.todo # << >> /\ SetupStep = "setuid" /\ LeftInv /\ DoneInv /\ FastInv /\ DiskTypes
      /\ run \in RunRec /\ (helper.owner # "other" => helper.ours) /\ "setuid" \notin run.did /\ "setuid" \notin run.ticks
  BY <1>1, StepAtFacts
<1>3. "setuid" \in AllSteps /\ "setuid" \notin Crates \cup {"drop"} /\ "setuid" \in Slow /\ "setuid" \notin Optional
  BY StepNamesApart DEF Slow, Optional
<1>4. CASE ~Will("setuid") /\ Skip /\ UNCHANGED <<helper, setupFaults>>
  <2>1. run.kind = "rust" => run'.used = {}
    BY <1>2, <1>4, SkippedRun DEF FastInv
  <2>2. DiskTypes'
    BY <1>1, <1>2, <1>4 DEF DiskTypes
  <2> QED BY <1>1, <1>2, <1>3, <1>4, <2>1, <2>2, SkippedRun, InertStep DEF LeftInv, DoneInv, DiskTypes
<1>5. CASE Will("setuid")
  <2>1. run.kind # "rust"
    BY <1>5 DEF Will, OnTheFastPath
  <2>2. PICK T \in SUBSET {"setuid"} :
          /\ run' \in RunRec /\ run'.kind = run.kind /\ run'.todo = Tail(run.todo) /\ run'.did = run.did \cup {"setuid"}
          /\ run'.ticks = run.ticks \cup T /\ run'.result = run.result /\ run'.skillsOk = run.skillsOk
          /\ (run'.faults = 0 => run.faults = 0) /\ setupFaults' \in Nat
          /\ helper' \in HelperRec /\ (helper'.owner # "other" => helper'.ours)
          /\ ("setuid" \in T => helper'.owner = "root" /\ helper'.suid)
    <3>0. helper \in HelperRec /\ setupFaults \in Nat
      BY <1>2 DEF DiskTypes
    <3>1. CASE ~HelperSafeToSetuid /\ Passed({}) /\ UNCHANGED <<helper, setupFaults>>
      <4>1. {} \in SUBSET (AllSteps \cup {"venv"})
        OBVIOUS
      <4>2. /\ run' \in RunRec /\ run'.kind = run.kind /\ run'.todo = Tail(run.todo) /\ run'.did = run.did \cup {"setuid"}
            /\ run'.ticks = run.ticks \cup {} /\ run'.result = run.result /\ run'.skillsOk = run.skillsOk
            /\ run'.faults = run.faults
        BY <1>2, <3>1, <4>1, PassedRun
      <4>3. {} \in SUBSET {"setuid"} /\ "setuid" \notin {}
        OBVIOUS
      <4> QED BY <1>2, <3>0, <3>1, <4>2, <4>3
    <3>2. CASE /\ HelperSafeToSetuid /\ helper' = [helper EXCEPT !.owner = Chown(TRUE), !.suid = TRUE]
               /\ Passed({"setuid"}) /\ UNCHANGED setupFaults
      <4>1. {"setuid"} \in SUBSET (AllSteps \cup {"venv"})
        BY <1>3
      <4>2. /\ run' \in RunRec /\ run'.kind = run.kind /\ run'.todo = Tail(run.todo) /\ run'.did = run.did \cup {"setuid"}
            /\ run'.ticks = run.ticks \cup {"setuid"} /\ run'.result = run.result /\ run'.skillsOk = run.skillsOk
            /\ run'.faults = run.faults
        BY <1>2, <3>2, <4>1, PassedRun
      <4>3. helper' \in HelperRec /\ helper'.owner = "root" /\ helper'.suid = TRUE /\ helper'.ours = helper.ours
        BY <3>0, <3>2 DEF HelperRec, Chown
      <4>4. helper.owner # "other"
        BY <3>2 DEF HelperSafeToSetuid
      <4> QED BY <1>2, <3>0, <3>2, <4>2, <4>3, <4>4
    <3>3. CASE /\ HelperSafeToSetuid
               /\ \E chown, chmod \in BOOLEAN :
                     /\ ~(chown /\ chmod)
                     /\ helper' = [helper EXCEPT !.owner = Chown(chown), !.suid = @ \/ chmod]
               /\ FaultedOn({})
      <4>1. {} \in SUBSET (AllSteps \cup {"venv"})
        OBVIOUS
      <4>2. /\ run' \in RunRec /\ run'.kind = run.kind /\ run'.todo = Tail(run.todo) /\ run'.did = run.did \cup {"setuid"}
            /\ run'.ticks = run.ticks \cup {} /\ run'.result = run.result /\ run'.skillsOk = run.skillsOk
            /\ run'.faults # 0 /\ setupFaults' \in Nat
        BY <1>2, <3>0, <3>3, <4>1, FaultedRun
      <4>3. PICK chown \in BOOLEAN, chmod \in BOOLEAN :
              helper' = [helper EXCEPT !.owner = Chown(chown), !.suid = @ \/ chmod]
        BY <3>3
      <4> DEFINE o == Chown(chown)
                 b == helper.suid \/ chmod
      <4>4. helper' = [helper EXCEPT !.owner = o, !.suid = b]
        BY <3>0, <4>3 DEF HelperRec
      <4>5. o \in {"user", "root", "other"} /\ b \in BOOLEAN
        BY <3>0 DEF HelperRec, Chown
      <4> HIDE DEF o, b
      <4>6. helper' \in HelperRec /\ helper'.ours = helper.ours
        BY <3>0, <4>4, <4>5 DEF HelperRec
      <4>7. helper.owner # "other"
        BY <3>3 DEF HelperSafeToSetuid
      <4>8. {} \in SUBSET {"setuid"} /\ "setuid" \notin {}
        OBVIOUS
      <4> QED BY <1>2, <4>2, <4>6, <4>7, <4>8
    <3> QED BY <1>5, <3>1, <3>2, <3>3 DEF SetuidBpfHelper
  <2>3. DiskTypes'
    BY <1>1, <1>2, <2>2 DEF DiskTypes
  <2>4. LeftInv'
    BY <1>2, <2>2, MovedLeft DEF LeftInv
  <2>5. FastInv'
    BY <2>1, <2>2 DEF FastInv
  <2>6. DoneInv'
    BY <1>1, <1>2, <1>3, <2>2 DEF DoneInv
  <2> QED BY <1>2, <2>2, <2>3, <2>4, <2>5, <2>6 DEF SetupInv, SetupRuns
<1> QED BY <1>4, <1>5 DEF SetuidBpfHelper

LEMMA OcrStep == ASSUME SetupInv, OcrHelper PROVE SetupInv'
<1>1. SetupAt("ocr") /\ UNCHANGED <<machine, rev, libexec, stale, helper, groups, skillRev, runsLeft>>
  BY DEF OcrHelper
<1>2. /\ SetupRuns /\ run.todo # << >> /\ SetupStep = "ocr" /\ LeftInv /\ DoneInv /\ FastInv /\ DiskTypes
      /\ run \in RunRec /\ (helper.owner # "other" => helper.ours) /\ "ocr" \notin run.ticks
  BY <1>1, StepAtFacts
<1>3. /\ "ocr" \in AllSteps /\ "ocr" \notin Crates \cup {"drop"} /\ "ocr" \in Slow /\ "ocr" \in Optional
      /\ "venv" \notin Optional /\ "setuid" \notin {"ocr", "venv"}
  BY StepNamesApart DEF Slow, Optional
<1>4. /\ groups' \subseteq {"dialout", "video"} /\ setupFaults \in Nat /\ extras \subseteq Optional
      /\ venv \in {"none", "bare", "pip", "full"}
  BY <1>1, <1>2 DEF DiskTypes
<1>5. CASE ~Will("ocr") /\ Skip /\ UNCHANGED <<extras, venv, setupFaults>>
  <2>1. run.kind = "rust" => run'.used = {}
    BY <1>2, <1>5, SkippedRun DEF FastInv
  <2> QED BY <1>1, <1>2, <1>3, <1>4, <1>5, <2>1, SkippedRun, InertStep DEF LeftInv, DoneInv
<1>6. CASE Will("ocr") /\ (SetupFault /\ Bail /\ UNCHANGED <<extras, venv>>)
  <2>1. DiskTypes'
    BY <1>1, <1>2, <1>6 DEF DiskTypes, SetupFault
  <2> QED BY <1>1, <1>2, <1>6, <2>1, StoppedStep DEF Bail
<1>7. ASSUME NEW T \in SUBSET {"ocr", "venv"}, Will("ocr"), venv' \in {"none", "bare", "pip", "full"},
             (Passed(T) /\ UNCHANGED setupFaults) \/ FaultedOn(T),
             extras' = extras \cup {"ocr"} \/ (extras' = extras /\ "ocr" \notin T)
      PROVE  SetupInv'
  <2>1. run.kind # "rust"
    BY <1>7 DEF Will, OnTheFastPath
  <2>2. T \in SUBSET (AllSteps \cup {"venv"}) /\ extras' \subseteq Optional
    BY <1>3, <1>4, <1>7
  <2>3. /\ run' \in RunRec /\ run'.kind = run.kind /\ run'.todo = Tail(run.todo) /\ run'.did = run.did \cup {"ocr"}
        /\ run'.ticks = run.ticks \cup T /\ run'.skillsOk = run.skillsOk
        /\ run'.result = run.result /\ setupFaults' \in Nat /\ (run'.faults = 0 => run.faults = 0)
    <3>1. CASE Passed(T) /\ UNCHANGED setupFaults
      BY <1>2, <1>4, <2>2, <3>1, PassedRun
    <3>2. CASE FaultedOn(T)
      BY <1>2, <1>4, <2>2, <3>2, FaultedRun
    <3> QED BY <1>7, <3>1, <3>2
  <2>4. /\ run'.ticks \subseteq run'.did \cup {"venv"} /\ ("setuid" \in run'.ticks => "setuid" \in run.ticks)
        /\ run'.ticks \cap Optional \subseteq extras'
    BY <1>2, <1>3, <1>7, <2>3 DEF LeftInv, DoneInv
  <2> QED BY <1>1, <1>2, <1>3, <1>4, <1>7, <2>1, <2>2, <2>3, <2>4, InertStep
<1>8. InstallRapidocrVenv(TRUE) \/ InstallRapidocrVenv(FALSE) \/ venv' = venv => venv' \in {"none", "bare", "pip", "full"}
  <2>1. CASE VenvWanted
    BY <1>4, <2>1 DEF InstallRapidocrVenv
  <2>2. CASE ~VenvWanted
    BY <1>4, <2>2 DEF InstallRapidocrVenv
  <2> QED BY <2>1, <2>2
<1>9. CASE /\ Will("ocr") /\ extras' = extras \union {"ocr"} /\ InstallRapidocrVenv(TRUE)
           /\ Passed({"ocr"} \union IF venv' # "none" THEN {"venv"} ELSE {}) /\ UNCHANGED setupFaults
  <2> DEFINE T == {"ocr"} \union IF venv' # "none" THEN {"venv"} ELSE {}
  <2>1. T \in SUBSET {"ocr", "venv"} /\ Passed(T)
    BY <1>9
  <2> HIDE DEF T
  <2> QED BY <1>7, <1>8, <1>9, <2>1
<1>10. CASE /\ Will("ocr") /\ VenvWanted /\ extras' = extras \union {"ocr"} /\ InstallRapidocrVenv(FALSE)
            /\ FaultedOn({"ocr"})
  <2>1. {"ocr"} \in SUBSET {"ocr", "venv"}
    OBVIOUS
  <2> QED BY <1>7, <1>8, <1>10, <2>1
<1>11. CASE Will("ocr") /\ FaultedOn({}) /\ UNCHANGED <<extras, venv>>
  <2>1. {} \in SUBSET {"ocr", "venv"} /\ "ocr" \notin {}
    OBVIOUS
  <2> QED BY <1>7, <1>8, <1>11, <2>1
<1> QED BY <1>5, <1>6, <1>9, <1>10, <1>11 DEF OcrHelper

LEMMA ToolStepInv == ASSUME SetupInv, NEW s \in {"zigplug", "jetkvm"}, ToolStep(s) PROVE SetupInv'
<1>1. SetupAt(s) /\ UNCHANGED <<machine, rev, libexec, stale, helper, groups, venv, skillRev, runsLeft>>
  BY DEF ToolStep, ToolStepUngated, diskVars
<1>2. /\ SetupRuns /\ run.todo # << >> /\ SetupStep = s /\ LeftInv /\ DoneInv /\ FastInv /\ DiskTypes
      /\ run \in RunRec /\ (helper.owner # "other" => helper.ours) /\ s \notin run.ticks
  BY <1>1, StepAtFacts
<1>3. /\ s \in AllSteps /\ s \notin Crates \cup {"drop"} /\ s \in Slow /\ s \in Optional /\ s # "setuid"
  BY StepNamesApart DEF Slow, Optional
<1>4. /\ groups' \subseteq {"dialout", "video"} /\ setupFaults \in Nat /\ extras \subseteq Optional
      /\ venv' \in {"none", "bare", "pip", "full"}
  BY <1>1, <1>2 DEF DiskTypes
<1>5. CASE ~Will(s) /\ Skip /\ UNCHANGED <<machine, diskVars, runsLeft, setupFaults>>
  <2>1. (run.kind = "rust" => run'.used = {}) /\ extras' = extras
    BY <1>2, <1>5, SkippedRun DEF FastInv, diskVars
  <2> QED BY <1>1, <1>2, <1>3, <1>4, <1>5, <2>1, SkippedRun, InertStep DEF LeftInv, DoneInv
<1>6. CASE Will(s) /\ extras' = extras \union {s} /\ Passed({s}) /\ UNCHANGED setupFaults
  <2>1. run.kind # "rust"
    BY <1>6 DEF Will, OnTheFastPath
  <2>2. {s} \in SUBSET (AllSteps \cup {"venv"})
    BY <1>3
  <2>3. /\ run'.ticks \subseteq run'.did \cup {"venv"} /\ ("setuid" \in run'.ticks => "setuid" \in run.ticks)
        /\ run'.ticks \cap Optional \subseteq extras' /\ extras' \subseteq Optional
    <3>1. /\ run'.ticks = run.ticks \cup {s} /\ run'.did = run.did \cup {s}
          /\ run.ticks \subseteq run.did \cup {"venv"} /\ run.ticks \cap Optional \subseteq extras
      BY <1>2, <1>6, <2>2, PassedRun DEF LeftInv, DoneInv
    <3>2. "setuid" \in run'.ticks => "setuid" \in run.ticks
      BY ONLY <1>3, <3>1
    <3>3. run'.ticks \subseteq run'.did \cup {"venv"}
      BY ONLY <3>1
    <3>4. run'.ticks \cap Optional \subseteq extras' /\ extras' \subseteq Optional
      BY ONLY <1>3, <1>4, <1>6, <3>1
    <3> QED BY <3>2, <3>3, <3>4
  <2> QED BY <1>1, <1>2, <1>3, <1>4, <1>6, <2>1, <2>2, <2>3, PassedRun, InertStep
<1>7. CASE Will(s) /\ FaultedOn({}) /\ extras' \in {extras} \union IF s = "zigplug" THEN {extras \ {s}} ELSE {}
  <2>1. run.kind # "rust"
    BY <1>7 DEF Will, OnTheFastPath
  <2>2. {} \in SUBSET (AllSteps \cup {"venv"}) /\ (extras' = extras \/ extras' = extras \ {s})
    BY <1>7
  <2>3. /\ run'.ticks \subseteq run'.did \cup {"venv"} /\ ("setuid" \in run'.ticks => "setuid" \in run.ticks)
        /\ run'.ticks \cap Optional \subseteq extras' /\ extras' \subseteq Optional
    BY <1>2, <1>3, <1>4, <1>7, <2>2, FaultedRun DEF LeftInv, DoneInv
  <2> QED BY <1>1, <1>2, <1>3, <1>4, <1>7, <2>1, <2>2, <2>3, FaultedRun, InertStep
<1> QED BY <1>5, <1>6, <1>7 DEF ToolStep, ToolStepUngated

-----------------------------------------------------------------------------
\* Between runs.
LEMMA NoRunFacts == NoRun \in RunRec /\ NoRun.kind = "none" /\ NoRun.result = "none" /\ NoRun.did = {} /\ NoRun.ticks = {}
                    /\ NoRun.used = {} /\ NoRun.faults = 0 /\ NoRun.skillsOk = FALSE
BY DEF NoRun, RunRec

LEMMA ForgottenStep ==
  ASSUME DiskTypes', helper'.owner # "other" => helper'.ours, run' = NoRun
  PROVE  SetupInv'
<1>1. run' \in RunRec /\ run'.kind = "none" /\ run'.result = "none"
  BY NoRunFacts
<1> QED BY <1>1 DEF SetupInv, Standing, FastInv

LEMMA StartStep == ASSUME SetupInv, NEW kind \in {"full", "rust", "packaged"}, StartRun(kind) PROVE SetupInv'
<1> DEFINE t == Todo(kind, machine.os)
<1>1. /\ run' = [NoRun EXCEPT !.kind = kind, !.todo = t, !.result = "running"] /\ runsLeft' = runsLeft - 1 /\ runsLeft > 0
      /\ UNCHANGED <<machine, rev, libexec, stale, helper, groups, venv, extras, skillRev, setupFaults>>
  BY DEF StartRun, diskVars
<1>2. DiskTypes /\ machine.os \in {"macos", "linux"} /\ (helper.owner # "other" => helper.ours)
  BY SetupAssumption DEF SetupInv, DiskTypes
<1>3. Listed(t) /\ t \in Seq(AllSteps) /\ (kind # "packaged" => Needed \subseteq Range(t))
  BY <1>2, TodoListed DEF Listed
<1> HIDE DEF t
<1>4. /\ run' \in RunRec /\ run'.kind = kind /\ run'.todo = t /\ run'.result = "running" /\ run'.did = {} /\ run'.ticks = {}
      /\ run'.used = {} /\ run'.skillsOk = FALSE
  BY <1>1, <1>3, NoRunFacts DEF RunRec
<1>5. DiskTypes'
  BY <1>1, <1>2 DEF DiskTypes
<1>6. LeftInv' /\ DoneInv' /\ FastInv'
  BY <1>3, <1>4 DEF LeftInv, DoneInv, FastInv
<1> QED BY <1>1, <1>2, <1>4, <1>5, <1>6 DEF SetupInv

LEMMA EndStep == ASSUME SetupInv, EndRun PROVE SetupInv'
<1>1. /\ SetupRuns /\ run.todo = << >> /\ run' = [run EXCEPT !.result = "complete"]
      /\ UNCHANGED <<machine, rev, libexec, stale, helper, groups, venv, extras, skillRev, runsLeft, setupFaults>>
  BY DEF EndRun, diskVars
<1>2. /\ DiskTypes /\ run \in RunRec /\ LeftInv /\ DoneInv /\ FastInv /\ (helper.owner # "other" => helper.ours)
  BY <1>1 DEF SetupInv, Standing, SetupRuns
<1>3. /\ run' \in RunRec /\ run'.kind = run.kind /\ run'.todo = run.todo /\ run'.result = "complete" /\ run'.did = run.did
      /\ run'.ticks = run.ticks /\ run'.used = run.used /\ run'.skillsOk = run.skillsOk /\ run'.faults = run.faults
  BY <1>1, <1>2 DEF RunRec
<1>4. DiskTypes'
  BY <1>1, <1>2 DEF DiskTypes
<1>5. LeftInv' /\ FastInv'
  BY <1>2, <1>3 DEF LeftInv, FastInv
<1>6. DoneInv'
  BY <1>1, <1>2, <1>3 DEF DoneInv
<1> QED BY <1>1, <1>2, <1>3, <1>4, <1>5, <1>6 DEF SetupInv

LEMMA KilledStep == ASSUME SetupInv, RunKilled PROVE SetupInv'
<1>1. /\ SetupFault /\ run' = [run EXCEPT !.result = "killed", !.todo = << >>]
      /\ UNCHANGED <<machine, rev, libexec, stale, groups, venv, extras, skillRev, runsLeft>>
  BY DEF RunKilled
<1>2. DiskTypes /\ helper \in HelperRec /\ (helper.owner # "other" => helper.ours)
  BY DEF SetupInv, DiskTypes
<1>3. helper' \in HelperRec /\ (helper'.owner # "other" => helper'.ours)
  <2>1. CASE helper' = helper
    BY <1>2, <2>1
  <2>2. CASE BetweenChownAndChmod
    <3>1. helper.owner # "other" /\ helper' = [helper EXCEPT !.owner = "root"]
      BY <2>2 DEF BetweenChownAndChmod, HelperSafeToSetuid, Chown
    <3>2. helper' \in HelperRec /\ helper'.ours = helper.ours
      BY <1>2, <3>1 DEF HelperRec
    <3> QED BY <1>2, <3>1, <3>2
  <2> QED BY <2>1, <2>2 DEF RunKilled
<1>4. DiskTypes'
  BY <1>1, <1>2, <1>3 DEF DiskTypes, SetupFault
<1> QED BY <1>1, <1>3, <1>4, StoppedStep

LEMMA PullStep == ASSUME SetupInv, Pull PROVE SetupInv'
<1>1. DiskTypes /\ (helper.owner # "other" => helper.ours)
  BY DEF SetupInv
<1>2. DiskTypes'
  BY <1>1, SetupAssumption DEF DiskTypes, Pull
<1> QED BY <1>1, <1>2, ForgottenStep DEF Pull

LEMMA UpgradeStep == ASSUME SetupInv, PackageUpgrade PROVE SetupInv'
<1>1. DiskTypes
  BY DEF SetupInv
<1>2. FreshHelper \in HelperRec /\ FreshHelper.ours
  BY DEF FreshHelper, HelperRec
<1>3. DiskTypes' /\ helper' = FreshHelper /\ run' = NoRun
  BY <1>1, <1>2 DEF DiskTypes, PackageUpgrade
<1> QED BY <1>2, <1>3, ForgottenStep

LEMMA SetupInitInv == SetupInit => SetupInv
<1> SUFFICES ASSUME SetupInit PROVE SetupInv
  OBVIOUS
<1> DEFINE f == machine.foreign
           o == IF f THEN "other" ELSE "user"
           u == ~f
<1>1. machine \in SetupHosts /\ f \in BOOLEAN
  BY SetupAssumption DEF SetupInit
<1>2. helper = [owner |-> o, suid |-> FALSE, ours |-> u]
  BY DEF SetupInit
<1>3. o \in {"user", "root", "other"} /\ u \in BOOLEAN /\ (o # "other" => u)
  BY <1>1
<1> HIDE DEF o, u, f
<1>4. helper \in HelperRec /\ (helper.owner # "other" => helper.ours)
  BY <1>2, <1>3 DEF HelperRec
<1>5. /\ rev \in 1..MaxRev /\ libexec \in [Crates -> Revs] /\ skillRev \in [Skills -> Revs] /\ stale \in [Crates -> Revs]
  <2>1. 0 \in Revs /\ 1 \in Revs /\ 1 \in 1..MaxRev
    BY SetupAssumption DEF Revs
  <2> QED BY <2>1 DEF SetupInit
<1>6. DiskTypes
  BY <1>1, <1>4, <1>5, SetupAssumption DEF SetupInit, DiskTypes
<1>7. run = NoRun
  BY DEF SetupInit
<1> QED BY <1>4, <1>6, <1>7, NoRunFacts DEF SetupInv, Standing, FastInv

\* What a run has done is on the disk, and what is left of its list is in order.
THEOREM SetupInvariant == SetupSpec => []SetupInv
<1>1. ASSUME SetupInv, [SetupNext]_setupVars PROVE SetupInv'
  <2>1. CASE \E inRepo \in BOOLEAN : \E kind \in RunKinds(inRepo) : StartRun(kind)
    <3>1. PICK inRepo \in BOOLEAN : \E kind \in RunKinds(inRepo) : StartRun(kind)
      BY <2>1
    <3>2. PICK kind \in RunKinds(inRepo) : StartRun(kind)
      BY <3>1
    <3>3. kind \in {"full", "rust", "packaged"}
      BY <3>2 DEF RunKinds
    <3> QED BY <1>1, <3>2, <3>3, StartStep
  <2>2. CASE ToolStep("zigplug")
    BY <1>1, <2>2, ToolStepInv
  <2>3. CASE ToolStep("jetkvm")
    BY <1>1, <2>3, ToolStepInv
  <2>4. CASE UNCHANGED setupVars
    <3>1. UNCHANGED <<machine, rev, libexec, stale, helper, groups, venv, extras, skillRev, run, runsLeft, setupFaults>>
      BY <2>4 DEF setupVars, diskVars
    <3>2. DiskTypes'
      BY <1>1, <3>1 DEF SetupInv, DiskTypes
    <3>3. (LeftInv <=> LeftInv') /\ (DoneInv <=> DoneInv') /\ (FastInv <=> FastInv')
      BY <3>1 DEF LeftInv, DoneInv, FastInv
    <3> QED BY <1>1, <3>1, <3>2, <3>3 DEF SetupInv, Standing
  <2> QED BY <1>1, <2>1, <2>2, <2>3, <2>4, GroupsStep, CrateStep, CliStep, SkillsStep, DropStep, SetuidStep, OcrStep,
             EndStep, KilledStep, PullStep, UpgradeStep DEF SetupNext
<1> QED BY <1>1, SetupInitInv, PTL DEF SetupSpec

\* Outside a checkout, the user's directory, the system's, then the plugins.
LEMMA UserIsSearched ==
  /\ SearchPath(SkillsDirs(FALSE), <<"plugin">>) = <<"user", "system", "plugin">>
  /\ \A s \in Held("user") : s \in DOMAIN DiscoverSkills(FALSE)
<1> DEFINE p == <<"user", "system", "plugin">>
<1>1. SearchPath(SkillsDirs(FALSE), <<"plugin">>) = p
  <2>1. SkillsDirs(FALSE) = << >> \o <<"user", "system">>
    BY DEF SkillsDirs
  <2>2. << >> \o <<"user", "system">> = <<"user", "system">>
    OBVIOUS
  <2>3. <<"user", "system">> \o <<"plugin">> = p
    <3> DEFINE S == {"user", "system", "plugin"}
               u == <<"user", "system">>
               q == <<"plugin">>
    <3>1. /\ u \in Seq(S) /\ q \in Seq(S) /\ p \in Seq(S) /\ Len(u) = 2 /\ Len(q) = 1 /\ Len(p) = 3
          /\ u[1] = p[1] /\ u[2] = p[2] /\ q[1] = p[3]
      OBVIOUS
    <3> HIDE DEF S, u, q, p
    <3>0. /\ u \o q \in Seq(S) /\ Len(u \o q) = Len(u) + Len(q)
          /\ \A i \in 1..(Len(u) + Len(q)) : (u \o q)[i] = IF i <= Len(u) THEN u[i] ELSE q[i - Len(u)]
      BY ONLY <3>1, ConcatProperties
    <3>2. u \o q \in Seq(S) /\ Len(u \o q) = 3 /\ \A i \in 1..3 : (u \o q)[i] = IF i <= 2 THEN u[i] ELSE q[i - 2]
      BY ONLY <3>0, <3>1
    <3>3. \A i \in 1..3 : i = 1 \/ i = 2 \/ i = 3
      OBVIOUS
    <3>4. \A i \in 1..3 : (u \o q)[i] = p[i]
      BY <3>1, <3>2, <3>3
    <3>5. u \o q = p
      BY <3>1, <3>2, <3>4, SeqEqual
    <3> QED BY <3>5 DEF u, q
  <2> QED BY <2>1, <2>2, <2>3 DEF SearchPath
<1>2. DOMAIN DiscoverSkills(FALSE) = UNION {Held(p[i]) : i \in DOMAIN p}
  BY <1>1 DEF DiscoverSkills, DiscoverIn
<1>3. 1 \in DOMAIN p /\ p[1] = "user"
  OBVIOUS
<1> HIDE DEF p
<1>4. \A s \in Held("user") : s \in DOMAIN DiscoverSkills(FALSE)
  BY <1>2, <1>3
<1> QED BY <1>1, <1>4 DEF p

\* The first directory on the path that holds a skill is the one it is shown from.
LEMMA FoundFirst ==
  ASSUME DiskTypes, NEW s \in DOMAIN DiscoverSkills(FALSE)
  PROVE  /\ DiscoverSkills(FALSE)[s] = "plugin" => s \notin Held("user") \union machine.system
         /\ s \in Held("user") => DiscoverSkills(FALSE)[s] = "user"
<1> DEFINE p == <<"user", "system", "plugin">>
           First(i) == i \in DOMAIN p /\ s \in Held(p[i]) /\ \A j \in 1..(i - 1) : s \notin Held(p[j])
           k == CHOOSE i \in DOMAIN p : s \in Held(p[i]) /\ \A j \in 1..(i - 1) : s \notin Held(p[j])
<1>1. SearchPath(SkillsDirs(FALSE), <<"plugin">>) = p
  BY UserIsSearched
<1>2. /\ DOMAIN DiscoverSkills(FALSE) = UNION {Held(p[i]) : i \in DOMAIN p}
      /\ DiscoverSkills(FALSE)[s] = p[k]
  BY <1>1 DEF DiscoverSkills, DiscoverIn
<1>3. DOMAIN p = 1..3 /\ p[1] = "user" /\ p[2] = "system" /\ p[3] = "plugin"
  OBVIOUS
<1>4. Held("system") = machine.system
  BY DEF Held
<1>5. \E i \in DOMAIN p : s \in Held(p[i])
  BY <1>2
<1> HIDE DEF p
<1>6. \E i \in DOMAIN p : s \in Held(p[i]) /\ \A j \in 1..(i - 1) : s \notin Held(p[j])
  <2>1. CASE s \in Held(p[1])
    BY <1>3, <2>1
  <2>2. CASE s \notin Held(p[1]) /\ s \in Held(p[2])
    <3>1. \A j \in 1..(2 - 1) : j = 1
      OBVIOUS
    <3> QED BY <1>3, <2>2, <3>1
  <2>3. CASE s \notin Held(p[1]) /\ s \notin Held(p[2])
    <3>1. \A j \in 1..(3 - 1) : j = 1 \/ j = 2
      OBVIOUS
    <3>2. s \in Held(p[3])
      BY <1>3, <1>5, <2>3
    <3> QED BY <1>3, <2>3, <3>1, <3>2
  <2> QED BY <2>1, <2>2, <2>3
<1>7. k \in DOMAIN p /\ s \in Held(p[k]) /\ \A j \in 1..(k - 1) : s \notin Held(p[j])
  BY <1>6
<1> HIDE DEF k
<1>8. k = 1 \/ k = 2 \/ k = 3
  BY <1>3, <1>7
<1>9. p[k] = "plugin" => k = 3
  BY <1>3, <1>8
<1>10. k = 3 => s \notin Held(p[1]) /\ s \notin Held(p[2])
  BY <1>7
<1>11. s \in Held(p[1]) => k = 1
  <2>1. k # 1 => 1 \in 1..(k - 1)
    BY <1>8
  <2> QED BY <1>7, <2>1
<1> QED BY <1>2, <1>3, <1>4, <1>9, <1>10, <1>11

\* Across failed, killed and repeated runs, only paniolo's own helper is promoted, what a run
\* says it did stands, and nothing stale shadows it (setup.rs, skills.rs).
THEOREM SetupAlwaysSafe == SetupSpec => []SetupIsSafe
<1>1. SetupInv => SetupIsSafe
  <2> SUFFICES ASSUME SetupInv PROVE SetupIsSafe
    OBVIOUS
  <2>0. DiskTypes /\ run \in RunRec /\ (helper.owner # "other" => helper.ours) /\ FastInv
        /\ (run.result = "complete" => run.todo = << >> /\ LeftInv /\ DoneInv)
    BY DEF SetupInv, Standing
  <2>1. SetupTypeOK
    <3>1. helper.owner \in {"user", "root", "other"} /\ run.result \in {"none", "running", "complete", "failed", "killed"}
      BY <2>0 DEF DiskTypes, HelperRec, RunRec
    <3> QED BY <2>0, <3>1 DEF SetupTypeOK, DiskTypes, Revs, Optional
  <2>2. PromotedIsOurs
    BY <2>0 DEF PromotedIsOurs
  <2>3. run.result = "complete" => Range(run.todo) = {}
    BY <2>0 DEF Range
  <2>4. NoSkewAfterSetup
    <3> SUFFICES ASSUME run.result = "complete" PROVE NoSkewAfterSetup
      BY DEF NoSkewAfterSetup
    <3>1. run.kind # "packaged" => Needed \subseteq run.did
      BY <2>0, <2>3 DEF RunRec, LeftInv
    <3>2. ASSUME run.kind # "packaged", NEW c \in Crates
          PROVE  ResolvedCrate(c) = rev /\ (run.faults = 0 => stale[c] = 0)
      <4>1. c \in run.did /\ "drop" \in run.did
        BY <3>1, <3>2 DEF Needed
      <4>2. libexec[c] = rev /\ rev # 0 /\ (run.faults = 0 => stale[c] = 0)
        BY <2>0, <4>1, SetupAssumption DEF DoneInv, DiskTypes
      <4> QED BY <4>2 DEF ResolvedCrate
    <3> QED BY <2>0, <3>2 DEF NoSkewAfterSetup, DoneInv, Optional
  <2>5. FastPathIsHonest
    <3> SUFFICES ASSUME run.kind = "rust" PROVE FastPathIsHonest
      BY DEF FastPathIsHonest
    <3> DEFINE S == Range(SourceSteps(machine.os))
    <3>1. machine.os \in {"macos", "linux"}
      BY <2>0, SetupAssumption DEF DiskTypes
    <3>2. S \subseteq Slow \cup {"skills", "drop"}
      <4>1. S = Range(GroupSteps(machine.os)) \cup Range(AfterBuild(machine.os))
        BY <3>1, ShortLists, JoinFacts DEF SourceSteps
      <4> QED BY <3>1, <4>1, ShortLists DEF Slow, SetupSteps
    <3>3. \A s \in Slow : s \notin {"skills", "drop"} /\ s \notin run.did
      BY <2>0 DEF FastInv, Slow
    <3>4. run.result = "complete" => {"skills", "drop"} \subseteq run.did
      BY <2>0, <2>3 DEF LeftInv, Needed
    <3>5. RustOnlySkips(machine.os) = {s \in S : s \notin {"skills", "drop"}}
      BY DEF RustOnlySkips, OnTheFastPath
    <3> HIDE DEF S
    <3>6. run.result = "complete" => \A s \in S : s \notin {"skills", "drop"} <=> s \notin run.did
      BY <3>2, <3>3, <3>4
    <3>7. run.result = "complete" => RustOnlySkips(machine.os) = S \ run.did
      BY <3>5, <3>6
    <3> QED BY <2>0, <3>7 DEF FastPathIsHonest, FastInv, S
  <2>6. GuideIsBundled
    <3>1. ASSUME run.skillsOk, run.result = "complete", NEW s \in Skills
          PROVE  skillRev[s] = rev /\ DiscoverSkills(FALSE)[s] = "user"
      <4>1. skillRev[s] = rev /\ rev # 0
        BY <2>0, <3>1, SetupAssumption DEF DoneInv, DiskTypes
      <4>2. s \in Held("user")
        BY <4>1 DEF Held
      <4>3. s \in DOMAIN DiscoverSkills(FALSE)
        BY <4>2, UserIsSearched
      <4> QED BY <2>0, <4>1, <4>2, <4>3, FoundFirst
    <3> QED BY <2>0, <3>1, FoundFirst DEF GuideIsBundled
  <2> QED BY <2>1, <2>2, <2>4, <2>5, <2>6 DEF SetupIsSafe
<1> QED BY <1>1, SetupInvariant, PTL

-----------------------------------------------------------------------------
(***************************************************************************)
(* Commands dispatched over ssh, for any commands side by side.            *)
(*                                                                         *)
(* CallGood says what is so of a command at each of its steps: what it has *)
(* read, whether it acted, and that the capture file of one under way is   *)
(* there and never older than the command itself, which is why no other    *)
(* command's sweep takes it.                                               *)
(***************************************************************************)
CallSteps == {"ship", "env", "temp", "start", "running", "clean", "ended", "killed"}
Codes == {-1, 0, 3, 101, 109, 255}
CallRec == [at : CallSteps, read : Calls \cup {"none"}, code : Codes, exit : {-1, 0, 3, 4, 101, 109},
            did : BOOLEAN, age : Nat]
TempRec == [of : Calls, age : 0..MaxAge, part : BOOLEAN]
UnderWay == {"start", "running", "clean"}

CallGood(c, k, T) ==
  /\ k.read \in {"none", c}
  /\ k.at # "ended" => k.exit = -1
  /\ k.at \notin {"clean", "ended", "killed"} => k.code = -1
  /\ k.code = 0 => k.did = TRUE
  /\ k.code \in {-1, 3, 101, 109} => k.did = FALSE
  /\ k.exit = 0 => k.code = 0
  /\ k.exit = 101 => k.code = 101
  /\ k.exit \in {3, 109} => k.did = FALSE
  /\ k.at \in {"ship", "env", "temp"} => k.age = 0 /\ \A t \in T : t.of # c
  /\ k.at \in UnderWay =>
       /\ k.age <= RunsFor
       /\ \A t \in T : t.of = c => t.age <= k.age
       /\ mode[c] = "to_file" => \E t \in T : t.of = c
  /\ k.at = "clean" /\ k.code = 0 => \A t \in T : t.of = c => t.part = FALSE

SlicesGood == DOMAIN slices \subseteq Calls /\ \A n \in DOMAIN slices : slices[n] = n
OutGood == out.of \in Calls \cup {"before"} /\ out.whole = TRUE
StreamGood ==
  stream.kind = "env" => stream.env \in Envs /\ stream.input \in Inputs
CallInv ==
  /\ call \in [Calls -> CallRec] /\ temps \subseteq TempRec /\ net \in {"up", "down"}
  /\ SlicesGood /\ OutGood
  /\ \A c \in Calls : CallGood(c, call[c], temps)
DispatchInv == CallInv /\ StreamGood

-----------------------------------------------------------------------------
LEMMA FreshTyped == Fresh \in CallRec
BY DEF Fresh, CallRec, CallSteps, Codes

LEMMA DispatchInitInv == DispatchInit /\ StreamInit => DispatchInv
<1> SUFFICES ASSUME DispatchInit, StreamInit PROVE DispatchInv
  OBVIOUS
<1>1. /\ call = [c \in Calls |-> Fresh] /\ slices = [n \in {} |-> "none"] /\ temps = {} /\ net = "up"
      /\ out = [of |-> "before", whole |-> TRUE]
  BY DEF DispatchInit
<1>2. SlicesGood /\ OutGood
  BY <1>1 DEF SlicesGood, OutGood
<1>3. ASSUME NEW c \in Calls PROVE CallGood(c, call[c], temps)
  BY <1>1 DEF CallGood, Fresh, UnderWay
<1>4. CallInv
  BY <1>1, <1>2, <1>3, FreshTyped DEF CallInv
<1>5. StreamGood
  BY DEF StreamInit, StreamGood
<1> QED BY <1>4, <1>5 DEF DispatchInv

\* What another command does to the capture files leaves a command as it was.
LEMMA OthersKeep ==
  ASSUME NEW c \in Calls, NEW k \in CallRec, NEW S \in SUBSET TempRec, NEW T \in SUBSET TempRec, CallGood(c, k, S),
         \A t \in T : t.of = c => t \in S,
         \A t \in S : t.of = c /\ t.age <= StaleAge => t \in T
  PROVE  CallGood(c, k, T)
<1>1. RunsFor \in Nat /\ StaleAge \in Nat /\ RunsFor < StaleAge
  BY DispatchAssumption
<1>2. k.at \in {"ship", "env", "temp"} => k.age = 0 /\ \A t \in T : t.of # c
  BY DEF CallGood
<1>3. ASSUME k.at \in UnderWay
      PROVE  /\ k.age <= RunsFor
             /\ \A t \in T : t.of = c => t.age <= k.age
             /\ mode[c] = "to_file" => \E t \in T : t.of = c
  <2>1. k.age <= RunsFor /\ (\A t \in S : t.of = c => t.age <= k.age) /\ (mode[c] = "to_file" => \E t \in S : t.of = c)
    BY <1>3 DEF CallGood
  <2>2. ASSUME mode[c] = "to_file" PROVE \E t \in T : t.of = c
    <3>1. PICK t \in S : t.of = c
      BY <2>1, <2>2
    <3>2. t.age \in Nat /\ k.age \in Nat
      BY DispatchAssumption DEF TempRec, CallRec
    <3>3. t.age <= StaleAge
      BY <1>1, <2>1, <3>1, <3>2
    <3> QED BY <3>1, <3>3
  <2> QED BY <2>1, <2>2
<1>4. k.at = "clean" /\ k.code = 0 => \A t \in T : t.of = c => t.part = FALSE
  BY DEF CallGood
<1> QED BY <1>2, <1>3, <1>4 DEF CallGood

\* One command moves, and touches no capture file of another but an old one.
LEMMA OneCallMoves ==
  ASSUME CallInv, NEW c \in Calls, UNCHANGED mode,
         call' \in [Calls -> CallRec], \A d \in Calls \ {c} : call'[d] = call[d],
         temps' \subseteq TempRec, net' \in {"up", "down"}, SlicesGood', OutGood',
         \A t \in temps' : t.of # c => t \in temps,
         \A t \in temps : t.of # c /\ t.age <= StaleAge => t \in temps',
         CallGood(c, call'[c], temps')
  PROVE  CallInv'
<1>1. ASSUME NEW d \in Calls PROVE CallGood(d, call'[d], temps')
  <2>1. CASE d = c
    BY <2>1
  <2>2. CASE d # c
    <3>1. CallGood(d, call[d], temps) /\ call'[d] = call[d] /\ call[d] \in CallRec /\ temps \subseteq TempRec
      BY <2>2 DEF CallInv
    <3> HIDE DEF CallInv
    <3>2. (\A t \in temps' : t.of = d => t \in temps) /\ (\A t \in temps : t.of = d /\ t.age <= StaleAge => t \in temps')
      BY <2>2
    <3> QED BY <3>1, <3>2, OthersKeep
  <2> QED BY <2>1, <2>2
<1>2. ASSUME NEW d \in Calls PROVE CallGood(d, call[d], temps)'
  BY <1>1 DEF CallGood
<1> QED BY <1>2 DEF CallInv

\* The fields a step of a command may change.
LEMMA CallTo ==
  ASSUME call \in [Calls -> CallRec], NEW c \in Calls, NEW to \in CallSteps, CallGoes(c, to)
  PROVE  /\ call' \in [Calls -> CallRec] /\ \A d \in Calls \ {c} : call'[d] = call[d]
         /\ call'[c].at = to /\ call'[c].read = call[c].read /\ call'[c].code = call[c].code
         /\ call'[c].exit = call[c].exit /\ call'[c].did = call[c].did /\ call'[c].age = call[c].age
<1> DEFINE k == [call[c] EXCEPT !.at = to]
<1>1. call' = [call EXCEPT ![c] = k] /\ call[c] \in CallRec
  BY DEF CallGoes
<1>2. /\ k \in CallRec /\ k.at = to /\ k.read = call[c].read /\ k.code = call[c].code /\ k.exit = call[c].exit
      /\ k.did = call[c].did /\ k.age = call[c].age
  BY <1>1 DEF CallRec
<1> HIDE DEF k
<1> QED BY <1>1, <1>2

LEMMA TwoFields ==
  ASSUME NEW f, NEW c \in DOMAIN f, NEW a, NEW e
  PROVE  [f EXCEPT ![c].at = a, ![c].exit = e] = [f EXCEPT ![c] = [[f[c] EXCEPT !.at = a] EXCEPT !.exit = e]]
OBVIOUS

LEMMA CallEnds ==
  ASSUME call \in [Calls -> CallRec], NEW c \in Calls, NEW e \in {-1, 0, 3, 4, 101, 109}, Ends(c, e)
  PROVE  /\ call' \in [Calls -> CallRec] /\ \A d \in Calls \ {c} : call'[d] = call[d]
         /\ call'[c].at = "ended" /\ call'[c].read = call[c].read /\ call'[c].code = call[c].code
         /\ call'[c].exit = e /\ call'[c].did = call[c].did /\ call'[c].age = call[c].age
<1> DEFINE j == [call[c] EXCEPT !.at = "ended"]
           k == [j EXCEPT !.exit = e]
<1>0. call' = [call EXCEPT ![c].at = "ended", ![c].exit = e]
  BY DEF Ends
<1>a. call' = [call EXCEPT ![c] = k]
  BY <1>0, TwoFields
<1>1. call' = [call EXCEPT ![c] = k] /\ call[c] \in CallRec
  BY <1>a
<1>2. /\ j \in CallRec /\ j.at = "ended" /\ j.read = call[c].read /\ j.code = call[c].code
      /\ j.did = call[c].did /\ j.age = call[c].age
  BY <1>1 DEF CallRec, CallSteps
<1> HIDE DEF j
<1>3. /\ k \in CallRec /\ k.at = "ended" /\ k.read = call[c].read /\ k.code = call[c].code /\ k.exit = e
      /\ k.did = call[c].did /\ k.age = call[c].age
  BY <1>2 DEF CallRec
<1> HIDE DEF k
<1> QED BY <1>1, <1>3

LEMMA CallReads ==
  ASSUME call \in [Calls -> CallRec], NEW c \in Calls, NEW r \in Calls \cup {"none"},
         call' = [call EXCEPT ![c].at = "running", ![c].read = r]
  PROVE  /\ call' \in [Calls -> CallRec] /\ \A d \in Calls \ {c} : call'[d] = call[d]
         /\ call'[c].at = "running" /\ call'[c].read = r /\ call'[c].code = call[c].code
         /\ call'[c].exit = call[c].exit /\ call'[c].did = call[c].did /\ call'[c].age = call[c].age
<1> DEFINE j == [call[c] EXCEPT !.at = "running"]
           k == [j EXCEPT !.read = r]
<1>1. call' = [call EXCEPT ![c] = k] /\ call[c] \in CallRec
  OBVIOUS
<1>2. /\ j \in CallRec /\ j.at = "running" /\ j.code = call[c].code /\ j.exit = call[c].exit
      /\ j.did = call[c].did /\ j.age = call[c].age
  BY <1>1 DEF CallRec, CallSteps
<1> HIDE DEF j
<1>3. /\ k \in CallRec /\ k.at = "running" /\ k.read = r /\ k.code = call[c].code /\ k.exit = call[c].exit
      /\ k.did = call[c].did /\ k.age = call[c].age
  BY <1>2 DEF CallRec
<1> HIDE DEF k
<1> QED BY <1>1, <1>3

\* The command is over here; whether it acted is as it was, or comes with the answer.
LEMMA CallIsOver ==
  ASSUME call \in [Calls -> CallRec], NEW c \in Calls, NEW code \in Codes,
         call' = [call EXCEPT ![c].at = "clean", ![c].code = code]
  PROVE  /\ call' \in [Calls -> CallRec] /\ \A d \in Calls \ {c} : call'[d] = call[d]
         /\ call'[c].at = "clean" /\ call'[c].read = call[c].read /\ call'[c].code = code
         /\ call'[c].exit = call[c].exit /\ call'[c].did = call[c].did /\ call'[c].age = call[c].age
<1> DEFINE i == [call[c] EXCEPT !.at = "clean"]
           j == [i EXCEPT !.code = code]
<1>1. call' = [call EXCEPT ![c] = j] /\ call[c] \in CallRec
  OBVIOUS
<1>2. /\ i \in CallRec /\ i.at = "clean" /\ i.read = call[c].read /\ i.exit = call[c].exit
      /\ i.did = call[c].did /\ i.age = call[c].age
  BY <1>1 DEF CallRec, CallSteps
<1> HIDE DEF i
<1>3. /\ j \in CallRec /\ j.at = "clean" /\ j.read = call[c].read /\ j.code = code /\ j.exit = call[c].exit
      /\ j.did = call[c].did /\ j.age = call[c].age
  BY <1>2 DEF CallRec
<1> HIDE DEF j
<1> QED BY <1>1, <1>3

LEMMA CallDid ==
  ASSUME call \in [Calls -> CallRec], NEW c \in Calls, NEW code \in Codes,
         call' = [call EXCEPT ![c].at = "clean", ![c].code = code, ![c].did = TRUE]
  PROVE  /\ call' \in [Calls -> CallRec] /\ \A d \in Calls \ {c} : call'[d] = call[d]
         /\ call'[c].at = "clean" /\ call'[c].read = call[c].read /\ call'[c].code = code
         /\ call'[c].exit = call[c].exit /\ call'[c].did = TRUE /\ call'[c].age = call[c].age
<1> DEFINE i == [call[c] EXCEPT !.at = "clean"]
           j == [i EXCEPT !.code = code]
           k == [j EXCEPT !.did = TRUE]
<1>1. call' = [call EXCEPT ![c] = k] /\ call[c] \in CallRec
  OBVIOUS
<1>2. /\ i \in CallRec /\ i.at = "clean" /\ i.read = call[c].read /\ i.exit = call[c].exit /\ i.age = call[c].age
  BY <1>1 DEF CallRec, CallSteps
<1> HIDE DEF i
<1>3. /\ j \in CallRec /\ j.at = "clean" /\ j.read = call[c].read /\ j.code = code /\ j.exit = call[c].exit
      /\ j.age = call[c].age
  BY <1>2 DEF CallRec
<1> HIDE DEF j
<1>4. /\ k \in CallRec /\ k.at = "clean" /\ k.read = call[c].read /\ k.code = code /\ k.exit = call[c].exit
      /\ k.did = TRUE /\ k.age = call[c].age
  BY <1>3 DEF CallRec
<1> HIDE DEF k
<1>5. call'[c] = k /\ \A d \in Calls \ {c} : call'[d] = call[d]
  BY ONLY <1>1, call \in [Calls -> CallRec], c \in Calls
<1>6. call' \in [Calls -> CallRec]
  BY ONLY <1>1, <1>4, call \in [Calls -> CallRec], c \in Calls
<1> QED BY ONLY <1>4, <1>5, <1>6

LEMMA CallDidNot ==
  ASSUME call \in [Calls -> CallRec], NEW c \in Calls, NEW code \in Codes,
         call' = [call EXCEPT ![c].at = "clean", ![c].code = code, ![c].did = FALSE]
  PROVE  /\ call' \in [Calls -> CallRec] /\ \A d \in Calls \ {c} : call'[d] = call[d]
         /\ call'[c].at = "clean" /\ call'[c].read = call[c].read /\ call'[c].code = code
         /\ call'[c].exit = call[c].exit /\ call'[c].did = FALSE /\ call'[c].age = call[c].age
<1> DEFINE i == [call[c] EXCEPT !.at = "clean"]
           j == [i EXCEPT !.code = code]
           k == [j EXCEPT !.did = FALSE]
<1>1. call' = [call EXCEPT ![c] = k] /\ call[c] \in CallRec
  OBVIOUS
<1>2. /\ i \in CallRec /\ i.at = "clean" /\ i.read = call[c].read /\ i.exit = call[c].exit /\ i.age = call[c].age
  BY <1>1 DEF CallRec, CallSteps
<1> HIDE DEF i
<1>3. /\ j \in CallRec /\ j.at = "clean" /\ j.read = call[c].read /\ j.code = code /\ j.exit = call[c].exit
      /\ j.age = call[c].age
  BY <1>2 DEF CallRec
<1> HIDE DEF j
<1>4. /\ k \in CallRec /\ k.at = "clean" /\ k.read = call[c].read /\ k.code = code /\ k.exit = call[c].exit
      /\ k.did = FALSE /\ k.age = call[c].age
  BY <1>3 DEF CallRec
<1> HIDE DEF k
<1>5. call'[c] = k /\ \A d \in Calls \ {c} : call'[d] = call[d]
  BY ONLY <1>1, call \in [Calls -> CallRec], c \in Calls
<1>6. call' \in [Calls -> CallRec]
  BY ONLY <1>1, <1>4, call \in [Calls -> CallRec], c \in Calls
<1> QED BY ONLY <1>4, <1>5, <1>6

\* A step that changes no file.
LEMMA QuietStep ==
  ASSUME CallInv, NEW c \in Calls, UNCHANGED <<mode, temps, out, net>>, SlicesGood',
         call' \in [Calls -> CallRec], \A d \in Calls \ {c} : call'[d] = call[d],
         CallGood(c, call'[c], temps)
  PROVE  CallInv'
<1>1. temps \subseteq TempRec /\ net \in {"up", "down"} /\ OutGood
  BY DEF CallInv
<1>2. temps' = temps /\ net' = net /\ OutGood'
  BY <1>1 DEF OutGood
<1> HIDE DEF CallInv
<1> QED BY <1>1, <1>2, OneCallMoves

-----------------------------------------------------------------------------
LEMMA ShipStep ==
  ASSUME CallInv, NEW c \in Calls, Ship(c), UNCHANGED mode PROVE CallInv'
<1>1. /\ call \in [Calls -> CallRec] /\ SlicesGood /\ CallGood(c, call[c], temps) /\ call[c] \in CallRec
      /\ call[c].at = "ship" /\ UNCHANGED <<mode, temps, out, net>>
  BY DEF CallInv, Ship
<1>2. CASE /\ slices' = [n \in DOMAIN slices \cup {Name(c)} |-> IF n = Name(c) THEN c ELSE slices[n]]
           /\ CallGoes(c, "env")
  <2>1. SlicesGood'
    BY <1>1, <1>2 DEF SlicesGood, Name
  <2>2. /\ call' \in [Calls -> CallRec] /\ \A d \in Calls \ {c} : call'[d] = call[d]
        /\ call'[c].at = "env" /\ call'[c].read = call[c].read /\ call'[c].code = call[c].code
        /\ call'[c].exit = call[c].exit /\ call'[c].did = call[c].did /\ call'[c].age = call[c].age
    BY <1>1, <1>2, CallTo DEF CallSteps
  <2>3. CallGood(c, call'[c], temps)
    BY <1>1, <2>2 DEF CallGood, UnderWay
  <2> QED BY <1>1, <2>1, <2>2, <2>3, QuietStep
<1>3. ASSUME NEW e \in {3, 4}, Ends(c, e), UNCHANGED slices PROVE CallInv'
  <2>1. SlicesGood'
    BY <1>1, <1>3 DEF SlicesGood
  <2>2. /\ call' \in [Calls -> CallRec] /\ \A d \in Calls \ {c} : call'[d] = call[d]
        /\ call'[c].at = "ended" /\ call'[c].read = call[c].read /\ call'[c].code = call[c].code
        /\ call'[c].exit = e /\ call'[c].did = call[c].did /\ call'[c].age = call[c].age
    BY <1>1, <1>3, CallEnds
  <2>3. CallGood(c, call'[c], temps)
    BY <1>1, <1>3, <2>2 DEF CallGood, UnderWay
  <2> QED BY <1>1, <2>1, <2>2, <2>3, QuietStep
<1> QED BY <1>2, <1>3 DEF Ship, Unreachable, NotConfigured

LEMMA EnvironmentStep ==
  ASSUME CallInv, NEW c \in Calls, Environment(c), UNCHANGED mode PROVE CallInv'
<1>1. /\ call \in [Calls -> CallRec] /\ SlicesGood /\ CallGood(c, call[c], temps) /\ call[c] \in CallRec
      /\ call[c].at = "env" /\ UNCHANGED <<mode, slices, temps, out, net>>
  BY DEF CallInv, Environment
<1>2. SlicesGood'
  BY <1>1 DEF SlicesGood
<1>3. ASSUME NEW to \in {"temp", "start"}, CallGoes(c, to), to = "start" => mode[c] # "to_file" PROVE CallInv'
  <2>2. /\ call' \in [Calls -> CallRec] /\ \A d \in Calls \ {c} : call'[d] = call[d]
        /\ call'[c].at = to /\ call'[c].read = call[c].read /\ call'[c].code = call[c].code
        /\ call'[c].exit = call[c].exit /\ call'[c].did = call[c].did /\ call'[c].age = call[c].age
    BY <1>1, <1>3, CallTo DEF CallSteps
  <2>3. CallGood(c, call'[c], temps)
    BY <1>1, <1>3, <2>2, DispatchAssumption DEF CallGood, UnderWay
  <2> QED BY <1>1, <1>2, <2>2, <2>3, QuietStep
<1>4. ASSUME Ends(c, 109) PROVE CallInv'
  <2>2. /\ call' \in [Calls -> CallRec] /\ \A d \in Calls \ {c} : call'[d] = call[d]
        /\ call'[c].at = "ended" /\ call'[c].read = call[c].read /\ call'[c].code = call[c].code
        /\ call'[c].exit = 109 /\ call'[c].did = call[c].did /\ call'[c].age = call[c].age
    BY <1>1, <1>4, CallEnds
  <2>3. CallGood(c, call'[c], temps)
    BY <1>1, <2>2 DEF CallGood, UnderWay
  <2> QED BY <1>1, <1>2, <2>2, <2>3, QuietStep
<1> QED BY <1>3, <1>4 DEF Environment, Internal

LEMMA MakeTempStep ==
  ASSUME CallInv, NEW c \in Calls, MakeTemp(c), UNCHANGED mode PROVE CallInv'
<1> DEFINE new == [of |-> c, age |-> 0, part |-> FALSE]
<1>1. /\ call \in [Calls -> CallRec] /\ SlicesGood /\ OutGood /\ CallGood(c, call[c], temps) /\ call[c] \in CallRec
      /\ call[c].at = "temp" /\ UNCHANGED <<mode, slices, out, net>> /\ temps \subseteq TempRec /\ net \in {"up", "down"}
      /\ temps' = Swept \cup {new} /\ CallGoes(c, "start")
  BY DEF CallInv, MakeTemp
<1>2. SlicesGood' /\ OutGood' /\ net' \in {"up", "down"}
  BY <1>1 DEF SlicesGood, OutGood
<1>3. new \in TempRec /\ new.of = c /\ new.age = 0
  BY DispatchAssumption DEF TempRec
<1> HIDE DEF new
<1>4. /\ call' \in [Calls -> CallRec] /\ \A d \in Calls \ {c} : call'[d] = call[d]
      /\ call'[c].at = "start" /\ call'[c].read = call[c].read /\ call'[c].code = call[c].code
      /\ call'[c].exit = call[c].exit /\ call'[c].did = call[c].did /\ call'[c].age = call[c].age
  BY <1>1, CallTo DEF CallSteps
<1>5. /\ temps' \subseteq TempRec /\ (\A t \in temps' : t.of # c => t \in temps)
      /\ (\A t \in temps : t.of # c /\ t.age <= StaleAge => t \in temps')
  BY <1>1, <1>3 DEF Swept
<1>6. call[c].age = 0 /\ \A t \in temps : t.of # c
  BY <1>1 DEF CallGood
<1>7. \A t \in temps' : t.of = c => t = new
  BY <1>1, <1>6 DEF Swept
<1>8. CallGood(c, call'[c], temps')
  <2>1. call'[c].age <= RunsFor /\ \A t \in temps' : t.of = c => t.age <= call'[c].age
    BY <1>3, <1>4, <1>6, <1>7, DispatchAssumption
  <2>2. \E t \in temps' : t.of = c
    BY <1>1, <1>3
  <2> QED BY <1>1, <1>4, <2>1, <2>2 DEF CallGood, UnderWay
<1> QED BY <1>1, <1>2, <1>4, <1>5, <1>8, OneCallMoves

LEMMA StartSteps ==
  ASSUME CallInv, NEW c \in Calls, Start(c) \/ SshFails(c), UNCHANGED mode PROVE CallInv'
<1>1. /\ call \in [Calls -> CallRec] /\ SlicesGood /\ CallGood(c, call[c], temps) /\ call[c] \in CallRec
      /\ call[c].at = "start" /\ UNCHANGED <<mode, slices, temps, out, net>> /\ call[c].did \in BOOLEAN
  BY DEF CallInv, Start, SshFails, CallRec
<1>2. SlicesGood'
  BY <1>1 DEF SlicesGood
<1>3. ASSUME Name(c) \in DOMAIN slices, call' = [call EXCEPT ![c].at = "running", ![c].read = slices[Name(c)]]
      PROVE  CallInv'
  <2>1. slices[Name(c)] = c
    BY <1>1, <1>3 DEF SlicesGood, Name
  <2>2. /\ call' \in [Calls -> CallRec] /\ \A d \in Calls \ {c} : call'[d] = call[d]
        /\ call'[c].at = "running" /\ call'[c].read = c /\ call'[c].code = call[c].code
        /\ call'[c].exit = call[c].exit /\ call'[c].did = call[c].did /\ call'[c].age = call[c].age
    BY <1>1, <1>3, <2>1, CallReads
  <2>3. CallGood(c, call'[c], temps)
    BY <1>1, <2>2 DEF CallGood, UnderWay
  <2> QED BY <1>1, <1>2, <2>2, <2>3, QuietStep
<1>4. ASSUME NEW code \in {3, 109, 255}, call' = [call EXCEPT ![c].at = "clean", ![c].code = code] PROVE CallInv'
  <2>1. code \in Codes
    BY DEF Codes
  <2>2. /\ call' \in [Calls -> CallRec] /\ \A d \in Calls \ {c} : call'[d] = call[d]
        /\ call'[c].at = "clean" /\ call'[c].read = call[c].read /\ call'[c].code = code
        /\ call'[c].exit = call[c].exit /\ call'[c].did = call[c].did /\ call'[c].age = call[c].age
    BY <1>1, <1>4, <2>1, CallIsOver
  <2>3. CallGood(c, call'[c], temps)
    BY <1>1, <2>2 DEF CallGood, UnderWay
  <2> QED BY <1>1, <1>2, <2>2, <2>3, QuietStep
<1>5. ASSUME Ends(c, 109) PROVE CallInv'
  <2>2. /\ call' \in [Calls -> CallRec] /\ \A d \in Calls \ {c} : call'[d] = call[d]
        /\ call'[c].at = "ended" /\ call'[c].read = call[c].read /\ call'[c].code = call[c].code
        /\ call'[c].exit = 109 /\ call'[c].did = call[c].did /\ call'[c].age = call[c].age
    BY <1>1, <1>5, CallEnds
  <2>3. CallGood(c, call'[c], temps)
    BY <1>1, <2>2 DEF CallGood, UnderWay
  <2> QED BY <1>1, <1>2, <2>2, <2>3, QuietStep
<1> QED BY <1>3, <1>4, <1>5 DEF Start, SshFails, Internal, NotConfigured, TransportFailure

\* The remote command ends: its own capture file is marked, every other one stays as it is.
KeptTemps(c) ==
  /\ \A t \in temps' : t.of # c => t \in temps
  /\ \A t \in temps : t.of # c => t \in temps'
  /\ \A t \in temps' : t.of = c => \E s \in temps : s.of = c /\ s.age = t.age
  /\ (\E t \in temps : t.of = c) => \E t \in temps' : t.of = c

LEMMA OwnWhole ==
  ASSUME temps \subseteq TempRec, NEW c \in Calls, temps' = OwnTemp(c, FALSE)
  PROVE  temps' \subseteq TempRec /\ KeptTemps(c) /\ \A t \in temps' : t.of = c => t.part = FALSE
<1> DEFINE mark(t) == [t EXCEPT !.part = FALSE]
           own(t) == IF t.of = c THEN mark(t) ELSE t
<1>1. ASSUME NEW t \in temps PROVE mark(t) \in TempRec /\ mark(t).of = t.of /\ mark(t).age = t.age /\ mark(t).part = FALSE
  BY DEF TempRec
<1>2. temps' = {own(t) : t \in temps}
  BY DEF OwnTemp
<1> HIDE DEF mark
<1>3. ASSUME NEW t \in temps PROVE own(t) \in TempRec /\ own(t).of = t.of /\ own(t).age = t.age /\ (t.of = c => own(t).part = FALSE)
  BY <1>1
<1>4. ASSUME NEW t \in temps, t.of # c PROVE own(t) = t
  BY <1>4
<1> HIDE DEF own
<1> QED BY <1>2, <1>3, <1>4 DEF KeptTemps

LEMMA OwnPart ==
  ASSUME temps \subseteq TempRec, NEW c \in Calls, temps' = OwnTemp(c, TRUE)
  PROVE  temps' \subseteq TempRec /\ KeptTemps(c)
<1> DEFINE mark(t) == [t EXCEPT !.part = TRUE]
           own(t) == IF t.of = c THEN mark(t) ELSE t
<1>1. ASSUME NEW t \in temps PROVE mark(t) \in TempRec /\ mark(t).of = t.of /\ mark(t).age = t.age
  BY DEF TempRec
<1>2. temps' = {own(t) : t \in temps}
  BY DEF OwnTemp
<1> HIDE DEF mark
<1>3. ASSUME NEW t \in temps PROVE own(t) \in TempRec /\ own(t).of = t.of /\ own(t).age = t.age
  BY <1>1
<1>4. ASSUME NEW t \in temps, t.of # c PROVE own(t) = t
  BY <1>4
<1> HIDE DEF own
<1> QED BY <1>2, <1>3, <1>4 DEF KeptTemps

LEMMA EndsRemotely ==
  ASSUME CallInv, NEW c \in Calls, RemoteEnds(c) \/ Severed(c), UNCHANGED mode PROVE CallInv'
<1>1. /\ call \in [Calls -> CallRec] /\ SlicesGood /\ OutGood /\ CallGood(c, call[c], temps) /\ call[c] \in CallRec
      /\ call[c].at = "running" /\ UNCHANGED <<mode, slices, out, net>> /\ temps \subseteq TempRec /\ net \in {"up", "down"}
  BY DEF CallInv, RemoteEnds, Severed
<1>2. SlicesGood' /\ OutGood' /\ net' \in {"up", "down"}
  BY <1>1 DEF SlicesGood, OutGood
<1>3. ASSUME call' \in [Calls -> CallRec] /\ \A d \in Calls \ {c} : call'[d] = call[d],
             call'[c].at = "clean", call'[c].read = call[c].read, call'[c].exit = call[c].exit, call'[c].age = call[c].age,
             call'[c].code \in {0, 101, 255}, call'[c].code = 0 => call'[c].did = TRUE,
             call'[c].code = 101 => call'[c].did = FALSE, temps' \subseteq TempRec, KeptTemps(c),
             call'[c].code = 0 => \A t \in temps' : t.of = c => t.part = FALSE
      PROVE  CallInv'
  <2>3. /\ \A t \in temps' : t.of # c => t \in temps
        /\ \A t \in temps : t.of # c => t \in temps'
        /\ \A t \in temps' : t.of = c => \E s \in temps : s.of = c /\ s.age = t.age
        /\ (\E t \in temps : t.of = c) => \E t \in temps' : t.of = c
    BY <1>3 DEF KeptTemps
  <2>4. /\ call[c].age <= RunsFor /\ (\A t \in temps : t.of = c => t.age <= call[c].age)
        /\ (mode[c] = "to_file" => \E t \in temps : t.of = c) /\ call[c].read \in {"none", c} /\ call[c].exit = -1
    BY <1>1 DEF CallGood, UnderWay
  <2>5. /\ \A t \in temps' : t.of = c => t.age <= call'[c].age
        /\ mode[c] = "to_file" => \E t \in temps' : t.of = c
    BY <1>3, <2>3, <2>4
  <2>7. CallGood(c, call'[c], temps')
    BY <1>3, <2>4, <2>5 DEF CallGood, UnderWay
  <2> QED BY <1>1, <1>2, <1>3, <2>3, <2>7, OneCallMoves
<1>4. CASE RemoteEnds(c)
  <2>1. PICK code \in {0, 101} :
          call' = [call EXCEPT ![c].at = "clean", ![c].code = code, ![c].did = (code = 0)]
    BY <1>4 DEF RemoteEnds
  <2>2. call'[c].code = code
    BY <1>1, <2>1
  <2>3. temps' = OwnTemp(c, code # 0)
    BY <1>4, <2>2 DEF RemoteEnds
  <2>4. CASE code = 0
    <3>1. call' = [call EXCEPT ![c].at = "clean", ![c].code = 0, ![c].did = TRUE]
      BY <2>1, <2>4
    <3>2. temps' = OwnTemp(c, FALSE)
      BY <2>3, <2>4
    <3>3. temps' \subseteq TempRec /\ KeptTemps(c) /\ \A t \in temps' : t.of = c => t.part = FALSE
      BY <1>1, <3>2, OwnWhole
    <3>4. 0 \in Codes
      BY DEF Codes
    <3>5. call \in [Calls -> CallRec]
      BY <1>1
    <3>6. /\ call' \in [Calls -> CallRec] /\ \A d \in Calls \ {c} : call'[d] = call[d]
          /\ call'[c].at = "clean" /\ call'[c].read = call[c].read /\ call'[c].code = 0
          /\ call'[c].exit = call[c].exit /\ call'[c].did = TRUE /\ call'[c].age = call[c].age
      BY ONLY <3>1, <3>4, <3>5, c \in Calls, CallDid, Zenon
    <3>7. /\ call'[c].code \in {0, 101, 255} /\ (call'[c].code = 0 => call'[c].did = TRUE)
          /\ (call'[c].code = 101 => call'[c].did = FALSE)
          /\ (call'[c].code = 0 => \A t \in temps' : t.of = c => t.part = FALSE)
      BY ONLY <3>3, <3>6
    <3> QED BY ONLY <1>3, <3>3, <3>6, <3>7
  <2>5. CASE code = 101
    <3>0. (code = 0) = FALSE /\ (code # 0) = TRUE
      BY <2>5
    <3>1. call' = [call EXCEPT ![c].at = "clean", ![c].code = 101, ![c].did = FALSE]
      BY <2>1, <2>5, <3>0, Zenon
    <3>2. temps' = OwnTemp(c, TRUE)
      BY <2>3, <3>0, Zenon
    <3>3. temps' \subseteq TempRec /\ KeptTemps(c)
      BY <1>1, <3>2, OwnPart
    <3>4. 101 \in Codes
      BY DEF Codes
    <3>5. call \in [Calls -> CallRec]
      BY <1>1
    <3>6. /\ call' \in [Calls -> CallRec] /\ \A d \in Calls \ {c} : call'[d] = call[d]
          /\ call'[c].at = "clean" /\ call'[c].read = call[c].read /\ call'[c].code = 101
          /\ call'[c].exit = call[c].exit /\ call'[c].did = FALSE /\ call'[c].age = call[c].age
      BY ONLY <3>1, <3>4, <3>5, c \in Calls, CallDidNot, Zenon
    <3>7. /\ call'[c].code \in {0, 101, 255} /\ (call'[c].code = 0 => call'[c].did = TRUE)
          /\ (call'[c].code = 101 => call'[c].did = FALSE)
          /\ (call'[c].code = 0 => \A t \in temps' : t.of = c => t.part = FALSE)
      BY ONLY <3>3, <3>6
    <3> QED BY ONLY <1>3, <3>3, <3>6, <3>7
  <2> QED BY <2>4, <2>5
<1>5. CASE Severed(c)
  <2>1. \/ call' = [call EXCEPT ![c].at = "clean", ![c].code = 255, ![c].did = TRUE]
        \/ call' = [call EXCEPT ![c].at = "clean", ![c].code = 255, ![c].did = FALSE]
    BY <1>5 DEF Severed, TransportFailure
  <2>2. temps' = OwnTemp(c, TRUE)
    BY <1>5 DEF Severed
  <2>3. temps' \subseteq TempRec /\ KeptTemps(c) /\ 255 \in Codes
    BY <1>1, <2>2, OwnPart DEF Codes
  <2>4. /\ call' \in [Calls -> CallRec] /\ \A d \in Calls \ {c} : call'[d] = call[d]
        /\ call'[c].at = "clean" /\ call'[c].read = call[c].read /\ call'[c].code = 255
        /\ call'[c].exit = call[c].exit /\ call'[c].age = call[c].age
    <3>1. call \in [Calls -> CallRec] /\ 255 \in Codes
      BY <1>1, <2>3
    <3>2. CASE call' = [call EXCEPT ![c].at = "clean", ![c].code = 255, ![c].did = TRUE]
      <4>1. /\ call' \in [Calls -> CallRec] /\ \A d \in Calls \ {c} : call'[d] = call[d]
            /\ call'[c].at = "clean" /\ call'[c].read = call[c].read /\ call'[c].code = 255
            /\ call'[c].exit = call[c].exit /\ call'[c].did = TRUE /\ call'[c].age = call[c].age
        BY ONLY <3>1, <3>2, c \in Calls, CallDid, Zenon
      <4> QED BY ONLY <4>1
    <3>3. CASE call' = [call EXCEPT ![c].at = "clean", ![c].code = 255, ![c].did = FALSE]
      <4>1. /\ call' \in [Calls -> CallRec] /\ \A d \in Calls \ {c} : call'[d] = call[d]
            /\ call'[c].at = "clean" /\ call'[c].read = call[c].read /\ call'[c].code = 255
            /\ call'[c].exit = call[c].exit /\ call'[c].did = FALSE /\ call'[c].age = call[c].age
        BY ONLY <3>1, <3>3, c \in Calls, CallDidNot, Zenon
      <4> QED BY ONLY <4>1
    <3> QED BY <2>1, <3>2, <3>3
  <2> QED BY <1>3, <2>3, <2>4
<1> QED BY <1>4, <1>5

LEMMA CleanUpStep ==
  ASSUME CallInv, NEW c \in Calls, CleanUp(c), UNCHANGED mode PROVE CallInv'
<1>1. /\ call \in [Calls -> CallRec] /\ SlicesGood /\ OutGood /\ CallGood(c, call[c], temps) /\ call[c] \in CallRec
      /\ call[c].at = "clean" /\ UNCHANGED <<mode, net>> /\ temps \subseteq TempRec /\ net \in {"up", "down"}
      /\ Captures(c) /\ call[c].code \in Codes
  BY DEF CallInv, CleanUp, CallRec
<1>2. SlicesGood'
  BY <1>1 DEF SlicesGood, CleanUp
<1>3. OutGood'
  <2>1. CASE mode[c] = "to_file" /\ Persists(call[c].code) /\ Mine(c) # {}
    <3>1. \A t \in Mine(c) : t.part = FALSE
      BY <1>1, <2>1 DEF CallGood, Mine, Persists
    <3>2. out' = [of |-> c, whole |-> \A t \in Mine(c) : ~t.part]
      BY <1>1, <2>1 DEF Captures
    <3>3. (\A t \in Mine(c) : ~t.part) = TRUE
      BY <3>1
    <3>4. out' = [of |-> c, whole |-> TRUE]
      BY <3>2, <3>3
    <3> QED BY <3>4 DEF OutGood
  <2>2. CASE ~(mode[c] = "to_file" /\ Persists(call[c].code) /\ Mine(c) # {})
    BY <1>1, <2>2 DEF OutGood, Captures
  <2> QED BY <2>1, <2>2
<1>4. /\ temps' \subseteq TempRec /\ (\A t \in temps' : t.of # c => t \in temps)
      /\ (\A t \in temps : t.of # c /\ t.age <= StaleAge => t \in temps')
  BY <1>1 DEF Captures, Mine
<1>5. ~SavingFails(c)
  BY <1>1 DEF SavingFails, Mine, CallGood, UnderWay
<1>6. Ends(c, TransportChecked(call[c].code))
  BY <1>5 DEF CleanUp
<1> DEFINE e == TransportChecked(call[c].code)
<1>7. /\ e \in {-1, 0, 3, 4, 101, 109} /\ (e = 0 => call[c].code = 0) /\ (e = 101 => call[c].code = 101)
      /\ (e \in {3, 109} => call[c].code = e)
  BY <1>1 DEF TransportChecked, Codes, Unreachable, TransportFailure
<1> HIDE DEF e
<1>8. /\ call' \in [Calls -> CallRec] /\ \A d \in Calls \ {c} : call'[d] = call[d]
      /\ call'[c].at = "ended" /\ call'[c].read = call[c].read /\ call'[c].code = call[c].code
      /\ call'[c].exit = e /\ call'[c].did = call[c].did /\ call'[c].age = call[c].age
  BY <1>1, <1>6, <1>7, CallEnds DEF e
<1>9. CallGood(c, call'[c], temps')
  BY <1>1, <1>7, <1>8 DEF CallGood, UnderWay
<1> QED BY <1>1, <1>2, <1>3, <1>4, <1>8, <1>9, OneCallMoves

LEMMA InterruptStep ==
  ASSUME CallInv, NEW c \in Calls, Interrupted(c), UNCHANGED mode PROVE CallInv'
<1>1. /\ call \in [Calls -> CallRec] /\ SlicesGood /\ CallGood(c, call[c], temps) /\ call[c] \in CallRec
      /\ call[c].at \notin {"ended", "killed"} /\ CallGoes(c, "killed") /\ UNCHANGED <<mode, slices, temps, out, net>>
  BY DEF CallInv, Interrupted
<1>2. SlicesGood'
  BY <1>1 DEF SlicesGood
<1>3. /\ call' \in [Calls -> CallRec] /\ \A d \in Calls \ {c} : call'[d] = call[d]
      /\ call'[c].at = "killed" /\ call'[c].read = call[c].read /\ call'[c].code = call[c].code
      /\ call'[c].exit = call[c].exit /\ call'[c].did = call[c].did /\ call'[c].age = call[c].age
  BY <1>1, CallTo DEF CallSteps
<1>4. CallGood(c, call'[c], temps)
  BY <1>1, <1>3 DEF CallGood, UnderWay
<1> QED BY <1>1, <1>2, <1>3, <1>4, QuietStep

LEMMA NetStep ==
  ASSUME CallInv, NetChanges, UNCHANGED mode PROVE CallInv'
<1>1. UNCHANGED <<call, slices, temps, out, mode>> /\ net' \in {"up", "down"}
  BY DEF NetChanges
<1>2. SlicesGood' /\ OutGood' /\ (call \in [Calls -> CallRec])' /\ (temps \subseteq TempRec)'
  BY <1>1 DEF CallInv, SlicesGood, OutGood
<1>3. ASSUME NEW c \in Calls PROVE CallGood(c, call[c], temps)'
  BY <1>1 DEF CallInv, CallGood
<1> QED BY <1>1, <1>2, <1>3 DEF CallInv

\* Time passes for a command and its capture file alike, so the file stays the younger one.
LEMMA TimeStep ==
  ASSUME CallInv, TimePasses, UNCHANGED mode PROVE CallInv'
<1> DEFINE older(t) == [t EXCEPT !.age = IF @ < MaxAge THEN @ + 1 ELSE @]
           later(c) == [call[c] EXCEPT !.age = @ + 1]
<1>1. /\ temps' = {older(t) : t \in temps} /\ call' = [c \in Calls |-> IF c \in Running THEN later(c) ELSE call[c]]
      /\ \A c \in Running : call[c].age < RunsFor
      /\ UNCHANGED <<slices, out, net, mode>> /\ call \in [Calls -> CallRec] /\ temps \subseteq TempRec
      /\ SlicesGood /\ OutGood /\ net \in {"up", "down"} /\ \A c \in Calls : CallGood(c, call[c], temps)
  BY DEF CallInv, TimePasses
<1>2. ASSUME NEW t \in temps
      PROVE  older(t) \in TempRec /\ older(t).of = t.of /\ older(t).part = t.part /\ older(t).age <= t.age + 1 /\ t.age \in Nat
  <2>1. t \in TempRec /\ t.age \in 0..MaxAge /\ MaxAge \in Nat
    BY <1>1, DispatchAssumption DEF TempRec
  <2> DEFINE a == IF t.age < MaxAge THEN t.age + 1 ELSE t.age
  <2>2. a \in 0..MaxAge /\ a <= t.age + 1
    BY <2>1
  <2>3. older(t) = [t EXCEPT !.age = a]
    OBVIOUS
  <2> HIDE DEF a
  <2> QED BY <2>1, <2>2, <2>3 DEF TempRec
<1>3. ASSUME NEW c \in Calls
      PROVE  /\ later(c) \in CallRec /\ later(c).age = call[c].age + 1 /\ call[c].age \in Nat
             /\ later(c).at = call[c].at /\ later(c).read = call[c].read
             /\ later(c).code = call[c].code /\ later(c).exit = call[c].exit /\ later(c).did = call[c].did
  BY <1>1 DEF CallRec
<1> HIDE DEF older, later
<1>4. temps' \subseteq TempRec /\ call' \in [Calls -> CallRec]
  BY <1>1, <1>2, <1>3
<1>5. SlicesGood' /\ OutGood' /\ net' \in {"up", "down"}
  BY <1>1 DEF SlicesGood, OutGood
<1>6. ASSUME NEW c \in Calls PROVE CallGood(c, call'[c], temps')
  <2>1. CallGood(c, call[c], temps)
    BY <1>1
  <2>2. CASE c \in Running
    <3>1. call'[c] = later(c) /\ call[c].at \in UnderWay /\ call[c].age < RunsFor
      BY <1>1, <2>2 DEF Running, UnderWay
    <3>2. call[c].age + 1 <= RunsFor
      BY <1>3, <3>1, DispatchAssumption
    <3>3. \A t \in temps' : t.of = c => t.age <= call[c].age + 1
      <4> SUFFICES ASSUME NEW t \in temps, older(t).of = c PROVE older(t).age <= call[c].age + 1
        BY <1>1
      <4>1. t.age <= call[c].age
        BY <1>2, <2>1, <3>1 DEF CallGood
      <4>2. older(t).age \in Nat
        BY <1>2, DispatchAssumption DEF TempRec
      <4> QED BY <1>2, <1>3, <4>1, <4>2
    <3>4. mode[c] = "to_file" => \E t \in temps' : t.of = c
      BY <1>1, <1>2, <2>1, <3>1 DEF CallGood
    <3>5. call[c].at = "clean" /\ call[c].code = 0 => \A t \in temps' : t.of = c => t.part = FALSE
      BY <1>1, <1>2, <2>1 DEF CallGood
    <3> QED BY <1>3, <2>1, <3>1, <3>2, <3>3, <3>4, <3>5 DEF CallGood, UnderWay
  <2>3. CASE c \notin Running
    <3>1. call'[c] = call[c] /\ call[c].at \notin UnderWay
      BY <1>1, <2>3 DEF Running, UnderWay
    <3>2. call[c].at \in {"ship", "env", "temp"} => \A t \in temps' : t.of # c
      BY <1>1, <1>2, <2>1 DEF CallGood
    <3> QED BY <2>1, <3>1, <3>2 DEF CallGood, UnderWay
  <2> QED BY <2>2, <2>3
<1>7. ASSUME NEW c \in Calls PROVE CallGood(c, call[c], temps)'
  <2>1. CallGood(c, call'[c], temps') /\ mode' = mode
    BY <1>1, <1>6
  <2> QED BY ONLY <2>1 DEF CallGood
<1> QED BY <1>4, <1>5, <1>7 DEF CallInv

\* For any commands dispatched side by side: at each of its steps a command has read only its
\* own slice, has acted exactly when its code says so, and its capture file is there.
THEOREM DispatchInvariant == DispatchSpec => []DispatchInv
<1>1. ASSUME DispatchInv, [CallNext /\ UNCHANGED stream]_<<callVars, stream>> PROVE DispatchInv'
  <2>1. CallInv /\ StreamGood /\ stream' = stream
    BY <1>1 DEF DispatchInv
  <2>2. StreamGood'
    BY <2>1 DEF StreamGood
  <2>3. CallInv'
    <3>1. CASE CallNext
      <4>1. UNCHANGED mode
        BY <3>1 DEF CallNext
      <4>2. \/ NetChanges \/ TimePasses
            \/ \E c \in Calls : Ship(c) \/ Environment(c) \/ MakeTemp(c) \/ Start(c) \/ SshFails(c) \/ RemoteEnds(c)
                                \/ Severed(c) \/ CleanUp(c) \/ Interrupted(c)
        BY <3>1 DEF CallNext
      <4> QED BY <2>1, <4>1, <4>2, NetStep, TimeStep, ShipStep, EnvironmentStep, MakeTempStep, StartSteps, EndsRemotely,
                 CleanUpStep, InterruptStep
    <3>2. CASE UNCHANGED callVars
      <4>1. UNCHANGED <<mode, call, slices, temps, out, net>>
        BY <3>2 DEF callVars
      <4>2. SlicesGood' /\ OutGood' /\ (call \in [Calls -> CallRec])' /\ (temps \subseteq TempRec)' /\ (net \in {"up", "down"})'
        BY <2>1, <4>1 DEF CallInv, SlicesGood, OutGood
      <4>3. ASSUME NEW c \in Calls PROVE CallGood(c, call[c], temps)'
        BY <2>1, <4>1 DEF CallInv, CallGood
      <4> QED BY <4>2, <4>3 DEF CallInv
    <3> QED BY <1>1, <3>1, <3>2
  <2> QED BY <2>2, <2>3 DEF DispatchInv
<1> QED BY <1>1, DispatchInitInv, PTL DEF DispatchSpec

\* The password's line goes first, and what is left is the stdin that was given.
LEMMA StdinFacts ==
  ASSUME NEW v \in Envs, NEW w \in Inputs, Len(v) = 1
  PROVE  SubSeq(v \o w, 1, 1) = v /\ SubSeq(v \o w, 2, Len(v \o w)) = w
<1> DEFINE S == ToSet(v) \cup ToSet(w)
<1>1. v \in Seq(S) /\ w \in Seq(S)
  BY DispatchAssumption, SeqMonotonic
<1> HIDE DEF S
<1> DEFINE all == v \o w
<1>2. /\ all \in Seq(S) /\ Len(all) = 1 + Len(w) /\ Len(w) \in Nat
      /\ \A i \in 1..(1 + Len(w)) : all[i] = IF i <= 1 THEN v[i] ELSE w[i - 1]
  BY <1>1, ConcatProperties, LenProperties
<1> HIDE DEF all
<1>3. \A i \in 1..(1 + Len(w)) : all[i] \in S
  BY <1>2, ElementOfSeq
<1>4. /\ SubSeq(all, 1, 1) \in Seq(S) /\ Len(SubSeq(all, 1, 1)) = 1 /\ SubSeq(all, 1, 1)[1] = all[1]
  <2>1. \A i \in 1..1 : all[i] \in S
    BY <1>2, <1>3
  <2> QED BY <2>1, SubSeqProperties
<1>5. SubSeq(all, 1, 1) = v
  <2>1. \A i \in 1..1 : SubSeq(all, 1, 1)[i] = v[i]
    BY <1>2, <1>4
  <2> QED BY <1>1, <1>4, <2>1, SeqEqual
<1>6. /\ SubSeq(all, 2, Len(all)) \in Seq(S) /\ Len(SubSeq(all, 2, Len(all))) = Len(w)
      /\ \A i \in 1..Len(w) : SubSeq(all, 2, Len(all))[i] = all[i + 1]
  <2>1. \A i \in 2..(1 + Len(w)) : all[i] \in S
    BY <1>2, <1>3
  <2>2. /\ SubSeq(all, 2, 1 + Len(w)) \in Seq(S)
        /\ Len(SubSeq(all, 2, 1 + Len(w))) = IF 2 <= 1 + Len(w) THEN 1 + Len(w) - 2 + 1 ELSE 0
        /\ \A i \in 1..(1 + Len(w) - 2 + 1) : SubSeq(all, 2, 1 + Len(w))[i] = all[2 + i - 1]
    BY <1>2, <2>1, SubSeqProperties
  <2>3. \A i \in 1..Len(w) : 2 + i - 1 = i + 1 /\ i \in 1..(1 + Len(w) - 2 + 1)
    BY <1>2
  <2>4. (IF 2 <= 1 + Len(w) THEN 1 + Len(w) - 2 + 1 ELSE 0) = Len(w)
    BY <1>2
  <2> QED BY <1>2, <2>2, <2>3, <2>4
<1>7. SubSeq(all, 2, Len(all)) = w
  <2>1. \A i \in 1..Len(w) : SubSeq(all, 2, Len(all))[i] = w[i]
    BY <1>2, <1>6
  <2> QED BY <1>1, <1>6, <2>1, SeqEqual
<1> QED BY <1>5, <1>7 DEF all

\* A command run over ssh is the one asked for, on its own slice and stdin, and its output and
\* exit are its own (dispatch.rs, ssh.rs).
THEOREM DispatchAlwaysTrue == DispatchSpec => []DispatchIsTrue
<1>1. DispatchInv => DispatchIsTrue
  <2> SUFFICES ASSUME DispatchInv PROVE DispatchIsTrue
    OBVIOUS
  <2>1. /\ call \in [Calls -> CallRec] /\ temps \subseteq TempRec /\ net \in {"up", "down"} /\ SlicesGood /\ OutGood
        /\ \A c \in Calls : CallGood(c, call[c], temps)
    BY DEF DispatchInv, CallInv
  <2>2. DispatchTypeOK
    <3>1. \A t \in temps : t.of \in Calls /\ t.age \in 0..MaxAge
      BY <2>1 DEF TempRec
    <3>2. \A c \in Calls : call[c].exit \in {-1, 0, 3, 4, 101, 109}
      BY <2>1 DEF CallRec
    <3> QED BY <2>1, <3>1, <3>2 DEF DispatchTypeOK, SlicesGood, OutGood, NotConfigured, Unreachable, Internal
  <2>3. ReadsOwnSlice
    BY <2>1 DEF ReadsOwnSlice, CallGood
  <2>4. OutputIsWhole
    BY <2>1 DEF OutputIsWhole, OutGood
  <2>5. CaptureIsKept
    <3> SUFFICES ASSUME NEW c \in Running, mode[c] = "to_file" PROVE Mine(c) # {}
      BY DEF CaptureIsKept
    <3>1. c \in Calls /\ call[c].at \in UnderWay
      BY DEF Running, UnderWay
    <3>2. \E t \in temps : t.of = c
      BY <2>1, <3>1 DEF CallGood
    <3> QED BY <3>2 DEF Mine
  <2>6. ExitIsTrue
    <3> SUFFICES ASSUME NEW c \in Calls
                 PROVE  /\ call[c].exit = 0 => call[c].did
                        /\ call[c].exit = 101 => ~call[c].did
                        /\ call[c].did /\ call[c].exit > 0 => call[c].exit = Unreachable \/ SavingFails(c)
      BY DEF ExitIsTrue
    <3>1. CallGood(c, call[c], temps) /\ call[c].exit \in {-1, 0, 3, 4, 101, 109}
      BY <2>1 DEF CallRec
    <3>2. (call[c].exit = 0 => call[c].did = TRUE) /\ (call[c].exit = 101 => call[c].did = FALSE)
          /\ (call[c].exit \in {3, 109} => call[c].did = FALSE)
      BY <3>1 DEF CallGood
    <3>3. call[c].exit > 0 => call[c].exit \in {3, 4, 101, 109}
      BY <3>1
    <3> QED BY <3>2, <3>3 DEF Unreachable
  <2>7. StdinArrives
    <3> SUFFICES ASSUME stream.kind = "env", Len(stream.env) = 1
                 PROVE  LET r == PreludeReads(Wire(stream.env, stream.input)) IN r.env = stream.env /\ r.rest = stream.input
      BY DEF StdinArrives, Forwards
    <3>1. stream.env \in Envs /\ stream.input \in Inputs
      BY DEF DispatchInv, StreamGood
    <3>2. /\ SubSeq(stream.env \o stream.input, 1, 1) = stream.env
          /\ SubSeq(stream.env \o stream.input, 2, Len(stream.env \o stream.input)) = stream.input
      BY <3>1, StdinFacts
    <3> QED BY <3>2 DEF PreludeReads, Wire
  <2> QED BY <2>2, <2>3, <2>4, <2>5, <2>6, <2>7 DEF DispatchIsTrue
<1> QED BY <1>1, DispatchInvariant, PTL

=============================================================================
