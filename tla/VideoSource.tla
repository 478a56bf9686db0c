---------------------------- MODULE VideoSource ----------------------------
(***************************************************************************)
(* hdmicap's sources.  The USB ones: which device a name means, which of   *)
(* its formats is opened, which of its queued buffers is a frame.  The     *)
(* network one: an RFB client whose worker composes a server's updates     *)
(* into a framebuffer and shares it with the capture thread.               *)
(***************************************************************************)
EXTENDS Integers, Sequences, FiniteSets, SequencesExt

CONSTANTS Devices,      \* lists of devices: [id, name, builtin]
          Names,        \* what may be configured: [kind, id, names]
          Ladder,       \* FORMATS, best first
          Benches,      \* what a device does: [actual, sets, allocs, streams]
          Buffers,      \* BUFFERS (4)
          Keepalive, DeadAfter, AnswersWithin, \* in ticks
          MaxScenes     \* bound: how often the server's screen changes

ASSUME SourceAssumption ==
  /\ {Buffers, Keepalive, DeadAfter, AnswersWithin} \subseteq Nat \ {0}
  /\ Keepalive + AnswersWithin <= DeadAfter
  /\ Len(Ladder) \in Nat /\ \A b \in Benches : b.sets \subseteq 1..Len(Ladder)
  \* an id, where a device has one, is that device's only
  /\ \A ds \in Devices :
       /\ ds \in Seq(Range(ds))
       /\ \A i, j \in 1..Len(ds) : ds[i].id = ds[j].id /\ ds[i].id # "" => ds[i] = ds[j]

VARIABLES pick,   \* a list of devices and a name
          probe,  \* the walk over the ladder
          drain,  \* the driver's queue and the frame taken from it
          server, \* the RFB server: its screen, what it owes
          wire,   \* an update under way
          worker, \* the client's session
          shared  \* what it shares with the capture thread, and that thread

rfbVars == <<server, wire, worker, shared>>

(***************************************************************************)
(* A name and a list of devices.                                           *)
(***************************************************************************)
\* resolve_in: the stable id, or the one device whose name contains it; for auto the first
\* that is not built in.  0 is an error.
Matches(ds, n) == { i \in 1..Len(ds) : ds[i].name \in n.names }
ById(ds, n) == { i \in 1..Len(ds) : ds[i].id # "" /\ ds[i].id = n.id }
Least(S) == CHOOSE i \in S : \A j \in S : i <= j
External(ds) == { i \in 1..Len(ds) : ~ds[i].builtin }
ResolveIn(ds, n) ==
  IF ds = << >> THEN 0
  ELSE IF n.kind = "auto" THEN (IF External(ds) # {} THEN Least(External(ds)) ELSE 1)
  ELSE IF ById(ds, n) # {} THEN Least(ById(ds, n))
  ELSE IF Cardinality(Matches(ds, n)) = 1 THEN Least(Matches(ds, n)) ELSE 0
PickInit == pick \in [devices : Devices, name : Names]

\* Enumeration order decides nothing that was named: two identical dongles are never
\* silently swapped when they are listed the other way round.
NamedIsNotSwapped ==
  LET ds == pick.devices
      i == ResolveIn(ds, pick.name)
      j == ResolveIn(Reverse(ds), pick.name)
  IN pick.name.kind = "name" =>
       /\ (i = 0) = (j = 0)
       /\ i # 0 => ds[i] = Reverse(ds)[j] /\ (ById(ds, pick.name) = {} => j = Len(ds) + 1 - i)

(***************************************************************************)
(* The ladder: each format is set, given buffers and made to produce a     *)
(* frame; the driver substitutes formats rather than refusing them.        *)
(***************************************************************************)
ProbeInit ==
  probe \in [bench : Benches, at : {1}, tried : {{}}, allocated : {0}, opened : {"none"}, waits : {0}, done : {FALSE}]
Opens(p, f) == [p EXCEPT !.opened = f, !.done = TRUE]
TryRung(p) ==
  LET b == p.bench
      f == b.actual[p.at]
      on == [p EXCEPT !.at = @ + 1]
      probed == [on EXCEPT !.tried = @ \cup {f}]
  IN IF p.at \notin b.sets \/ f \in p.tried THEN on
     ELSE IF f \notin b.allocs THEN probed
     ELSE IF f \in b.streams THEN Opens(probed, f)
     ELSE [probed EXCEPT !.waits = @ + 1, !.allocated = IF @ = 0 THEN p.at ELSE @]
ProbeNext ==
  /\ ~probe.done
  /\ probe' = IF probe.at <= Len(Ladder) THEN TryRung(probe)
              ELSE Opens(probe, IF probe.allocated = 0 THEN "error" ELSE probe.bench.actual[probe.allocated])

\* The device ends on the best format it really streams; with no signal, on the best that
\* allocates; and no format is waited for twice.
OpensTheBest ==
  LET b == probe.bench
      rungs == { i \in b.sets : b.actual[i] \in b.allocs }
      good == { i \in rungs : b.actual[i] \in b.streams }
  IN /\ probe.done =>
          probe.opened = IF good # {} THEN b.actual[Least(good)]
                         ELSE IF rungs # {} THEN b.actual[Least(rungs)] ELSE "error"
     /\ probe.waits <= Cardinality({ b.actual[i] : i \in rungs } \ b.streams)

(***************************************************************************)
(* The driver's buffers come oldest first; the stale ones are skipped.     *)
(***************************************************************************)
\* The queue after a sleep: some old buffers, the rest filled since; then fresh ones only.
DrainInit == drain \in [stale : 0..Buffers, skipped : {0}, stamps : BOOLEAN, served : {"none"}]
Stale(d) == d.stamps /\ d.stale > 0
MaySkip(d) == d.skipped < Buffers
DrainNext ==
  /\ drain.served = "none"
  /\ drain' = IF Stale(drain) /\ MaySkip(drain)
              THEN [drain EXCEPT !.stale = @ - 1, !.skipped = @ + 1]
              ELSE [drain EXCEPT !.served = IF drain.stale > 0 THEN "old" ELSE "fresh"]

\* However much of the queue is old, the frame served is fresh, as long as the driver's
\* stamps can be trusted.
ServesFresh == drain.stamps => drain.served # "old"

(***************************************************************************)
(* The RFB client.  A screen is a row of pixels; a rectangle of an update  *)
(* is raw, copied from elsewhere, or a new size.                           *)
(***************************************************************************)
Blank(w) == [i \in 1..w |-> 0]
Raw(x, px) == [op |-> "raw", x |-> x, px |-> px, from |-> 0]
Copy(x, w, from) == [op |-> "copy", x |-> x, px |-> Blank(w), from |-> from]
Size(w) == [op |-> "size", x |-> 0, px |-> Blank(w), from |-> 0]
NoUpdate == << >>

CopyRect(fb, r) ==
  [i \in 1..Len(fb) |-> IF i \in (r.x + 1)..(r.x + Len(r.px)) THEN fb[i - r.x + r.from] ELSE fb[i]]
Applied(fb, r) ==
  IF r.op = "size" THEN Blank(Len(r.px))
  ELSE IF r.op = "copy" THEN CopyRect(fb, r)
  ELSE [i \in 1..Len(fb) |-> IF i \in (r.x + 1)..(r.x + Len(r.px)) THEN r.px[i - r.x] ELSE fb[i]]
ReadUpdate(fb, rects) ==
  LET read[i \in 0..Len(rects)] == IF i = 0 THEN fb ELSE Applied(read[i - 1], rects[i])
  IN read[Len(rects)]

RfbInit ==
  /\ server = [px |-> <<1, 2, 3>>, up |-> TRUE, owes |-> "none", late |-> 0, rects |-> NoUpdate, scenes |-> 0]
  /\ wire = NoUpdate
  /\ worker = [at |-> "start", fb |-> << >>, rx |-> 0, req |-> 0]
  /\ shared = [fresh |-> FALSE, frame |-> << >>, err |-> "none", stop |-> FALSE,
               as |-> << >>]  \* history: the server's screen when it sent what was last read

AsksFor(s, what) == [s EXCEPT !.owes = IF @ = "full" THEN @ ELSE what, !.late = IF s.owes = "none" THEN 0 ELSE @]

\* The server's side: its screen changes, and it answers; an incremental request when
\* something has changed.
SceneScrolls(px, c) == [i \in 1..Len(px) |-> IF i = 1 THEN c ELSE px[i - 1]]
SceneChanges ==
  /\ server.up /\ server.scenes < MaxScenes
  /\ \E c \in {7} :
       \/ server' = [server EXCEPT !.px = SceneScrolls(@, c), !.scenes = @ + 1,
                                   !.rects = @ \o <<Copy(1, Len(server.px) - 1, 0), Raw(0, <<c>>)>>]
       \/ server' = [server EXCEPT !.px = [@ EXCEPT ![2] = c], !.scenes = @ + 1, !.rects = @ \o <<Raw(1, <<c>>)>>]
       \/ LET px == IF Len(server.px) = 3 THEN <<c, c>> ELSE <<c, c, c>>
          IN server' = [server EXCEPT !.px = px, !.scenes = @ + 1, !.rects = @ \o <<Size(Len(px)), Raw(0, px)>>]
  /\ UNCHANGED <<wire, worker, shared>>
Answer ==
  /\ server.up /\ wire = NoUpdate
  /\ \/ server.owes = "inc" /\ server.rects # NoUpdate /\ wire' = <<server.rects, server.px>>
     \/ server.owes = "full" /\ wire' = <<server.rects \o <<Raw(0, server.px)>>, server.px>>
  /\ server' = [server EXCEPT !.owes = "none", !.late = 0, !.rects = NoUpdate]
  /\ UNCHANGED <<worker, shared>>
ServerDies ==
  /\ server.up /\ server' = [server EXCEPT !.up = FALSE, !.owes = "none"]
  /\ UNCHANGED <<wire, worker, shared>>

Fails(why) ==
  /\ shared' = [shared EXCEPT !.err = why] /\ worker' = [worker EXCEPT !.at = "ended"]

\* session: connect, shake hands, ask for everything; or fail.
Connect ==
  /\ worker.at = "start"
  /\ \/ /\ server.up
        /\ worker' = [worker EXCEPT !.at = "live", !.fb = Blank(Len(server.px))]
        /\ server' = [AsksFor(server, "full") EXCEPT !.rects = NoUpdate] /\ UNCHANGED shared
     \/ ~server.up /\ Fails("connect") /\ UNCHANGED server
  /\ UNCHANGED wire
\* An update is read to its end, published, and answered by the next request.
Receive ==
  /\ worker.at = "live" /\ wire # NoUpdate
  /\ worker' = [worker EXCEPT !.fb = ReadUpdate(@, wire[1]), !.rx = 0, !.req = 0]
  /\ shared' = [shared EXCEPT !.fresh = TRUE, !.frame = worker'.fb, !.as = wire[2]]
  /\ server' = IF server.up THEN AsksFor(server, "inc") ELSE server
  /\ wire' = NoUpdate
\* One that never ends.
Truncated ==
  /\ worker.at = "live" /\ wire # NoUpdate /\ ~server.up
  /\ Fails("stalled") /\ wire' = NoUpdate /\ UNCHANGED server

KeepaliveIncremental(s) == AsksFor(s, "inc")
KeepaliveAsks(s) == AsksFor(s, "full")
Capped(n) == IF n > DeadAfter THEN n ELSE n + 1
Silent(w) == w.rx > DeadAfter
StopSeen == shared.stop
\* Time passes; the worker's tick.  A server that is up answers a full request in time.
WorkerTick ==
  /\ worker.at = "live"
  /\ server.up => ~(server.owes = "full" /\ server.late >= AnswersWithin) /\ wire = NoUpdate
  /\ LET w == [worker EXCEPT !.rx = Capped(@), !.req = Capped(@)]
         s == [server EXCEPT !.late = IF server.owes = "full" THEN @ + 1 ELSE @]
     IN \/ /\ StopSeen /\ worker' = [w EXCEPT !.at = "ended"] /\ UNCHANGED shared /\ server' = s
        \/ /\ ~StopSeen /\ Silent(w) /\ server' = s
           /\ worker' = [w EXCEPT !.at = "ended"] /\ shared' = [shared EXCEPT !.err = "silent"]
        \/ /\ ~StopSeen /\ ~Silent(w) /\ UNCHANGED shared
           /\ IF w.req >= Keepalive
              THEN worker' = [w EXCEPT !.req = 0] /\ server' = (IF s.up THEN KeepaliveAsks(s) ELSE s)
              ELSE worker' = w /\ server' = s
  /\ UNCHANGED wire

\* The capture thread takes a frame: a new one, or after a while the same again.
TakeFrame ==
  /\ ~shared.stop /\ shared.err = "none" /\ shared.fresh
  /\ shared' = [shared EXCEPT !.fresh = FALSE] /\ UNCHANGED <<server, wire, worker>>
DropBackend ==
  /\ ~shared.stop /\ shared' = [shared EXCEPT !.stop = TRUE] /\ UNCHANGED <<server, wire, worker>>

RfbNext ==
  \/ SceneChanges \/ Answer \/ ServerDies \/ Connect \/ Receive \/ Truncated \/ WorkerTick
  \/ TakeFrame \/ DropBackend

SourceInit == PickInit /\ ProbeInit /\ DrainInit /\ RfbInit
SourceNext ==
  \/ ProbeNext /\ UNCHANGED <<pick, drain, rfbVars>>
  \/ DrainNext /\ UNCHANGED <<pick, probe, rfbVars>>
  \/ RfbNext /\ UNCHANGED <<pick, probe, drain>>
SourceSpec == SourceInit /\ [][SourceNext]_<<pick, probe, drain, rfbVars>>

SourceTypeOK ==
  /\ worker.at \in {"start", "live", "ended"} /\ worker.rx \in 0..(IF worker.at = "live" THEN DeadAfter ELSE DeadAfter + 1)
  /\ worker.req \in 0..(DeadAfter + 1)
  /\ server.owes \in {"none", "inc", "full"} /\ shared.err \in {"none", "connect", "stalled", "silent"}
  /\ probe.at \in 1..(Len(Ladder) + 1) /\ drain.skipped \in 0..Buffers

\* What the capture thread is given is what the server's screen was: overlapping copies and
\* new sizes included.
ComposedIsTheServers == shared.frame = shared.as

\* A server that answers is never given up, however still its screen: the keepalive asks
\* for all of it.
AliveIsNotGivenUp == shared.err # "none" => ~server.up

\* A server that has gone away is noticed, and a worker that was told to stop ends.
GoneIsNoticed == (~server.up) ~> (shared.err # "none" \/ shared.stop)
WorkerEnds == shared.stop ~> (worker.at = "ended")

\* The device that was named is the one opened, in the best format it streams, its frames are
\* fresh, and a screen composed from updates is the server's (hdmicap backends).
SourceIsTrue ==
  /\ SourceTypeOK
  /\ NamedIsNotSwapped
  /\ OpensTheBest
  /\ ServesFresh
  /\ ComposedIsTheServers
  /\ AliveIsNotGivenUp
=============================================================================
