------------------------------- MODULE Hidrig -------------------------------
(***************************************************************************)
(* The KB2040 HID daemon (hidrig/src/{uart,compose,proto,server}.rs).      *)
(* Commands are composed into frames on the host; HID frames are written   *)
(* and forgotten, control frames wait for the board's reply, which shares  *)
(* the link with console output.  The second half is the splitting of that *)
(* byte stream into frames, checked against every way it can be cut up.    *)
(***************************************************************************)
EXTENDS Naturals, Sequences, FiniteSets, SequencesExt

CONSTANTS RigKeys, RigMods, RigButtons,
          RigSlots,                  \* KEY_SLOTS
          RigCommands,               \* [verb, keys]: keys a sequence without repetitions
          RigMaxReqs, RigMaxEvents,  \* bounds
          RigStreams                 \* byte streams for the splitter

ASSUME RigAssumption ==
  /\ RigSlots \in Nat \ {0} /\ RigMaxReqs \in Nat /\ RigMaxEvents \in Nat \ {0}
  /\ \A cmd \in RigCommands :
       cmd.verb \in {"mdown", "mup", "click"} => Range(cmd.keys) \subseteq RigButtons

VARIABLES composer, \* Composer: held modifiers, held keys in order, buttons
          board,    \* what the board holds, and whether it can be opened
          late,     \* control requests the board has yet to answer, in order
          rigOpen,  \* the owner has the port
          waiting,  \* pending: the control request awaiting its reply, or 0
          rigQueue, rigReqs, \* as in Ch9329; answer is the request whose reply came back
          doubt,    \* the board may not hold what was composed
          freed,    \* the shutdown release: "no", "asked", "written", "unwritten", "unopened"
          upsets,   \* link losses and reply timeouts so far
          stream, cut \* the splitter: a stream and where it was cut
rigVars == <<composer, board, late, rigOpen, waiting, rigQueue, rigReqs, doubt, freed, upsets>>
cutVars == <<stream, cut>>

-----------------------------------------------------------------------------
(***************************************************************************)
(* The composer (compose.rs).                                              *)
(***************************************************************************)

\* kbd: the modifiers, and the first KEY_SLOTS of the held and extra keys.
Report(c, mods, keys) ==
  LET all == c.keys \o keys
  IN c.mods \cup mods \cup Range(SubSeq(all, 1, IF Len(all) < RigSlots THEN Len(all) ELSE RigSlots))

KbdFrame(rep) == [dev |-> "kb", rep |-> rep]
MouseFrame(c) == [dev |-> "ms", rep |-> c.btn]
CtrlFrame == [dev |-> "ctrl", rep |-> {}]

ModsOf(keys) == Range(keys) \cap RigMods
KeysOf(keys) == SelectSeq(keys, LAMBDA k : k \notin RigMods)

\* key, combo and type: the extra keys down, then the held report again.
ComboFrames(c, cmd) ==
  << KbdFrame(Report(c, ModsOf(cmd.keys), KeysOf(cmd.keys))), KbdFrame(Report(c, {}, << >>)) >>

\* combo refuses what does not fit.
ComboRefused(c, cmd) ==
  cmd.verb = "combo" /\ Cardinality(Range(c.keys) \cup Range(KeysOf(cmd.keys))) > RigSlots

ComposeDown(c, keys) ==
  [c EXCEPT !.mods = @ \cup ModsOf(keys),
            !.keys = @ \o SelectSeq(KeysOf(keys), LAMBDA k : k \notin Range(c.keys))]

ComposeUp(c, keys) ==
  [c EXCEPT !.mods = @ \ ModsOf(keys),
            !.keys = SelectSeq(@, LAMBDA k : k \notin Range(keys))]

ReleaseEverything(c) == [mods |-> {}, keys |-> << >>, btn |-> {}]

\* dispatch: the composer after a command, and the frames it makes.
Composed(c, cmd) ==
  CASE cmd.verb = "down"       -> ComposeDown(c, cmd.keys)
    [] cmd.verb = "up"         -> ComposeUp(c, cmd.keys)
    [] cmd.verb = "releaseall" -> [c EXCEPT !.mods = {}, !.keys = << >>]
    [] cmd.verb = "mdown"      -> [c EXCEPT !.btn = @ \cup Range(cmd.keys)]
    [] cmd.verb \in {"mup", "click"} -> [c EXCEPT !.btn = @ \ Range(cmd.keys)]
    [] OTHER                   -> c

Frames(c, cmd) ==
  CASE cmd.verb \in {"key", "combo", "type"} -> ComboFrames(c, cmd)
    [] cmd.verb \in {"down", "up", "releaseall"} -> << KbdFrame(Report(Composed(c, cmd), {}, << >>)) >>
    [] cmd.verb = "click" -> << [dev |-> "ms", rep |-> c.btn \cup Range(cmd.keys)],
                                [dev |-> "ms", rep |-> c.btn \ Range(cmd.keys)] >>
    [] cmd.verb \in {"ping", "version", "power"} -> << CtrlFrame >>
    [] OTHER -> << MouseFrame(Composed(c, cmd)) >>

\* The board after some frames: the last report of each device.
LastReport(fs, dev, was) ==
  LET of == { i \in DOMAIN fs : fs[i].dev = dev }
  IN IF of = {} THEN was ELSE fs[CHOOSE i \in of : \A j \in of : j <= i].rep
Boarded(b, fs) ==
  [b EXCEPT !.kb = LastReport(fs, "kb", b.kb), !.ms = LastReport(fs, "ms", b.ms)]

-----------------------------------------------------------------------------
(***************************************************************************)
(* The owner loop (uart.rs).                                               *)
(***************************************************************************)

Settle(r, st) == [rigReqs EXCEPT ![r].state = st]

\* The port is gone: whoever waits is told, and it is opened again next time.
Lose(reqs) ==
  /\ rigOpen' = FALSE /\ waiting' = 0
  /\ rigReqs' = IF waiting = 0 THEN reqs ELSE [reqs EXCEPT ![waiting].state = "err"]

OpenPort ==
  /\ ~rigOpen /\ board.there
  /\ rigOpen' = TRUE
  /\ UNCHANGED <<composer, board, late, waiting, rigQueue, rigReqs, doubt, freed, upsets>>

\* drain_failing: everything queued fails; a release is answered as if done.
DrainFailing ==
  /\ ~rigOpen /\ ~board.there /\ rigQueue # << >>
  /\ rigQueue' = << >>
  /\ rigReqs' = [r \in DOMAIN rigReqs |->
                   IF r \in Range(rigQueue) THEN [rigReqs[r] EXCEPT !.state = "err"] ELSE rigReqs[r]]
  /\ freed' = IF 0 \in Range(rigQueue) THEN "unopened" ELSE freed
  /\ UNCHANGED <<composer, board, late, rigOpen, waiting, doubt, upsets>>

\* Mutant: the queue is drained while a reply is awaited.
DrainAlways == rigOpen

\* A control request pauses the queue.
Draining == rigOpen /\ waiting = 0

\* service_request.  A failed write has written any part of the frames.
ServiceRequest ==
  /\ Draining /\ rigQueue # << >> /\ Head(rigQueue) # 0
  /\ rigQueue' = Tail(rigQueue)
  /\ LET r == Head(rigQueue)
         cmd == rigReqs[r].cmd
         fs == Frames(composer, cmd)
         ctrl == \E i \in DOMAIN fs : fs[i].dev = "ctrl"
     IN \/ /\ rigReqs[r].client = "left"
           /\ rigReqs' = Settle(r, "skipped")
           /\ UNCHANGED <<composer, board, late, rigOpen, waiting, doubt, upsets>>
        \/ /\ rigReqs[r].client # "left" /\ ComboRefused(composer, cmd)
           /\ rigReqs' = Settle(r, "err")
           /\ UNCHANGED <<composer, board, late, rigOpen, waiting, doubt, upsets>>
        \/ /\ rigReqs[r].client # "left" /\ ~ComboRefused(composer, cmd) /\ board.there
           /\ composer' = Composed(composer, cmd)
           /\ board' = Boarded(board, fs)
           /\ doubt' = IF ctrl THEN doubt ELSE doubt \ {fs[1].dev}
           /\ waiting' = IF ctrl THEN r ELSE waiting
           /\ late' = IF ctrl THEN Append(late, r) ELSE late
           /\ rigReqs' = Settle(r, IF ctrl THEN "awaits" ELSE "ok")
           /\ UNCHANGED <<rigOpen, upsets>>
        \/ /\ rigReqs[r].client # "left" /\ ~ComboRefused(composer, cmd)
           /\ upsets < RigMaxEvents /\ upsets' = upsets + 1
           /\ composer' = Composed(composer, cmd)
           /\ \E n \in 0..Len(fs) : board' = Boarded(board, SubSeq(fs, 1, n))
           /\ doubt' = {"kb", "ms"}
           /\ Lose(Settle(r, "err"))
           /\ UNCHANGED late
  /\ freed' = IF freed = "written" THEN "unwritten" ELSE freed

\* The shutdown's Release on an open port.
ServiceRelease ==
  /\ Draining /\ rigQueue # << >> /\ Head(rigQueue) = 0
  /\ rigQueue' = Tail(rigQueue)
  /\ composer' = ReleaseEverything(composer)
  /\ \/ /\ board.there /\ freed' = "written"
        /\ board' = Boarded(board, << KbdFrame(Report(composer', {}, << >>)), MouseFrame(composer') >>)
        /\ doubt' = {}
        /\ UNCHANGED <<rigOpen, waiting, rigReqs, upsets>>
     \/ /\ upsets < RigMaxEvents /\ upsets' = upsets + 1
        /\ freed' = "unwritten" /\ doubt' = {"kb", "ms"} /\ Lose(rigReqs)
        /\ UNCHANGED board
  /\ UNCHANGED late

\* demux: a control reply answers whoever waits, whichever request it was
\* meant for; one that nobody waits for is dropped.
Demux ==
  /\ rigOpen /\ board.there /\ late # << >>
  /\ late' = Tail(late) /\ waiting' = 0
  /\ rigReqs' = IF waiting = 0 THEN rigReqs
                ELSE [rigReqs EXCEPT ![waiting] = [@ EXCEPT !.state = "ok", !.answer = Head(late)]]
  /\ UNCHANGED <<composer, board, rigOpen, rigQueue, doubt, freed, upsets>>

\* A reply that does not come in time (REPLY_TIMEOUT) closes the port.
ReplyTimeout ==
  /\ waiting # 0 /\ rigOpen
  /\ Lose(rigReqs)
  /\ upsets' = IF upsets < RigMaxEvents THEN upsets + 1 ELSE upsets
  /\ UNCHANGED <<composer, board, late, rigQueue, doubt, freed>>

\* So does an error of the port, or of a write of console input.
LinkLost ==
  /\ rigOpen /\ upsets < RigMaxEvents /\ upsets' = upsets + 1
  /\ Lose(rigReqs)
  /\ UNCHANGED <<composer, board, late, rigQueue, doubt, freed>>

RigOwner == OpenPort \/ DrainFailing \/ ServiceRequest \/ ServiceRelease \/ Demux \/ ReplyTimeout

-----------------------------------------------------------------------------
(***************************************************************************)
(* Clients and the bench.                                                  *)
(***************************************************************************)

RigSend(cmd) ==
  /\ Len(rigReqs) < RigMaxReqs
  /\ rigReqs' = Append(rigReqs, [cmd |-> cmd, state |-> "queued", client |-> "waits", answer |-> 0])
  /\ rigQueue' = Append(rigQueue, Len(rigReqs) + 1)
  /\ UNCHANGED <<composer, board, late, rigOpen, waiting, doubt, freed, upsets>>

RigGiveUp(r) ==
  /\ rigReqs[r].state = "queued" /\ rigReqs[r].client = "waits"
  /\ rigReqs' = [rigReqs EXCEPT ![r].client = "left"]
  /\ UNCHANGED <<composer, board, late, rigOpen, waiting, rigQueue, doubt, freed, upsets>>

RigShutdown ==
  /\ freed = "no" /\ freed' = "asked" /\ rigQueue' = Append(rigQueue, 0)
  /\ UNCHANGED <<composer, board, late, rigOpen, waiting, rigReqs, doubt, upsets>>

\* The cable to the host is pulled or put back, or the board loses power:
\* then it holds nothing and answers nothing.  Either is seen as a port error.
RigBench ==
  /\ upsets < RigMaxEvents /\ upsets' = upsets + 1
  /\ \/ /\ board' = [board EXCEPT !.there = ~@]
        /\ UNCHANGED <<late, doubt>>
     \/ board' = [board EXCEPT !.kb = {}, !.ms = {}] /\ late' = << >> /\ doubt' = {"kb", "ms"}
  /\ Lose(rigReqs)
  /\ UNCHANGED <<composer, rigQueue, freed>>

RigInit ==
  /\ composer = [mods |-> {}, keys |-> << >>, btn |-> {}]
  /\ board = [there |-> TRUE, kb |-> {}, ms |-> {}]
  /\ late = << >> /\ rigOpen = FALSE /\ waiting = 0
  /\ rigQueue = << >> /\ rigReqs = << >> /\ doubt = {} /\ freed = "no" /\ upsets = 0

RigNext ==
  \/ RigOwner \/ LinkLost
  \/ \E cmd \in RigCommands : RigSend(cmd)
  \/ \E r \in DOMAIN rigReqs : RigGiveUp(r)
  \/ RigShutdown \/ RigBench

RigSpec == RigInit /\ [][RigNext]_rigVars

-----------------------------------------------------------------------------
(***************************************************************************)
(* split_frames: [type][b1][len][payload], types 2 and 3, other bytes are  *)
(* skipped.  A byte at a time is the reference: what it has parsed after a *)
(* prefix must be what parsing the prefix and then the rest gives.         *)
(***************************************************************************)

\* A partial frame stays for the next read.
Unfinished(rest) == rest

FrameComplete(buf) == Len(buf) >= 3 /\ Len(buf) >= 3 + buf[3]

\* All complete frames of a buffer, and what is left of it.
SplitFrames(buf) ==
  LET step[n \in 0..Len(buf)] ==
        IF n = 0 THEN [out |-> << >>, rest |-> buf]
        ELSE LET a == step[n - 1] IN
             CASE a.rest = << >> -> a
               [] a.rest # << >> /\ Head(a.rest) \notin {2, 3} -> [a EXCEPT !.rest = Tail(@)]
               [] a.rest # << >> /\ Head(a.rest) \in {2, 3} /\ FrameComplete(a.rest) ->
                    [out |-> Append(a.out, <<a.rest[1], SubSeq(a.rest, 4, 3 + a.rest[3])>>),
                     rest |-> SubSeq(a.rest, 4 + a.rest[3], Len(a.rest))]
               [] OTHER -> [a EXCEPT !.rest = Unfinished(@)]
  IN step[Len(buf)]

CutInit == stream \in RigStreams /\ cut = 0
CutNext == cut < Len(stream) /\ cut' = cut + 1 /\ UNCHANGED stream

-----------------------------------------------------------------------------
(***************************************************************************)
(* Properties.                                                             *)
(***************************************************************************)

\* The variables' types.
RigTypeOK ==
  /\ composer.mods \subseteq RigMods /\ composer.btn \subseteq RigButtons
  /\ board.ms \subseteq RigButtons /\ waiting \in 0..Len(rigReqs)
  /\ doubt \subseteq {"kb", "ms"} /\ upsets \in 0..RigMaxEvents

\* Unless a write failed or the board lost power, the board holds what the
\* composer says is held: no command leaves a transient key or button behind.
BoardIsAsComposed ==
  /\ "kb" \notin doubt => board.kb = Report(composer, {}, << >>)
  /\ "ms" \notin doubt => board.ms = composer.btn

\* While no link was lost, a control command gets the reply to its own frame:
\* the queue pauses until the reply has come (service_request, demux).
ReplyIsItsOwn ==
  upsets = 0 => \A r \in DOMAIN rigReqs : rigReqs[r].answer \in {0, r}

\* A shutdown release that was written leaves nothing held until a later
\* command is served (release_everything).
RigReleaseClears == freed = "written" => board.kb = {} /\ board.ms = {}

\* Every command is answered: the link may be lost at any point, also while a
\* reply is awaited (run, drain_failing).
RigIsAnswered ==
  \A r \in 1..RigMaxReqs :
    (r \in DOMAIN rigReqs /\ rigReqs[r].state = "queued")
      ~> (r \in DOMAIN rigReqs /\ rigReqs[r].state \in {"ok", "err", "skipped"})

\* The composer holds keys, and the board keys and modifiers that exist (named_key).
KeysAreKnown ==
  Range(composer.keys) \subseteq RigKeys /\ board.kb \subseteq RigKeys \cup RigMods

\* Reading a stream in two parts finds the frames of the whole: a frame cut
\* anywhere is completed by what follows (split_frames, inbuf).
SplitAnywhere ==
  LET first == SplitFrames(SubSeq(stream, 1, cut))
      second == SplitFrames(first.rest \o SubSeq(stream, cut + 1, Len(stream)))
  IN first.out \o second.out = SplitFrames(stream).out /\ second.rest = SplitFrames(stream).rest

\* The board holds what the composer says, a command gets its own reply and not an earlier
\* command's, and a written shutdown release leaves nothing down (hidrig).
RigIsKept ==
  /\ RigTypeOK
  /\ BoardIsAsComposed
  /\ ReplyIsItsOwn
  /\ RigReleaseClears
=============================================================================
