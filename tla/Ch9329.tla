------------------------------- MODULE Ch9329 -------------------------------
(***************************************************************************)
(* The CH9329 HID daemon (ch9329/src/{uart,session,proto,server}.rs): one  *)
(* owner thread takes command lines from a queue and executes them on a    *)
(* serial link to a chip that keeps its last reports whatever the daemon   *)
(* does.  Clients give up waiting at any time.                             *)
(*                                                                         *)
(* A command is a sequence of writes; every write may be applied or not    *)
(* and its reply arrive, be lost, or be garbled.  Keys and modifiers of a  *)
(* report are one set.                                                     *)
(***************************************************************************)
EXTENDS Integers, Sequences, FiniteSets, SequencesExt

CONSTANTS Usages, Modifiers, Buttons, \* what a report can hold
          KeySlots,                   \* KEY_SLOTS
          Rates, Candidates,          \* link rates, BAUD_CANDIDATES in order
          Commands,                   \* [verb, keys, arg], see Program; a text is typed from
                                      \* its characters, each a usage and the shift it needs
          ReqCap, MaxReqs,            \* REQ_CAP; bound on requests
          MaxEvents                   \* bound on replugs and power cycles

\* Commands whose keys are buttons.
MouseVerbs == {"click", "mdown", "mup"}

ASSUME ChAssumption ==
  /\ KeySlots \in Nat \ {0} /\ ReqCap \in Nat \ {0}
  /\ MaxReqs \in Nat /\ MaxEvents \in Nat
  /\ Candidates \in Seq(Rates) /\ Candidates # << >>
  /\ IsFiniteSet(Usages) /\ Usages \cap Modifiers = {}
  /\ \A cmd \in Commands :
       /\ DOMAIN cmd = {"verb", "keys", "arg"}
       /\ cmd.verb \notin MouseVerbs => cmd.keys \subseteq Usages \cup Modifiers
       /\ cmd.verb \in MouseVerbs => cmd.keys \subseteq Buttons
       /\ cmd.verb = "type" => cmd.arg \in Seq([usage : Usages, shift : SUBSET Modifiers])
       /\ cmd.verb = "usb" => cmd.arg \in {"host", "target", "state"}
       /\ cmd.verb = "baud" => cmd.arg \in Rates
       /\ cmd.verb # "release"

VARIABLES chip,     \* the chip: reachable, reports, rate, stored rate, mux side
          session,  \* the owner's Session, or closed
          lastBaud, \* last_baud: a set of at most one rate
          queue,    \* queued request numbers; 0 is the shutdown's Release
          reqs,     \* every request: command, state, what its client saw
          job,      \* the command being executed
          unsure,   \* devices whose report the owner has reason to doubt: the last write
                    \* failed and kept the session, or the power blinked
          slipped,  \* a SET_PARA_CFG lost its ack, or the reset after one did not arrive
          released, \* the shutdown release: no, asked, done, dirty
          events    \* replugs and power cycles so far
chVars == <<chip, session, lastBaud, queue, reqs, job, unsure, slipped, released, events>>

Closed == [open |-> FALSE, held |-> {}, btn |-> {}, baud |-> CHOOSE r \in Rates : TRUE]
NoJob == [req |-> 0, todo |-> <<>>, text |-> <<>>, err |-> "none", again |-> FALSE, faults |-> 0,
          was |-> {}]
Idle == job = NoJob
Used(held) == Cardinality(held \cap Usages)

-----------------------------------------------------------------------------
(***************************************************************************)
(* Commands (proto.rs execute_line, session.rs): the writes each makes.    *)
(***************************************************************************)

Kb(rep, role) == [dev |-> "kb", rep |-> rep, role |-> role]
Ms(rep) == [dev |-> "ms", rep |-> rep, role |-> "only"]
Ask(role, rep) == [dev |-> "chip", rep |-> rep, role |-> role]

\* At most n of S.
AtMost(S, n) == IF Cardinality(S) <= n THEN S ELSE CHOOSE t \in SUBSET S : Cardinality(t) = n

\* A report has KeySlots keys: apply_down drops one that does not fit.
Free(held) == IF Used(held) < KeySlots THEN KeySlots - Used(held) ELSE 0
ApplyDown(held, keys) ==
  held \cup (keys \ Usages) \cup AtMost((keys \cap Usages) \ held, Free(held))

KeysNeeded(keys, held) == Used(held \cup keys)

\* tap and combo: press everything, then release it again.
Hold(held, keys) == << Kb(ApplyDown(held, keys), "press"), Kb(held \ keys, "release") >>

\* type_text, one character: a held key is let go first, and the report has
\* room for KeySlots - 1 of the other keys.
TypeChar(held, ch) ==
  LET k == ch.usage
      rest == (held \ Usages) \cup AtMost((held \cap Usages) \ {k}, KeySlots - 1)
      press == Kb(rest \cup ch.shift \cup {k}, "press")
  IN IF k \in held THEN << Kb(held \ {k}, "only"), press, Kb(held, "release") >>
                   ELSE << press, Kb(held, "release") >>
TypeNext(held, text) == IF text = << >> THEN << >> ELSE TypeChar(held, Head(text))

\* click: press and release, the first error ends it.
Click(btn, keys) == << Ms(btn \cup keys), Ms(btn) >>

\* set_baud: read the block, store the rate, reset, look for the chip.
SetBaud(rate) ==
  << Ask("only", {}), Ask("persist", rate), Ask("reset", rate),
     Ask("probe", {}), Ask("probe", {}), Ask("probe", {}) >>

Program(cmd, s) ==
  CASE cmd.verb \in {"key", "combo"}  -> Hold(s.held, cmd.keys)
    [] cmd.verb = "type"              -> TypeNext(s.held, cmd.arg)
    [] cmd.verb = "down"              -> << Kb(ApplyDown(s.held, cmd.keys), "only") >>
    [] cmd.verb = "up"                -> << Kb(s.held \ cmd.keys, "only") >>
    [] cmd.verb = "releaseall"        -> << Kb({}, "only") >>
    [] cmd.verb = "release"           -> << Kb({}, "only"), Ms({}) >>
    [] cmd.verb = "click"             -> Click(s.btn, cmd.keys)
    [] cmd.verb = "mdown"             -> << Ms(s.btn \cup cmd.keys) >>
    [] cmd.verb = "mup"               -> << Ms(s.btn \ cmd.keys) >>
    [] cmd.verb \in {"move", "scroll", "moveabs"} -> << Ms(s.btn), Ms(s.btn) >>
    [] cmd.verb \in {"ping", "info"}  -> << Ask("query", {}) >>
    [] cmd.verb = "usb"               -> << Ask("mux", cmd.arg) >>
    [] cmd.verb = "baud"              -> SetBaud(cmd.arg)
    [] OTHER                          -> << >>

\* The characters a text has after its first.
TextAfter(cmd) == IF cmd.verb = "type" /\ cmd.arg # << >> THEN Tail(cmd.arg) ELSE << >>

\* What the session believes held once the command is under way.
HeldAfter(cmd, s) ==
  CASE cmd.verb \in {"key", "combo", "up"} -> [s EXCEPT !.held = @ \ cmd.keys]
    [] cmd.verb = "down"    -> [s EXCEPT !.held = ApplyDown(@, cmd.keys)]
    [] cmd.verb \in {"releaseall", "release"} -> [s EXCEPT !.held = {}]
    [] cmd.verb = "mdown"   -> [s EXCEPT !.btn = @ \cup cmd.keys]
    [] cmd.verb = "mup"     -> [s EXCEPT !.btn = @ \ cmd.keys]
    [] OTHER                -> s

\* A chord that does not fit is refused before anything is written.
Refused(cmd, s) == cmd.verb = "combo" /\ KeysNeeded(cmd.keys, s.held) > KeySlots

-----------------------------------------------------------------------------
(***************************************************************************)
(* The wire.                                                               *)
(***************************************************************************)

\* A frame reaches the chip or not; its reply comes back whole ("ok"), not
\* at all or with the port gone ("timeout"), or wrong ("bad": header, sum,
\* address, command or status).  Only a whole reply proves the frame arrived.
Outcomes ==
  IF session.open /\ chip.up /\ chip.rate = session.baud
  THEN {<<TRUE, "ok">>, <<TRUE, "timeout">>, <<TRUE, "bad">>, <<FALSE, "timeout">>, <<FALSE, "bad">>}
  ELSE {<<FALSE, "timeout">>}

\* What a frame does to the chip.
Applied(c, w) ==
  IF w.dev = "kb"            THEN [c EXCEPT !.kb = w.rep]
  ELSE IF w.dev = "ms"       THEN [c EXCEPT !.ms = w.rep]
  ELSE IF w.role = "persist" THEN [c EXCEPT !.flash = w.rep]
  ELSE IF w.role = "reset"   THEN [c EXCEPT !.rate = c.flash, !.kb = {}, !.ms = {}]
  ELSE IF w.role = "mux"     THEN [c EXCEPT !.side = IF w.rep = "state" THEN @ ELSE w.rep]
  ELSE c

\* The link's rate is the session's from the SET_PARA_CFG's ack on; the host
\* port follows after the reset, and until then the chip is still heard.
AfterWrite(w, res) ==
  IF w.role = "reset" THEN [session EXCEPT !.baud = w.rep, !.held = {}, !.btn = {}]
  ELSE IF w.dev = "ms" /\ job.req > MaxReqs THEN [session EXCEPT !.btn = {}]
  ELSE session

\* Mutant: a query is tried again as long as its reply is lost.
AgainForever(w, res) == res = "timeout" /\ w.role = "query"

\* retry_once_on_timeout: only a query is run twice.
Again(w, res) == res = "timeout" /\ w.role = "query" /\ ~job.again

\* A character was typed whole and another follows.
TypesOn(res) == res = "ok" /\ Len(job.todo) = 1 /\ job.text # << >> /\ job.err = "none"

\* Mutant: the release is not tried a second time.
AfterNever(w, res) ==
  LET rest == Tail(job.todo) IN
  IF TypesOn(res) THEN TypeNext(session.held, job.text)
  ELSE IF res = "ok" /\ w.role = "probe" THEN << >>
  ELSE IF res = "ok" \/ w.role \in {"reset", "probe"} THEN rest
  ELSE IF w.role = "press" THEN << Head(rest) >>
  ELSE << >>

\* What is left to write: finish_hold releases after a failed press, and
\* writes a failed release once more; any other failure ends the command.
After(w, res) ==
  LET rest == Tail(job.todo) IN
  IF Again(w, res) THEN job.todo
  ELSE IF TypesOn(res) THEN TypeNext(session.held, job.text)
  ELSE IF res = "ok" /\ w.role = "probe" THEN << >>
  ELSE IF res = "ok" \/ w.role \in {"reset", "probe"} THEN rest
  ELSE IF w.role = "press" THEN << Kb(Head(rest).rep, "only") >>
  ELSE IF w.role = "release" THEN << Kb(w.rep, "only") >>
  ELSE << >>

\* The error the command ends with: the first, with a mux timeout read as
\* "not supported" and a lost reset reply as none.
Error(w, res) ==
  IF res = "ok" \/ Again(w, res) \/ w.role = "reset" THEN IF w.role = "probe" THEN "none" ELSE job.err
  ELSE IF job.err # "none" THEN job.err
  ELSE IF w.role = "mux" THEN "bad"
  ELSE IF w.role = "probe" THEN "timeout"
  ELSE res

Write ==
  /\ ~Idle /\ job.todo # << >>
  /\ LET w == Head(job.todo) IN
     \E o \in Outcomes :
       /\ chip' = IF o[1] THEN Applied(chip, w) ELSE chip
       /\ session' = AfterWrite(w, o[2])
       /\ unsure' = IF w.role = "reset" THEN IF o[2] = "ok" THEN {} ELSE {"kb", "ms"}
                    ELSE IF o[2] = "ok" THEN unsure \ {w.dev} ELSE unsure \cup {w.dev}
       /\ slipped' = CASE w.role = "persist" -> slipped \/ (o[1] /\ o[2] # "ok")
                       [] w.role = "reset"   -> slipped \/ ~o[1]
                       [] OTHER              -> slipped
       /\ job' = [req    |-> job.req, was |-> job.was,
                  todo   |-> After(w, o[2]),
                  text   |-> IF TypesOn(o[2]) THEN Tail(job.text) ELSE job.text,
                  err    |-> Error(w, o[2]),
                  again  |-> job.again \/ Again(w, o[2]),
                  faults |-> IF o[2] = "ok" \/ job.faults = 2 THEN job.faults ELSE job.faults + 1]
  /\ UNCHANGED <<lastBaud, queue, reqs, released, events>>

-----------------------------------------------------------------------------
(***************************************************************************)
(* The owner thread (uart.rs).                                             *)
(***************************************************************************)

\* probe_order: the last rate, then the defaults.
ProbeOrder(last) == last \cup Range(Candidates)

\* Opening finds the chip at one of the rates and clears its reports; it may
\* fail before, between and after the two clearing writes.
OpenSession(ok) ==
  \/ /\ ok /\ chip.up /\ chip.rate \in ProbeOrder(lastBaud)
     /\ session' = [Closed EXCEPT !.open = TRUE, !.baud = chip.rate]
     /\ chip' = [chip EXCEPT !.kb = {}, !.ms = {}]
     /\ unsure' = {}
  \/ /\ ~ok
     /\ chip' \in {chip} \cup (IF chip.up /\ chip.rate \in ProbeOrder(lastBaud)
                               THEN {[chip EXCEPT !.kb = {}], [chip EXCEPT !.kb = {}, !.ms = {}]}
                               ELSE {})
     /\ UNCHANGED <<session, unsure>>

\* The client gave up while the request was queued: its reply is closed.
Abandoned(r) == reqs[r].client = "left"

\* serve_line's start, or handle_release's: open if needed, and begin.
Begin(r, cmd) ==
  IF session.open
  THEN /\ IF Refused(cmd, session)
          THEN job' = [NoJob EXCEPT !.req = r, !.err = "bad", !.was = chip.kb] /\ session' = session
          ELSE /\ job' = [NoJob EXCEPT !.req = r, !.todo = Program(cmd, session),
                                       !.text = TextAfter(cmd), !.was = session.held \cup chip.kb]
               /\ session' = HeldAfter(cmd, session)
       /\ UNCHANGED <<chip, unsure>>
  ELSE \/ OpenSession(TRUE) /\ UNCHANGED job
       \/ OpenSession(FALSE) /\ job' = [NoJob EXCEPT !.req = r, !.err = "timeout"]

\* Dequeue: skip what was abandoned, otherwise begin it.  (Opening first and
\* beginning next are two steps; nothing else of the owner's runs between.)
Serve ==
  /\ Idle /\ queue # << >> /\ Head(queue) # 0
  /\ LET r == Head(queue) IN
     \/ /\ Abandoned(r)
        /\ queue' = Tail(queue) /\ reqs' = [reqs EXCEPT ![r].state = "skipped"]
        /\ UNCHANGED <<chip, session, job, unsure, released>>
     \/ /\ ~Abandoned(r)
        /\ Begin(r, reqs[r].cmd)
        /\ queue' = IF job' = NoJob THEN queue ELSE Tail(queue)
        /\ reqs' = [reqs EXCEPT ![r].state = "running"]
        /\ released' = IF released = "done" THEN "dirty" ELSE released
  /\ UNCHANGED <<lastBaud, slipped, events>>

\* The shutdown's Release: everything up.
ServeRelease ==
  /\ Idle /\ queue # << >> /\ Head(queue) = 0
  /\ Begin(MaxReqs + 1, [verb |-> "release", keys |-> {}, arg |-> "none"])
  /\ queue' = IF job' = NoJob THEN queue ELSE Tail(queue)
  /\ UNCHANGED <<lastBaud, reqs, slipped, released, events>>

\* *last_baud = Some(s.baud()), after every command.
BaudSeen == {session.baud}

\* is_transport_error.
Transport(err) == err = "timeout"

\* The end of serve_line and of handle_release: remember the rate, drop the
\* session on a transport error, answer whoever still waits.
Finish ==
  /\ ~Idle /\ job.todo = << >>
  /\ job' = NoJob
  /\ IF job.req <= MaxReqs
     THEN /\ lastBaud' = IF session.open THEN BaudSeen ELSE lastBaud
          /\ session' = IF Transport(job.err) THEN Closed ELSE session
          /\ reqs' = [reqs EXCEPT ![job.req].state = IF job.err = "none" THEN "ok" ELSE "err"]
          /\ UNCHANGED released
     ELSE /\ released' = IF job.err = "none" THEN "done" ELSE "dirty"
          /\ UNCHANGED <<lastBaud, session, reqs>>
  /\ UNCHANGED <<chip, queue, unsure, slipped, events>>

Owner == Write \/ Serve \/ ServeRelease \/ Finish

-----------------------------------------------------------------------------
(***************************************************************************)
(* Clients (server.rs, HidHandle) and the bench.                           *)
(***************************************************************************)

\* HidHandle::send, from POST /send or the /hid WebSocket.
Send(cmd) ==
  /\ Len(reqs) < MaxReqs /\ Len(queue) < ReqCap
  /\ reqs' = Append(reqs, [cmd |-> cmd, state |-> "queued", client |-> "waits"])
  /\ queue' = Append(queue, Len(reqs) + 1)
  /\ UNCHANGED <<chip, session, lastBaud, job, unsure, slipped, released, events>>

\* SEND_TIMEOUT: the reply channel closes.  Once the command runs nobody looks
\* at the channel again: the command is finished and its answer dropped.
GiveUp(r) ==
  /\ reqs[r].client = "waits" /\ reqs[r].state = "queued"
  /\ reqs' = [reqs EXCEPT ![r].client = "left"]
  /\ UNCHANGED <<chip, session, lastBaud, queue, job, unsure, slipped, released, events>>

\* release_for_shutdown queues the Release behind what is queued.
ReleaseForShutdown ==
  /\ released = "no" /\ Len(queue) < ReqCap
  /\ released' = "asked" /\ queue' = Append(queue, 0)
  /\ UNCHANGED <<chip, session, lastBaud, reqs, job, unsure, slipped, events>>

\* The chip's cable or power goes, comes back, or blinks: a power cycle loses
\* the reports and starts at the stored rate, a pulled cable does not.
Bench ==
  /\ events < MaxEvents /\ events' = events + 1
  /\ \/ chip' = [chip EXCEPT !.up = ~@] /\ unsure' = unsure
     \/ chip' = [chip EXCEPT !.rate = chip.flash, !.kb = {}, !.ms = {}] /\ unsure' = {"kb", "ms"}
  /\ UNCHANGED <<session, lastBaud, queue, reqs, job, slipped, released>>

ChInit ==
  /\ chip = [up |-> TRUE, kb |-> Modifiers, ms |-> Buttons, rate |-> Head(Candidates),
             flash |-> Head(Candidates), side |-> "host"]
  /\ session = Closed /\ lastBaud = {} /\ queue = << >> /\ reqs = << >> /\ job = NoJob
  /\ unsure = {} /\ slipped = FALSE /\ released = "no" /\ events = 0

ChNext ==
  \/ Owner
  \/ \E cmd \in Commands : Send(cmd)
  \/ \E r \in DOMAIN reqs : GiveUp(r)
  \/ ReleaseForShutdown \/ Bench

ChSpec == ChInit /\ [][ChNext]_chVars

-----------------------------------------------------------------------------
(***************************************************************************)
(* Properties.                                                             *)
(***************************************************************************)

\* The variables' types.
ChTypeOK ==
  /\ chip \in [up : BOOLEAN, kb : SUBSET (Usages \cup Modifiers), ms : SUBSET Buttons,
               rate : Rates, flash : Rates, side : {"host", "target"}]
  /\ session \in [open : BOOLEAN, held : SUBSET (Usages \cup Modifiers), btn : SUBSET Buttons,
                  baud : Rates]
  /\ lastBaud \subseteq Rates /\ unsure \subseteq {"kb", "ms", "chip"}
  /\ \A i \in DOMAIN queue : queue[i] \in 0..Len(reqs)
  /\ released \in {"no", "asked", "done", "dirty"} /\ events \in 0..MaxEvents

\* Between commands, with a session open and the last write of a device
\* answered, the chip's report of that device is what the session believes
\* held: nothing is stuck down or silently up (session.rs push_keyboard,
\* push_all_clear on every open, set_baud's clearing).
ChipIsAsBelieved ==
  Idle /\ session.open =>
    /\ "kb" \notin unsure => chip.kb = session.held
    /\ "ms" \notin unsure => chip.ms = session.btn

\* finish_hold: a tap, chord or typed text that met at most one fault and a
\* reachable chip leaves no key down that was not down before it.
OneFaultLeavesNothingDown ==
  ~Idle /\ job.todo = << >> /\ job.req \in DOMAIN reqs /\ job.faults <= 1 /\ session.open =>
    (reqs[job.req].cmd.verb \in {"key", "combo", "type"} => chip.kb \subseteq job.was)

\* A held key that is typed is released on the wire first, so the target
\* sees its press as a new edge (type_text).
TypedKeyIsAnEdge ==
  ~Idle /\ job.req \in DOMAIN reqs /\ job.todo # << >> /\ unsure = {} =>
    (reqs[job.req].cmd.verb = "type" /\ Head(job.todo).role = "press"
       => Head(job.todo).rep # chip.kb)

\* A request whose client gave up while it was queued is never begun, and no
\* request that injects input is begun twice or out of order: requests are
\* settled in the order they were queued (serve_line).
AbandonedIsSkipped ==
  \A r \in DOMAIN reqs :
    /\ reqs[r].client = "left" => reqs[r].state \in {"queued", "skipped"}
    /\ \A q \in 1..(r - 1) : reqs[r].state # "queued" => reqs[q].state # "queued"

\* A press is written once: an injecting command is never run again after a
\* lost reply (retry_once_on_timeout).
InjectionNotRepeated ==
  [][\A r \in DOMAIN reqs :
       job.req = r /\ job'.req = r /\ job' # job /\ job.todo # << >> /\ Head(job.todo).role = "press"
         => Len(job'.todo) < Len(job.todo)]_chVars

\* The rate the chip stores is one a reopen probes, unless the ack of the
\* write that stored it was lost, or the reset after it (set_baud, last_baud).
StoredRateIsProbed ==
  Idle /\ ~slipped => chip.flash \in ProbeOrder(lastBaud)

\* The shutdown release that met no error leaves nothing held, until a later
\* command is served (handle_release).
ReleaseClears == released = "done" => chip.kb = {} /\ chip.ms = {}

\* Every queued request is settled whatever the chip does: the owner never
\* stays with one command.
QueuedIsServed ==
  \A r \in 1..MaxReqs :
    (r \in DOMAIN reqs /\ reqs[r].state = "queued")
      ~> (r \in DOMAIN reqs /\ reqs[r].state \in {"ok", "err", "skipped"})

\* Through lost replies, resets, a chip found at another rate and clients that give up, what the
\* session believes held is what the chip holds down, and nothing is left pressed (session.rs).
ChipIsKept ==
  /\ ChTypeOK
  /\ ChipIsAsBelieved
  /\ OneFaultLeavesNothingDown
  /\ TypedKeyIsAnEdge
  /\ AbandonedIsSkipped
  /\ StoredRateIsProbed
  /\ ReleaseClears

(***************************************************************************)
(* Pointer arithmetic: logical coordinates scaled to the chip's, and a     *)
(* relative total split into signed-byte steps.  A behaviour of its own    *)
(* counts through the coordinates, or through the totals.                  *)
(***************************************************************************)
CONSTANTS LogicalMax, \* LOGICAL_MAX
          AbsFull,    \* ABS_FULL
          MaxRel,     \* MAX_REL_TOTAL
          MaxStep,    \* 127
          MaxTotal    \* bound on the totals asked for

ASSUME PointerAssumption ==
  {LogicalMax, AbsFull, MaxRel, MaxStep, MaxTotal} \subseteq Nat \ {0}

VARIABLES coord, total
pointerVars == <<coord, total>>

Clamp(v, lo, hi) == IF v < lo THEN lo ELSE IF v > hi THEN hi ELSE v

\* scale_abs: rounded, and at most AbsFull - 1.
ScaleAbs(v) ==
  Clamp((Clamp(v, 0, LogicalMax) * AbsFull + LogicalMax \div 2) \div LogicalMax, 0, AbsFull - 1)

\* move_abs: one unit off first, so that the second report differs.
Nudge(v) == IF ScaleAbs(v) >= 1 THEN ScaleAbs(v) - 1 ELSE ScaleAbs(v) + 1

\* Mutant: the last step keeps only what a full step leaves over.
StepOfModulo(left) == IF left > MaxStep THEN left % MaxStep ELSE Clamp(left, -MaxStep, MaxStep)

StepOf(left) == Clamp(left, -MaxStep, MaxStep)

\* move_rel and scroll: the steps of one axis.
RelSteps(amount) ==
  LET steps[n \in 0..(MaxRel \div MaxStep + 2)] ==
        IF n = 0 THEN [left |-> Clamp(amount, -MaxRel, MaxRel), out |-> << >>]
        ELSE LET a == steps[n - 1] IN
             IF a.left = 0 THEN a
             ELSE [left |-> a.left - StepOf(a.left), out |-> Append(a.out, StepOf(a.left))]
  IN steps[MaxRel \div MaxStep + 2]

PointerInit == coord = 0 /\ total = -MaxTotal
PointerNext ==
  \/ total = -MaxTotal /\ coord < LogicalMax /\ coord' = coord + 1 /\ total' = total
  \/ coord = 0 /\ total < MaxTotal /\ total' = total + 1 /\ coord' = coord

\* A larger logical coordinate is never to the left of a smaller one, both ends
\* are reached, and the nudge is a different coordinate the chip has.
ScalingKeepsOrder ==
  /\ ScaleAbs(coord) \in 0..(AbsFull - 1) /\ ScaleAbs(coord) <= ScaleAbs(coord + 1)
  /\ ScaleAbs(0) = 0 /\ ScaleAbs(LogicalMax) = AbsFull - 1
  /\ Nudge(coord) \in 0..(AbsFull - 1) \ {ScaleAbs(coord)}

\* The steps add up to the total asked for, within the limit of one call, and
\* each fits a signed byte.
StepsAddUp ==
  LET out == RelSteps(total).out
  IN /\ FoldLeft(LAMBDA a, b : a + b, 0, out) = Clamp(total, -MaxRel, MaxRel)
     /\ \A i \in DOMAIN out : out[i] # 0 /\ out[i] \in -MaxStep..MaxStep
=============================================================================
