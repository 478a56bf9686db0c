----------------------------- MODULE VideoView -----------------------------
(***************************************************************************)
(* hdmicap's RFB server: what one viewer has been sent of the screen, and  *)
(* what viewers type and point at, carried in order to the target's HID    *)
(* daemon over one link.                                                   *)
(*                                                                         *)
(* A screen is one row of pixels, cut into tiles; a message is what it     *)
(* asks for, the framing and the encodings left out (Zrle has those).      *)
(***************************************************************************)
EXTENDS Integers, Sequences, FiniteSets, SequencesExt

CONSTANTS Screens,      \* what is captured: [px, hash]; no pixels: nothing decodable
          Tile,         \* TILE (64)
          Asks,         \* what a viewer asks for: [inc, x, w]
          MaxShown, MaxAsks, \* bounds: frames, requests
          Syms,         \* keysym -> [name, shifted, shift]; no name: not a HID key
          Typists, Pointers, \* the sessions that type, and that point
          Spots, QueueCap,   \* QUEUE (256)
          MaxMoves, MaxKeys, MaxOutages, \* bounds
          Watchers, MaxClients \* MAX_CLIENTS (8)

ASSUME ViewAssumption ==
  /\ {Tile, QueueCap, MaxClients} \subseteq Nat \ {0} /\ MaxAsks \in Nat /\ IsFiniteSet(Watchers)
  /\ \A s \in Screens : s.px \in Seq(Nat)
  /\ Asks \subseteq [inc : BOOLEAN, x : Nat, w : Nat]

VARIABLES shown,   \* the warm frame
          view,    \* the session: its framebuffer, its pending request
          eye,     \* the pixels the viewer holds
          hands,   \* session -> Input
          queue,   \* HidLink's channel
          link,    \* its writer
          target,  \* the target machine's keys, buttons and pointer
          slots    \* who holds a client slot, and the counter

viewVars == <<shown, view, eye>>
inputVars == <<hands, queue, link, target>>

(***************************************************************************)
(* The viewer's framebuffer.                                               *)
(***************************************************************************)
NoReq == [inc |-> FALSE, x |-> -1, w |-> 0]
Black(w) == [i \in 1..w |-> 0]
Tiles(w) == 0..((w + Tile - 1) \div Tile - 1)
CellsOf(t, w) == { i \in 1..w : (i - 1) \div Tile = t }
ClientFb(w) == [w |-> w, sent |-> Black(w), known |-> [t \in Tiles(w) |-> FALSE]]
Lesser(a, b) == IF a < b THEN a ELSE b
Clip(fb, r) == (Lesser(r.x, fb.w) + 1)..Lesser(r.x + r.w, fb.w)

\* Of each tile the request touches, the part it asks for, when it must be sent.
Region(fb, t, req) == CellsOf(t, fb.w) \cap req
Dirty(fb, px, req, everything) ==
  UNION { Region(fb, t, req) : t \in
    { u \in Tiles(fb.w) :
        everything \/ ~fb.known[u] \/ \E i \in Region(fb, u, req) : px[i] # fb.sent[i] } }

Commit(fb, px, cells) ==
  [fb EXCEPT !.sent = [i \in 1..fb.w |-> IF i \in cells THEN px[i] ELSE fb.sent[i]],
             !.known = [t \in Tiles(fb.w) |-> fb.known[t] \/ CellsOf(t, fb.w) \subseteq cells]]

\* A frame of another size reallocates the viewer's framebuffer, which is then refilled.
Resized(v, px) == Len(px) # v.fb.w
FbFor(v, px) == IF Resized(v, px) THEN ClientFb(Len(px)) ELSE v.fb
Refill(v, px) == IF Resized(v, px) THEN [inc |-> FALSE, x |-> 0, w |-> Len(px)] ELSE v.pending

FrameKey(f) == <<f.hash, Len(f.px)>>
LastDiffedAlways(f, covers) == FrameKey(f)
LastDiffed(f, covers) == IF covers THEN FrameKey(f) ELSE << >>

AfterSend(req, sends) == IF sends THEN NoReq ELSE req

\* Work::update: what of px goes to the viewer, and what the session then knows.
Update(v, px) ==
  LET fb == FbFor(v, px)
      req == Refill(v, px)
      cells == Dirty(fb, px, Clip(fb, req), ~req.inc)
      sends == cells # {} \/ Resized(v, px)
  IN /\ view' = [v EXCEPT !.fb = Commit(fb, px, cells), !.last = LastDiffed(shown, Clip(fb, req) = 1..fb.w),
                          !.pending = AfterSend(@, sends), !.answers = @ + (IF sends THEN 1 ELSE 0)]
     /\ eye' = [i \in 1..fb.w |-> IF i \in cells THEN px[i] ELSE IF Resized(v, px) THEN -1 ELSE eye[i]]

\* try_update, with the request in v.pending.
TryUpdate(v) ==
  LET w == [v EXCEPT !.seen = shown.id]
      unmoved == v.pending.inc /\ v.last = FrameKey(shown)
  IN IF unmoved \/ (v.pending.inc /\ shown.px = << >>) THEN view' = w /\ UNCHANGED eye
     ELSE LET px == IF shown.px = << >> THEN Black(v.fb.w) ELSE shown.px
          IN IF Resized(v, px) /\ ~v.desktop THEN view' = [w EXCEPT !.open = FALSE] /\ UNCHANGED eye
             ELSE Update(w, px)

Show ==
  /\ shown.id < MaxShown /\ \E s \in Screens : shown' = [id |-> shown.id + 1, px |-> s.px, hash |-> s.hash]
  /\ UNCHANGED <<view, eye>>
\* A message is taken before the next frame; a later request replaces a pending one.
AskUpdate ==
  /\ view.open /\ view.asks < MaxAsks
  /\ \E r \in Asks : TryUpdate([view EXCEPT !.pending = r, !.asks = @ + 1])
  /\ UNCHANGED shown
FrameChanged ==
  /\ view.open /\ view.pending # NoReq /\ view.seen # shown.id
  /\ TryUpdate(view) /\ UNCHANGED shown

\* The handshake announces the size of the warm frame, or a placeholder's.
ViewInit ==
  /\ \E s \in Screens : shown = [id |-> 1, px |-> s.px, hash |-> s.hash]
  /\ LET w == IF shown.px = << >> THEN 2 ELSE Len(shown.px)
     IN /\ eye = [i \in 1..w |-> -1]
        /\ \E d \in BOOLEAN :
             view = [fb |-> ClientFb(w), pending |-> NoReq, last |-> << >>, seen |-> 1, desktop |-> d,
                     open |-> TRUE, asks |-> 0, answers |-> 0]
ViewNext == Show \/ AskUpdate \/ FrameChanged
ViewTypeOK ==
  /\ view.fb.w = Len(eye) /\ DOMAIN view.fb.sent = 1..view.fb.w /\ view.fb.known \in [Tiles(view.fb.w) -> BOOLEAN]
  /\ view.asks \in 0..MaxAsks /\ view.answers \in 0..MaxAsks

\* What the session takes the viewer to hold of the tiles it knows, the viewer holds.
EyeIsAsSent ==
  \A t \in DOMAIN view.fb.known :
    view.fb.known[t] => \A i \in CellsOf(t, view.fb.w) : eye[i] = view.fb.sent[i]
\* A viewer kept waiting with an incremental request for the whole screen has the whole
\* screen: pixels of the settled picture that is warm.
WaitingViewerIsCurrent ==
  (view.open /\ view.pending.inc /\ view.seen = shown.id /\ shown.px # << >>
     /\ Clip(view.fb, view.pending) = 1..view.fb.w) =>
    \E s \in Screens : s.px = eye /\ s.hash = shown.hash
\* The viewer is sent an update for a request of its own, never unasked.
AnswersAreAsked == view.answers <= view.asks

(***************************************************************************)
(* Keys and pointer.                                                       *)
(***************************************************************************)
Sessions == Typists \cup Pointers
Nowhere == "nowhere"
Line(op, what, where) == [op |-> op, what |-> what, where |-> where, era |-> link.outages]
Move(where) == Line("move", "", where)
\* (where, era: history, of a press: where it was meant, and after how many outages and drops.)
\* A session's lines go one at a time; each send waits for room in the queue.
NoHands == [open |-> TRUE, held |-> {}, users |-> {}, mask |-> FALSE, pos |-> Nowhere, lines |-> << >>,
            keys |-> 0, moves |-> 0]

InputInit ==
  /\ hands = [s \in Sessions |-> NoHands]
  /\ queue = << >> /\ link = [up |-> FALSE, pos |-> Nowhere, outages |-> 0, lost |-> FALSE]
  /\ target = [keys |-> {}, button |-> FALSE, at |-> "home", missed |-> FALSE]

\* Lines that can be queued without waiting; the rest when the link takes some.
FlushOrDrop(s) ==
  /\ hands[s].lines # << >>
  /\ queue' = IF Len(queue) < QueueCap THEN Append(queue, Head(hands[s].lines)) ELSE queue
  /\ hands' = [hands EXCEPT ![s].lines = Tail(@)]
  /\ UNCHANGED <<link, target>>
Flush(s) ==
  /\ hands[s].lines # << >> /\ Len(queue) < QueueCap
  /\ queue' = Append(queue, Head(hands[s].lines))
  /\ hands' = [hands EXCEPT ![s].lines = Tail(@)]
  /\ UNCHANGED <<link, target>>
Ready(s) == hands[s].open /\ hands[s].lines = << >>

\* The HID key of a keysym; a keysym without one is dropped.
Lookup(k) == Syms[k]
RealShifts(h) == { k \in h.held : Lookup(k).shift }
KeyDown(s, k) ==
  /\ Ready(s) /\ hands[s].keys < MaxKeys /\ k \notin hands[s].held /\ Lookup(k).name # ""
  /\ LET h == hands[s]
         synth == Lookup(k).shifted /\ RealShifts(h) = {}
     IN hands' = [hands EXCEPT ![s] =
          [h EXCEPT !.held = @ \cup {k}, !.users = IF synth THEN @ \cup {k} ELSE @, !.keys = @ + 1,
            !.lines = (IF synth /\ h.users = {} THEN <<Line("down", "LEFT_SHIFT", Nowhere)>> ELSE << >>)
                      \o <<Line("down", Lookup(k).name, Nowhere)>>]]
  /\ UNCHANGED <<queue, link, target>>
KeyUp(s, k) ==
  /\ Ready(s) /\ k \in hands[s].held
  /\ LET h == hands[s]
     IN hands' = [hands EXCEPT ![s] =
          [h EXCEPT !.held = @ \ {k}, !.users = @ \ {k},
            !.lines = <<Line("up", Lookup(k).name, Nowhere)>>
                      \o (IF h.users = {k} THEN <<Line("up", "LEFT_SHIFT", Nowhere)>> ELSE << >>)]]
  /\ UNCHANGED <<queue, link, target>>

\* A press or release is preceded by its position; a plain move may be lost to a full queue.
PointEdge(s, p) ==
  /\ Ready(s) /\ hands[s].moves < MaxMoves
  /\ hands' = [hands EXCEPT ![s] =
       [@ EXCEPT !.mask = ~@, !.pos = p, !.moves = @ + 1,
         !.lines = <<Move(p), Line(IF hands[s].mask THEN "mup" ELSE "mdown", "left", p)>>]]
  /\ UNCHANGED <<queue, link, target>>
PointMove(s, p) ==
  /\ Ready(s) /\ hands[s].moves < MaxMoves /\ hands[s].pos # p
  /\ hands' = [hands EXCEPT ![s].pos = p, ![s].moves = @ + 1]
  /\ queue' = IF Len(queue) < QueueCap THEN Append(queue, Move(p)) ELSE queue
  /\ UNCHANGED <<link, target>>

\* Drop for Input: what is still held is released, without waiting for room.
LeftKeys(h) == SetToSeq({ Line("up", Lookup(k).name, Nowhere) : k \in h.held })
LeftHeld(h) ==
  LeftKeys(h) \o (IF h.users # {} THEN <<Line("up", "LEFT_SHIFT", Nowhere)>> ELSE << >>)
    \o (IF h.mask THEN <<Line("mup", "left", Nowhere)>> ELSE << >>)
Leave(s) ==
  /\ hands[s].open
  /\ LET left == LeftHeld(hands[s])
         room == QueueCap - Len(queue)
     IN /\ queue' = queue \o SubSeq(left, 1, Lesser(room, Len(left)))
        /\ link' = [link EXCEPT !.lost = @ \/ Len(left) > room \/ hands[s].lines # << >>]
  /\ hands' = [hands EXCEPT ![s] = [NoHands EXCEPT !.open = FALSE]]
  /\ UNCHANGED target

\* The HID daemon's own end: what a line does.
Does(t, l) ==
  IF l.op = "down" THEN [t EXCEPT !.keys = @ \cup {l.what}]
  ELSE IF l.op = "up" THEN [t EXCEPT !.keys = @ \ {l.what}]
  ELSE IF l.op = "move" THEN [t EXCEPT !.at = l.where]
  ELSE [t EXCEPT !.button = (l.op = "mdown"), !.missed = @ \/ (l.where # Nowhere /\ l.era = link.outages /\ t.at # l.where)]

\* The writer's batch: of a run of moves the last, and not one that is where it is.
Skipped(batch, i, pos) ==
  batch[i].op = "move" /\ ((i < Len(batch) /\ batch[i + 1].op = "move") \/ batch[i].where = pos)
\* Written[i] is what the first i items of the batch have done.
Written(batch) ==
  LET W[i \in 0..Len(batch)] ==
        IF i = 0 THEN [t |-> target, pos |-> link.pos]
        ELSE IF Skipped(batch, i, W[i - 1].pos) THEN W[i - 1]
        ELSE [t |-> Does(W[i - 1].t, batch[i]),
              pos |-> IF batch[i].op = "move" THEN batch[i].where ELSE W[i - 1].pos]
  IN W

LinkDown(l) == [l EXCEPT !.up = FALSE, !.pos = Nowhere, !.outages = @ + 1, !.lost = TRUE]
WriteBatch ==
  /\ queue # << >> /\ queue' = << >>
  /\ LET W == Written(queue)
     IN \/ link' = [link EXCEPT !.up = TRUE, !.pos = W[Len(queue)].pos] /\ target' = W[Len(queue)].t
        \/ ~link.up /\ link.outages < MaxOutages /\ link' = LinkDown(link) /\ UNCHANGED target
        \/ /\ link.outages < MaxOutages /\ link' = LinkDown(link)
           /\ \E i \in 0..(Len(queue) - 1) : target' = W[i].t
  /\ UNCHANGED hands
\* The daemon ends the connection; a new one may find the pointer elsewhere.
DaemonGone ==
  /\ link.up /\ link.outages < MaxOutages /\ link' = LinkDown(link)
  /\ target' = [target EXCEPT !.at = "home"] /\ UNCHANGED <<hands, queue>>

InputNext ==
  \/ WriteBatch \/ DaemonGone
  \/ \E s \in Typists : \E k \in DOMAIN Syms : KeyDown(s, k) \/ KeyUp(s, k)
  \/ \E s \in Pointers : \E p \in Spots : PointEdge(s, p) \/ PointMove(s, p)
  \/ \E s \in Sessions : Flush(s) \/ Leave(s)

\* The channel holds no more than it may, whatever sessions type while its writer is away.
QueueIsBounded == Len(queue) <= QueueCap
\* With nothing in the queue and no line lost to the daemon's absence or to a viewer gone
\* with a full queue, the target's keys are those the sessions hold: none is left down by a
\* viewer that went away, and none is lost to a full queue.
TargetHoldsWhatIsHeld ==
  (queue = << >> /\ ~link.lost /\ \A s \in Sessions : hands[s].lines = << >>) =>
    /\ target.keys \ {"LEFT_SHIFT"} = { Lookup(k).name : k \in UNION { hands[s].held : s \in Sessions } } \ {"LEFT_SHIFT"}
    /\ target.button = (\E s \in Sessions : hands[s].mask)
    /\ (\A s \in Sessions : hands[s].held = {}) => "LEFT_SHIFT" \notin target.keys

\* "so a click lands where the pointer was sent" (hid_link.rs), as long as one viewer points
\* and the daemon does not go away between the two: also after it has been away.
ClickLandsWhereSent == ~target.missed

(***************************************************************************)
(* Client slots: counted up first, and down again when that was too many.  *)
(***************************************************************************)
SlotsInit == slots = [count |-> 0, at |-> [c \in Watchers |-> "out"]]
SlotAdd(c) ==
  /\ slots.at[c] = "out"
  /\ slots' = [count |-> slots.count + 1,
               at |-> [slots.at EXCEPT ![c] = IF slots.count >= MaxClients THEN "refused" ELSE "in"]]
SlotLeave(c) ==
  /\ slots.at[c] # "out"
  /\ slots' = [count |-> slots.count - 1, at |-> [slots.at EXCEPT ![c] = "out"]]
SlotsNext == \E c \in Watchers : SlotAdd(c) \/ SlotLeave(c)

\* No more sessions than slots, however the arrivals interleave, and a slot is never lost:
\* an empty house has all of them.
SlotsAreKept ==
  /\ Cardinality({ c \in Watchers : slots.at[c] = "in" }) <= MaxClients
  /\ slots.count = Cardinality({ c \in Watchers : slots.at[c] # "out" })

\* A session takes its requests and frames while others come and go.
ViewSpec ==
  /\ ViewInit /\ SlotsInit
  /\ [][(ViewNext /\ UNCHANGED slots) \/ (SlotsNext /\ UNCHANGED viewVars)]_<<viewVars, slots>>

\* Every viewer's picture is what its session thinks it is, no viewer is left with an old one,
\* and no more are let in than there are slots for (rfb_serve.rs).
ViewersAreKept ==
  /\ ViewTypeOK
  /\ EyeIsAsSent
  /\ WaitingViewerIsCurrent
  /\ AnswersAreAsked
  /\ SlotsAreKept
=============================================================================
