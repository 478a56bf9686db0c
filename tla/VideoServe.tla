----------------------------- MODULE VideoServe -----------------------------
(***************************************************************************)
(* hdmicap's HTTP side: snapshots, OCR, the browser preview and the power  *)
(* buttons, all fed from the one warm frame that the capture thread        *)
(* (VideoCapture) publishes.  What clients want paces that thread; a       *)
(* semaphore bounds the expensive work; helpers run as child processes.    *)
(*                                                                         *)
(* A request runs in steps, one per await; its client may go away at any   *)
(* of them, which drops the request and whatever it holds.                 *)
(***************************************************************************)
EXTENDS Integers, Sequences, FiniteSets

CONSTANTS Clients,
          Requests,  \* client -> what it may ask for: [op, stable, since]
          Shots,     \* what the capture thread publishes: [sig, hash, form]
          Permits,   \* EXPENSIVE_PERMITS (2)
          MaxFrames, MaxRequests \* bounds: frames published, requests per client

ASSUME ServeAssumption ==
  /\ {MaxFrames, MaxRequests, Permits} \subseteq Nat \ {0} /\ IsFiniteSet(Clients)
  /\ \A c \in Clients : \A q \in Requests[c] :
       q.op \in {"snapshot", "ocr", "preview", "power"} /\ q.stable \in BOOLEAN
  /\ \A s \in Shots :
       s.sig \in {"stable", "mode_switching", "no_signal", "no_device"} /\ s.form \in {"jpeg", "pixels", "bad"}

VARIABLES film,     \* the published frame, and whether its thread still runs
          pace,     \* the capture thread between two frames: capturing, check, park, asleep
          token,    \* its park token
          streams,  \* Demand::streams
          pulled,   \* a pull is recent
          free,     \* permits
          cache,    \* the frame whose preview JPEG is cached
          req,      \* client -> its request
          asked     \* client -> how many it has made

serveVars == <<film, pace, token, streams, pulled, free, cache, req, asked>>

\* A frame's form: the device's own JPEG, pixels that encode, or a malformed buffer.
NoFrame == [id |-> 0, sig |-> "no_device", hash |-> 0, form |-> "bad", old |-> TRUE, stale |-> FALSE]
Idle ==
  [op |-> "none", at |-> "idle", seen |-> 0, stable |-> FALSE, since |-> 0, late |-> FALSE, f |-> NoFrame,
   stream |-> FALSE, permit |-> FALSE, child |-> "none", served |-> <<"nothing", 0>>, shown |-> "none",
   tries |-> 0,  \* history: encodes of the same frame that have failed
   need |-> 0]   \* history: the oldest frame a pull may be given

ServeInit ==
  /\ film = [warm |-> NoFrame, alive |-> TRUE]
  /\ pace = "capturing" /\ token = FALSE /\ streams = 0 /\ pulled = FALSE /\ free = Permits /\ cache = 0
  /\ req = [c \in Clients |-> Idle] /\ asked = [c \in Clients |-> 0]

Warm == film.warm
Effective(f) == IF f.sig \in {"stable", "mode_switching"} /\ f.stale THEN "stale" ELSE f.sig
Live(f) == Effective(f) \in {"stable", "mode_switching"}

(***************************************************************************)
(* The capture thread, as the server sees it, and its pacing.              *)
(***************************************************************************)
Publish ==
  /\ film.alive /\ pace = "capturing" /\ Warm.id < MaxFrames
  /\ \E s \in Shots :
       film' = [film EXCEPT !.warm = [id |-> Warm.id + 1, sig |-> s.sig, hash |-> s.hash, form |-> s.form,
                                      old |-> FALSE, stale |-> FALSE]]
  /\ pace' = "check" /\ UNCHANGED <<token, streams, pulled, free, cache, req, asked>>

\* demand.interval(): the full rate while a stream is open or a pull is recent.
FullRate == streams > 0 \/ pulled
Paces ==
  /\ film.alive
  /\ \/ pace = "check" /\ pace' = (IF FullRate THEN "capturing" ELSE "park") /\ UNCHANGED token
     \/ pace = "park" /\ pace' = (IF token THEN "check" ELSE "asleep") /\ token' = FALSE
     \/ pace = "asleep" /\ pace' = "capturing" /\ UNCHANGED token
  /\ UNCHANGED <<film, streams, pulled, free, cache, req, asked>>

\* unpark: a sleeping thread wakes; an awake one will not sleep next time.
Wakes(p) == IF p = "asleep" THEN "check" ELSE p
Unpark ==
  IF film.alive THEN pace' = Wakes(pace) /\ token' = (pace # "asleep" \/ token)
  ELSE UNCHANGED <<pace, token>>

\* Time: a frame is no longer fresh, then no longer live; a pull is no longer recent.
\* The thread may end, and with it the channel.
Ages ==
  /\ \/ ~Warm.old /\ Warm.id > 0 /\ film' = [film EXCEPT !.warm.old = TRUE] /\ UNCHANGED pulled
     \/ Warm.old /\ ~Warm.stale /\ Warm.id > 0 /\ film' = [film EXCEPT !.warm.stale = TRUE] /\ UNCHANGED pulled
     \/ pulled /\ pulled' = FALSE /\ UNCHANGED film
     \/ film.alive /\ pace = "capturing" /\ film' = [film EXCEPT !.alive = FALSE] /\ UNCHANGED pulled
  /\ UNCHANGED <<pace, token, streams, free, cache, req, asked>>

(***************************************************************************)
(* A request: its steps, and what it gives back when it ends.              *)
(***************************************************************************)
Goes(c, r) == req' = [req EXCEPT ![c] = r]
To(c, at) == Goes(c, [req[c] EXCEPT !.at = at])
At(c, at) == req[c].at = at
OnlyReq == UNCHANGED <<film, pace, token, streams, pulled, free, cache, asked>>

Dropped(r) == [r EXCEPT !.stream = FALSE, !.permit = FALSE, !.child = "none"]
Gives(r) ==
  /\ streams' = streams - (IF r.stream THEN 1 ELSE 0)
  /\ free' = free + (IF r.permit THEN 1 ELSE 0)
Ends(c) ==
  /\ Gives(req[c])
  /\ Goes(c, LET r == Dropped(req[c])
             IN [Idle EXCEPT !.op = r.op, !.at = "done", !.stream = r.stream, !.permit = r.permit, !.child = r.child])
  /\ UNCHANGED <<film, pace, token, pulled, cache, asked>>

FirstStep(op) == IF op \in {"snapshot", "ocr"} THEN "pull" ELSE IF op = "preview" THEN "count" ELSE "spawn"
Ask(c) ==
  /\ req[c].at \in {"idle", "done"} /\ asked[c] < MaxRequests
  /\ asked' = [asked EXCEPT ![c] = @ + 1]
  /\ \E q \in Requests[c] :
       Goes(c, [Idle EXCEPT !.op = q.op, !.stable = q.stable, !.since = q.since, !.at = FirstStep(q.op)])
  /\ UNCHANGED <<film, pace, token, streams, pulled, free, cache>>

\* A client that goes away drops its request at the next await.
Disconnect(c) == req[c].at \notin {"idle", "done"} /\ Ends(c)

AfterFresh(c) ==
  IF req[c].op = "ocr" THEN "take"
  ELSE IF req[c].stable \/ req[c].since # 0 THEN "count" ELSE "poll"
Look(c) == [req[c] EXCEPT !.seen = Warm.id, !.at = IF Warm.old THEN "fresh" ELSE AfterFresh(c)]
\* demand.pulled(), then fresh_frame.
Pulled(c) ==
  /\ At(c, "pull") /\ pulled' = TRUE /\ Unpark
  /\ Goes(c, [Look(c) EXCEPT !.need = Warm.id + (IF Warm.old THEN 1 ELSE 0)])
  /\ UNCHANGED <<film, streams, free, cache, asked>>
FreshFrame(c) ==
  /\ At(c, "fresh")
  /\ \/ req[c].seen # Warm.id /\ Goes(c, [req[c] EXCEPT !.at = AfterFresh(c), !.seen = Warm.id])
     \/ Goes(c, [req[c] EXCEPT !.at = AfterFresh(c), !.need = 0])
  /\ OnlyReq

\* demand.stream(): count, then wake.
StreamWakeFirst(c) ==
  \/ /\ At(c, "count") /\ Unpark /\ To(c, "wake")
     /\ UNCHANGED <<film, streams, pulled, free, cache, asked>>
  \/ /\ At(c, "wake") /\ streams' = streams + 1
     /\ Goes(c, [req[c] EXCEPT !.stream = TRUE, !.at = IF @ = "wake" /\ req[c].op = "preview" THEN "tick" ELSE "poll"])
     /\ UNCHANGED <<film, pace, token, pulled, free, cache, asked>>
Stream(c) ==
  \/ /\ At(c, "count") /\ streams' = streams + 1
     /\ Goes(c, [req[c] EXCEPT !.stream = TRUE, !.at = "wake"])
     /\ UNCHANGED <<film, pace, token, pulled, free, cache, asked>>
  \/ /\ At(c, "wake") /\ Unpark
     /\ To(c, IF req[c].op = "preview" THEN "tick" ELSE "poll")
     /\ UNCHANGED <<film, streams, pulled, free, cache, asked>>

(***************************************************************************)
(* GET /snapshot                                                           *)
(***************************************************************************)
SnapshotReady(f, ws, since) ==
  /\ ws => Effective(f) = "stable"
  /\ since # 0 => f.hash # since

\* Until it is ready or the deadline passes; then the frame is read again to be sent.
Snapshot(c) ==
  /\ \/ /\ At(c, "poll")
        /\ Goes(c, [req[c] EXCEPT !.seen = Warm.id,
                     !.at = IF SnapshotReady(Warm, req[c].stable, req[c].since) THEN "take" ELSE "wait"])
     \/ At(c, "wait") /\ req[c].seen # Warm.id /\ Goes(c, [req[c] EXCEPT !.at = "poll", !.seen = Warm.id])
     \/ At(c, "wait") /\ Goes(c, [req[c] EXCEPT !.at = "take", !.late = TRUE])
  /\ OnlyReq
SnapshotGone(c) == At(c, "wait") /\ ~film.alive /\ req[c].seen = Warm.id /\ Ends(c)

\* The frame to send: refused when it is not the screen, and for OCR when it is dark.
Refused(f, op) == Effective(f) = "stale" \/ f.sig = "no_device" \/ (op = "ocr" /\ f.sig = "no_signal")
Take(c) ==
  /\ At(c, "take")
  /\ IF Refused(Warm, req[c].op) THEN Ends(c)
     ELSE Goes(c, [req[c] EXCEPT !.f = Warm, !.seen = 0, !.at = "permit"]) /\ OnlyReq

\* An expensive step holds a permit for as long as it lasts.
Acquire(c) ==
  /\ At(c, "permit") /\ free > 0 /\ free' = free - 1
  /\ Goes(c, [req[c] EXCEPT !.permit = TRUE, !.need = 0, !.late = FALSE,
               !.at = IF req[c].op = "preview" THEN "jpeg" ELSE IF req[c].child = "next" THEN "spawn" ELSE "png"])
  /\ UNCHANGED <<film, pace, token, streams, pulled, cache, asked>>
EncodePng(c) ==
  /\ At(c, "png")
  /\ IF req[c].f.form = "bad" \/ req[c].op = "snapshot" THEN Ends(c)
     ELSE /\ free' = free + 1
          /\ Goes(c, [req[c] EXCEPT !.permit = FALSE, !.child = "next", !.at = "permit"])
          /\ UNCHANGED <<film, pace, token, streams, pulled, cache, asked>>

(***************************************************************************)
(* Children: the OCR helper, the power commands.                           *)
(***************************************************************************)
Spawn(c) ==
  /\ At(c, "spawn")
  /\ \/ Ends(c)
     \/ \E k \in {"works", "wedged"} : Goes(c, [req[c] EXCEPT !.child = k, !.at = "child"]) /\ OnlyReq
WaitWithTimeout(c) ==
  /\ At(c, "child")
  /\ \/ req[c].child = "works" /\ Ends(c)
     \/ Ends(c)

(***************************************************************************)
(* GET /preview                                                            *)
(***************************************************************************)
ShouldAttemptLive(r, f) == r.served \notin {<<"frame", f.id>>, <<"failed", f.id>>}
Sends(r, what, id) ==
  [r EXCEPT !.served = <<what, id>>, !.shown = IF what = "failed" THEN @ ELSE what, !.at = "tick", !.f = NoFrame,
            !.tries = IF what # "failed" THEN 0 ELSE IF r.served = <<what, id>> THEN @ + 1 ELSE 1]
ShowsPlaceholder(r, s) == r.served # <<s, 0>>
PreviewTick(c) ==
  /\ At(c, "tick")
  /\ \/ /\ Live(Warm) /\ ShouldAttemptLive(req[c], Warm)
        /\ Goes(c, IF Warm.form = "jpeg" THEN Sends(req[c], "frame", Warm.id)
                   ELSE [req[c] EXCEPT !.f = Warm, !.at = "permit"])
     \/ /\ ~Live(Warm) /\ ShowsPlaceholder(req[c], Effective(Warm))
        /\ Goes(c, Sends(req[c], Effective(Warm), 0))
  /\ OnlyReq
\* With the permit: another viewer's bytes for this very frame, or an encode.
EncodePreview(c) ==
  /\ At(c, "jpeg") /\ free' = free + 1
  /\ LET r == [req[c] EXCEPT !.permit = FALSE]
     IN IF cache = r.f.id THEN Goes(c, Sends(r, "frame", r.f.id)) /\ UNCHANGED cache
        ELSE IF r.f.form = "bad" THEN Goes(c, Sends(r, "failed", r.f.id)) /\ UNCHANGED cache
        ELSE Goes(c, Sends(r, "frame", r.f.id)) /\ cache' = r.f.id
  /\ UNCHANGED <<film, pace, token, streams, pulled, asked>>

Serves(c) ==
  \/ Pulled(c) \/ FreshFrame(c) \/ Stream(c) \/ Snapshot(c) \/ SnapshotGone(c) \/ Take(c)
  \/ Acquire(c) \/ EncodePng(c) \/ Spawn(c) \/ WaitWithTimeout(c) \/ PreviewTick(c) \/ EncodePreview(c)
ServeNext == Publish \/ Paces \/ Ages \/ (\E c \in Clients : Ask(c) \/ Disconnect(c) \/ Serves(c))
ServeSpec == ServeInit /\ [][ServeNext]_serveVars

(***************************************************************************)
(* What it promises.                                                       *)
(***************************************************************************)
ServeTypeOK ==
  /\ pace \in {"capturing", "check", "park", "asleep"} /\ token \in BOOLEAN /\ pulled \in BOOLEAN
  /\ streams \in 0..Cardinality(Clients) /\ free \in 0..Permits
  /\ cache \in 0..MaxFrames /\ asked \in [Clients -> 0..MaxRequests]

\* The capture thread does not sleep at its idle rate under a viewer whose request for
\* frames is complete: the count is up before the thread is woken, so no wake-up is lost.
WatchedLoopIsAwake ==
  (pace = "asleep" \/ (pace = "park" /\ ~token)) /\ film.alive =>
    \A c \in Clients : req[c].stream => req[c].at = "wake"

\* A pull is answered with a frame that was fresh when it came, or was captured after it;
\* only a wait that ran out makes do with an older one.
PullIsFresh ==
  \A c \in Clients : At(c, "permit") => req[c].f.id >= req[c].need

\* Requests that end, are refused or are dropped leave no permit, no stream and no child
\* behind.
NothingLeftBehind ==
  /\ free = Permits - Cardinality({ c \in Clients : req[c].permit })
  /\ streams = Cardinality({ c \in Clients : req[c].stream })
  /\ \A c \in Clients : req[c].at = "done" => req[c].child = "none" /\ ~req[c].permit /\ ~req[c].stream

\* A frame that cannot be encoded costs each viewer one attempt, not one per tick.
DoomedFrameTriedOnce == \A c \in Clients : req[c].tries <= 1

\* A viewer that nothing more is due to sees why there is no picture, the present reason
\* and not an earlier one.
ViewerIsTold ==
  \A c \in Clients :
    At(c, "tick") /\ ~Live(Warm) /\ ~ShowsPlaceholder(req[c], Effective(Warm)) => req[c].shown = Effective(Warm)

\* A request for one answer is never stuck: it can go on, whatever its helper does, or it
\* waits for a permit that another request holds and will give back.
NoRequestStuck ==
  \A c \in Clients :
    req[c].op \in {"snapshot", "ocr", "power"} /\ req[c].at \notin {"idle", "done"} =>
      \/ ENABLED Serves(c)
      \/ At(c, "permit") /\ \E d \in Clients \ {c} : req[d].permit /\ ENABLED Serves(d)

\* However requests, streams and drops interleave with the capture thread, no wake-up is lost, no
\* pull gets a stale frame, and nothing stays behind (hdmicap server.rs).
RequestsAreKept ==
  /\ ServeTypeOK
  /\ WatchedLoopIsAwake
  /\ PullIsFresh
  /\ NothingLeftBehind
  /\ DoomedFrameTriedOnce
  /\ ViewerIsTold
=============================================================================
