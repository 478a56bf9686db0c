---------------------------- MODULE VideoCapture ----------------------------
(***************************************************************************)
(* hdmicap's capture thread: it opens the device, takes frames, says of    *)
(* each whether the picture can be trusted and under which hash it is      *)
(* published, and reopens the device when it fails.  A watchdog thread per *)
(* opening flags a stall, and ends the process when the flag is not taken. *)
(*                                                                         *)
(* Time is in seconds; a second stands for any number of frames of one     *)
(* picture.  A picture is its dimensions and its luma, in runs of n samples *)
(* of level v.                                                             *)
(***************************************************************************)
EXTENDS Integers, Sequences, SequencesExt, FiniteSets

CONSTANTS StableFrames,  \* STABLE_FRAMES (8)
          MaxStalls,     \* MAX_CONSECUTIVE_STALLS (8)
          MaxErrors,     \* MAX_CONSECUTIVE_ERRORS (8)
          FrameTimeout,  \* a backend's own limit on one frame() call (5 s)
          Grace, Poll,   \* the watchdog's (12 s, 4 s)
          Threshold,     \* --change-threshold
          Sources,       \* what the bench may show: [pictures, faults]
          MaxModes       \* bound: resolution changes per opening

Picture == [dims : Nat \ {0}, luma : Seq([n : Nat, v : Nat])]

\* A single stall is not the last, and a poll is longer than the second between two frames.
ASSUME VideoAssumption ==
  /\ {StableFrames, MaxStalls, MaxErrors, FrameTimeout, Grace, Poll, MaxModes} \subseteq Nat \ {0}
  /\ MaxStalls > 1 /\ Poll > 1 /\ Grace >= 2 * Poll
  /\ Threshold \in Nat
  /\ Sources \subseteq [pictures : SUBSET Picture, faults : Nat]

VARIABLES source,  \* the pictures this behaviour shows and the faults it has left
          dev,     \* what the device does, and the picture it shows
          cap,     \* the capture thread
          dog,     \* the watchdog of the current opening
          old,     \* those of earlier openings
          warm,    \* the FrameState in the watch channel
          watched, \* someone holds a receiver
          exited,  \* "no", or why the process ended
          quiet,   \* history: seconds without a frame
          pictured,   \* history: the last picture of this opening
          streak   \* history: lit frames of one size up to and including it

captureVars == <<source, dev, cap, dog, old, warm, watched, exited, quiet, pictured, streak>>

StaleAfter == 3
\* No picture: the hash of the state that has no device.
None == [dims |-> 0, luma |-> << >>]
NoDevice == [sig |-> "no_device", dims |-> 0, hash |-> None, epoch |-> 0, age |-> 0]
NewDog == [left |-> Grace, first |-> TRUE, fresh |-> FALSE, any |-> FALSE, stalled |-> FALSE, cancelled |-> FALSE]
NewLoop == [dims |-> 0, stable |-> 0, errs |-> 0, epoch |-> 0, ref |-> None, noise |-> None]
QuietLimit == (IF MaxStalls > 2 THEN MaxStalls ELSE 2) * Poll

CaptureInit ==
  /\ source \in Sources
  /\ \E p \in source.pictures : dev = [is |-> "streaming", pic |-> p]
  /\ cap = [at |-> "open", wait |-> 0, stalls |-> 0, loop |-> NewLoop]
  /\ dog = [NewDog EXCEPT !.left = 0, !.cancelled = TRUE] /\ old = {}
  /\ warm = NoDevice /\ watched \in BOOLEAN /\ exited = "no" /\ quiet = 0 /\ pictured = None /\ streak = 0

(***************************************************************************)
(* A frame: is there a signal, and what is its hash?                       *)
(***************************************************************************)
Weighed(p, f(_)) == FoldSeq(LAMBDA x, acc : x.n * f(x.v) + acc, 0, p.luma)
Samples(p) == Weighed(p, LAMBDA v : 1)
Mean(p) == Weighed(p, LAMBDA v : v) \div Samples(p)
Variance(p) == (Weighed(p, LAMBDA v : v * v) \div Samples(p)) - Mean(p) * Mean(p)
IsNoSignal(p) == p.luma = << >> \/ (Mean(p) < 10 /\ Variance(p) < 64 
     /\ \A i \in DOMAIN p.luma : p.luma[i].v < 64)

AbsDiff(x, y) == IF x > y THEN x - y ELSE y - x
Exceeds(p, q) == \E i \in DOMAIN p.luma : AbsDiff(p.luma[i].v, q.luma[i].v) > Threshold
Comparable(p, q) == p.dims = q.dims /\ Samples(p) = Samples(q)

Settled(p, ref, noise) ==
  IF Threshold = 0 THEN [hash |-> p, ref |-> ref, noise |-> noise]
  ELSE IF ref # None /\ (ref = p \/ noise = p)
  THEN [hash |-> ref, ref |-> ref, noise |-> noise]
  ELSE IF ref # None /\ Comparable(p, ref) /\ ~Exceeds(p, ref)
  THEN [hash |-> ref, ref |-> ref, noise |-> p]
  ELSE [hash |-> p, ref |-> p, noise |-> None]

\* The loop's own state after a frame, and the signal it publishes.
Taken(l, p) ==
  LET moved == p.dims # l.dims
      count == IF moved THEN 0 ELSE l.stable
      s == Settled(p, l.ref, l.noise)
  IN [l EXCEPT !.dims = p.dims, !.errs = 0, !.ref = s.ref, !.noise = s.noise,
               !.epoch = @ + (IF moved THEN 1 ELSE 0),
               !.stable = IF IsNoSignal(p) THEN 0
                          ELSE IF count < StableFrames THEN count + 1 ELSE count]
SignalOf(l, p) ==
  IF IsNoSignal(p) THEN "no_signal"
  ELSE IF l.stable < StableFrames \/ p.dims # l.dims THEN "mode_switching" ELSE "stable"

EffectiveSignal ==
  IF warm.sig \in {"stable", "mode_switching"} /\ warm.age > StaleAfter THEN "stale" ELSE warm.sig

(***************************************************************************)
(* The capture thread.                                                     *)
(***************************************************************************)
Running == exited = "no" /\ cap.at # "gone"
Publishes(f) == warm' = f

OpenBackendOnce ==
  /\ Running /\ cap.at = "open"
  /\ IF dev.is = "absent"
     THEN /\ Publishes(NoDevice) /\ cap' = [cap EXCEPT !.at = "gone"]
          /\ UNCHANGED <<dog, old, pictured, streak>>
     ELSE /\ cap' = [cap EXCEPT !.at = "top", !.loop = NewLoop]
          /\ dog' = NewDog /\ pictured' = None /\ streak' = 0
          /\ old' = IF dog.left = 0 THEN old ELSE old \cup {dog}
          /\ UNCHANGED warm
  /\ UNCHANGED <<source, dev, watched, exited, quiet>>
OpenBackend ==
  /\ Running /\ cap.at = "open"
  /\ IF dev.is = "absent"
     THEN /\ Publishes(NoDevice)
          /\ cap' = [cap EXCEPT !.at = IF watched THEN "sleep" ELSE "gone"]
          /\ UNCHANGED <<dog, old, pictured, streak>>
     ELSE /\ cap' = [cap EXCEPT !.at = "top", !.loop = NewLoop]
          /\ dog' = NewDog /\ pictured' = None /\ streak' = 0
          /\ old' = IF dog.left = 0 THEN old ELSE old \cup {dog}
          /\ UNCHANGED warm
  /\ UNCHANGED <<source, dev, watched, exited, quiet>>

\* The backend is dropped and opened again; the watchdog of this opening is called off.
ReopenUncancelled(d) == d
Reopen(d) == [d EXCEPT !.cancelled = TRUE]

\* The top of the loop: leave, take a flagged stall, or ask for the next frame.
LoopTop ==
  /\ Running /\ cap.at = "top"
  /\ \/ /\ ~watched /\ cap' = [cap EXCEPT !.at = "gone"] /\ UNCHANGED <<dog, warm, exited>>
     \/ /\ watched /\ dog.stalled
        /\ dog' = Reopen([dog EXCEPT !.stalled = FALSE])
        /\ cap' = [cap EXCEPT !.at = "open", !.stalls = @ + 1]
        /\ Publishes(NoDevice)
        /\ exited' = IF cap.stalls + 1 >= MaxStalls THEN "stalls" ELSE "no"
     \/ /\ watched /\ ~dog.stalled
        /\ cap' = [cap EXCEPT !.at = "frame", !.wait = 0] /\ UNCHANGED <<dog, warm, exited>>
  /\ UNCHANGED <<source, dev, old, watched, quiet, pictured, streak>>

Recovered(c) == 0
FrameArrives ==
  /\ Running /\ cap.at = "frame" /\ dev.is = "streaming"
  /\ cap' = [cap EXCEPT !.at = "pace", !.stalls = Recovered(cap), !.loop = Taken(cap.loop, dev.pic)]
  /\ dog' = [dog EXCEPT !.fresh = TRUE, !.any = TRUE]
  /\ Publishes([sig |-> SignalOf(cap.loop, dev.pic), dims |-> dev.pic.dims,
                hash |-> Settled(dev.pic, cap.loop.ref, cap.loop.noise).hash,
                epoch |-> cap'.loop.epoch, age |-> 0])
  /\ quiet' = 0
  /\ pictured' = dev.pic
  /\ streak' = IF IsNoSignal(dev.pic) THEN 0
               ELSE IF dev.pic.dims # pictured.dims THEN 1
               ELSE IF streak > StableFrames THEN streak ELSE streak + 1
  /\ UNCHANGED <<source, dev, old, watched, exited>>

TooManyErrors(n) == n >= MaxErrors
FrameFails ==
  /\ Running /\ cap.at = "frame"
  /\ \/ dev.is \in {"failing", "absent"}
     \/ dev.is = "silent" /\ cap.wait = FrameTimeout
  /\ IF TooManyErrors(cap.loop.errs + 1)
     THEN /\ cap' = [cap EXCEPT !.at = "open"] /\ dog' = Reopen(dog) /\ Publishes(NoDevice)
     ELSE /\ cap' = [cap EXCEPT !.at = "top", !.loop.errs = @ + 1] /\ UNCHANGED <<dog, warm>>
  /\ UNCHANGED <<source, dev, old, watched, exited, quiet, pictured, streak>>

(***************************************************************************)
(* The watchdogs.                                                          *)
(***************************************************************************)
Due(d) == d.left = 0
Looked(d) ==
  [d EXCEPT !.left = Poll, !.first = FALSE, !.fresh = FALSE,
            !.stalled = @ \/ (IF d.first THEN ~d.any ELSE ~d.fresh)]
Bites(d) == ~d.cancelled /\ ~d.first /\ ~d.fresh /\ d.stalled
DogWakes ==
  /\ exited = "no"
  /\ \/ /\ Due(dog) /\ ~dog.cancelled
        /\ dog' = Looked(dog) /\ exited' = (IF Bites(dog) THEN "dog" ELSE "no") /\ UNCHANGED old
     \/ \E d \in old :
          /\ Due(d)
          /\ old' = (old \ {d}) \cup (IF d.cancelled THEN {} ELSE {Looked(d)})
          /\ exited' = (IF Bites(d) THEN "dog" ELSE "no") /\ UNCHANGED dog
  /\ UNCHANGED <<source, dev, cap, warm, watched, quiet, pictured, streak>>

(***************************************************************************)
(* The bench, and time.                                                    *)
(***************************************************************************)
Bench ==
  /\ exited = "no"
  /\ \/ /\ \E p \in source.pictures \ {dev.pic} :
             /\ p.dims = cap.loop.dims \/ cap.loop.epoch < MaxModes
             /\ dev' = [dev EXCEPT !.pic = p]
        /\ UNCHANGED <<source, watched>>
     \/ /\ source.faults > 0 /\ source' = [source EXCEPT !.faults = @ - 1] /\ UNCHANGED watched
        /\ \E s \in {"streaming", "silent", "failing", "wedged", "absent"} \ {dev.is} : dev' = [dev EXCEPT !.is = s]
     \/ /\ source.faults > 0 /\ watched /\ watched' = FALSE
        /\ source' = [source EXCEPT !.faults = 0] /\ UNCHANGED dev
  /\ UNCHANGED <<cap, dog, old, warm, exited, quiet, pictured, streak>>

Sleeps ==
  \/ cap.at \in {"pace", "sleep", "gone"}
  \/ cap.at = "frame" /\ (dev.is = "wedged" \/ (dev.is = "silent" /\ cap.wait < FrameTimeout))
Counted(d) == [d EXCEPT !.left = IF @ = 0 THEN 0 ELSE @ - 1]
Tick ==
  /\ exited = "no" /\ Sleeps
  /\ Due(dog) => dog.cancelled
  /\ \A d \in old : ~Due(d)
  /\ dog' = Counted(dog) /\ old' = { Counted(d) : d \in old }
  /\ cap' = [cap EXCEPT !.at = CASE @ = "pace" -> "top" [] @ = "sleep" -> "open" [] OTHER -> @,
                        !.wait = IF cap.at = "frame" /\ @ < FrameTimeout THEN @ + 1 ELSE @]
  /\ warm' = [warm EXCEPT !.age = IF @ > StaleAfter THEN @ ELSE @ + 1]
  /\ quiet' = IF quiet < QuietLimit THEN quiet + 1 ELSE quiet
  /\ UNCHANGED <<source, dev, watched, exited, pictured, streak>>

CaptureStep == OpenBackend \/ LoopTop \/ FrameArrives \/ FrameFails
CaptureNext == CaptureStep \/ DogWakes \/ Bench \/ Tick
CaptureSpec == CaptureInit /\ [][CaptureNext]_captureVars

(***************************************************************************)
(* What it promises.                                                       *)
(***************************************************************************)
CaptureTypeOK ==
  /\ dev.is \in {"streaming", "silent", "failing", "wedged", "absent"}
  /\ cap.at \in {"open", "sleep", "top", "frame", "pace", "gone"}
  /\ cap.wait \in 0..FrameTimeout /\ cap.stalls \in 0..MaxStalls
  /\ cap.loop.errs \in 0..(MaxErrors - 1) /\ cap.loop.stable \in 0..StableFrames
  /\ dog.left \in 0..Grace /\ \A d \in old : d.left \in 0..Grace
  /\ warm.sig \in {"no_device", "no_signal", "mode_switching", "stable"}
  /\ exited \in {"no", "dog", "stalls"}

\* A picture is called stable only after more than STABLE_FRAMES lit frames in a row of one
\* size, all from this opening of the device: nobody reads a screen that is being switched.
StableIsSettled == warm.sig = "stable" => streak > StableFrames /\ pictured.dims = warm.dims

\* A screen with anything bright on it, however little, is never reported as no signal.
LitIsNotDark ==
  warm.sig = "no_signal" => \A i \in DOMAIN pictured.luma : pictured.luma[i].v < 64

\* The published hash stands for a picture within the threshold of the one on screen: a
\* slow drift, and a return to an earlier picture, are noticed.
HashIsNear ==
  (cap.at = "pace" /\ Threshold > 0) =>
    Comparable(warm.hash, pictured) /\ ~Exceeds(pictured, warm.hash)

\* And noise around the reference does not change it.
NoiseKeepsHash ==
  [][(FrameArrives /\ cap.loop.ref # None /\ Threshold > 0
        /\ Comparable(dev.pic, cap.loop.ref) /\ ~Exceeds(dev.pic, cap.loop.ref))
       => warm'.hash = cap.loop.ref]_captureVars

\* A capture path that has stopped delivering never reads as a live screen.
DeadPathIsNotLive == quiet > StaleAfter + 1 => EffectiveSignal \notin {"stable", "mode_switching"}

\* While somebody watches, the process gives up only after two polls, or all the reopens, without a single frame;
\* a watchdog of an earlier opening never ends a later one.
ExitIsDeserved ==
  /\ exited = "dog" /\ watched => quiet >= 2 * Poll
  /\ exited = "stalls" => quiet >= MaxStalls * Poll

\* Once the device streams, the screen is live again, unless the process is gone.
PictureComesBack ==
  (dev.is = "streaming") ~>
    (dev.is # "streaming" \/ exited # "no" \/ ~watched
       \/ EffectiveSignal \in {"no_signal", "mode_switching", "stable"})

\* What is said of the screen is true of it over mode switches, faults, reopens and the watchdog
\* of an earlier opening: stable, dark, live, changed, and given up only when dead (capture.rs).
ScreenStateIsTrue ==
  /\ CaptureTypeOK
  /\ StableIsSettled
  /\ LitIsNotDark
  /\ HashIsNear
  /\ DeadPathIsNotLive
  /\ ExitIsDeserved
=============================================================================
