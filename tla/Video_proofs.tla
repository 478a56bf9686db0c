---------------------------- MODULE Video_proofs ----------------------------
(***************************************************************************)
(* What hdmicap says of the screen is true, for any pictures, thresholds   *)
(* and faults: the argument is in what each part says of the others.       *)
(*                                                                         *)
(* ScreenInv: the loop's counters are of this opening of the device, and   *)
(* the noise it tolerates is within the threshold of its reference.        *)
(* DogInv and StallInv: every flag of a watchdog, and every stall counted, *)
(* stands for seconds without a frame.                                     *)
(***************************************************************************)
EXTENDS VideoCapture, VideoServe, VideoView, VideoSource, FiniteSetTheorems, FunctionTheorems, SequenceTheorems, NaturalsInduction,
        WellFoundedInduction, TLAPS

Shown == Picture \cup {None}
Loop == [dims : Nat, stable : 0..StableFrames, errs : 0..(MaxErrors - 1), epoch : Nat, ref : Shown, noise : Shown]
Dog == [left : 0..Grace, first : BOOLEAN, fresh : BOOLEAN, any : BOOLEAN, stalled : BOOLEAN, cancelled : BOOLEAN]
Ats == {"open", "sleep", "top", "frame", "pace", "gone"}
Signals == {"no_device", "no_signal", "mode_switching", "stable"}

VideoTypes ==
  /\ source \in [pictures : SUBSET Picture, faults : Nat]
  /\ dev \in [is : {"streaming", "silent", "failing", "wedged", "absent"}, pic : Picture]
  /\ cap \in [at : Ats, wait : 0..FrameTimeout, stalls : 0..MaxStalls, loop : Loop]
  /\ dog \in Dog /\ old \subseteq Dog
  /\ warm \in [sig : Signals, dims : Nat, hash : Shown, epoch : Nat, age : Nat]
  /\ watched \in BOOLEAN /\ exited \in {"no", "dog", "stalls"}
  /\ quiet \in 0..QuietLimit /\ pictured \in Shown /\ streak \in Nat

Near(p, q) == Comparable(p, q) /\ ~Exceeds(p, q)

\* What the loop counts and compares with is of this opening, and whoever waits for the device
\* has said so.
ScreenInv ==
  /\ cap.at \in {"open", "sleep"} => warm.sig = "no_device"
  /\ cap.loop.dims = pictured.dims /\ cap.loop.stable <= streak
  /\ cap.loop.noise # None => cap.loop.ref # None /\ Near(cap.loop.noise, cap.loop.ref)
  /\ warm.sig \in {"stable", "mode_switching"} => quiet <= warm.age \/ warm.age > StaleAfter

\* Only the watchdog of the current opening is awake, and what it has or has not seen is so.  A
\* stall it has flagged is old, or the loop is about to take it.
DogInv ==
  /\ \A d \in old : d.cancelled
  /\ cap.at \in {"open", "sleep"} => dog.cancelled
  /\ cap.at \in {"top", "frame", "pace"} => ~dog.cancelled
  /\ cap.at = "gone" => ~watched
  /\ dog.stalled => ~dog.first
  /\ dog.fresh => dog.any
  /\ ~dog.cancelled =>
       /\ ~dog.first /\ ~dog.fresh => quiet >= Poll - dog.left
       /\ ~dog.any => quiet >= 2 * Poll \/ (dog.first /\ quiet >= Grace - dog.left)
       /\ watched /\ dog.stalled =>
            \/ cap.at = "pace" /\ (dog.fresh \/ dog.left = Poll)
            \/ cap.at = "top" /\ (dog.fresh \/ dog.left >= Poll - 1)
            \/ ~dog.fresh /\ quiet >= 2 * Poll - dog.left

\* The first stall may be one that a frame has just overtaken; from the second on, each one
\* counted is another poll without a frame.
StallInv ==
  /\ exited = "no" => cap.stalls < MaxStalls
  /\ cap.stalls >= 1 /\ ~dog.cancelled => ~dog.any
  /\ cap.stalls >= 2 =>
       /\ quiet >= cap.stalls * Poll
       /\ ~dog.cancelled => \/ quiet >= cap.stalls * Poll + Poll
                            \/ dog.first /\ quiet >= cap.stalls * Poll + (Grace - dog.left)

VideoInv ==
  /\ VideoTypes /\ ScreenInv /\ DogInv /\ StallInv
  /\ StableIsSettled /\ LitIsNotDark /\ HashIsNear /\ ExitIsDeserved

-----------------------------------------------------------------------------
(***************************************************************************)
(* The constants, and the watch's limit.                                   *)
(***************************************************************************)
\* The constants are positive numbers.
LEMMA Limits ==
  /\ StableFrames \in Nat /\ StableFrames > 0 /\ MaxStalls \in Nat /\ MaxStalls > 1
  /\ MaxErrors \in Nat /\ MaxErrors > 0 /\ FrameTimeout \in Nat /\ FrameTimeout > 0
  /\ Grace \in Nat /\ Poll \in Nat /\ Poll > 1 /\ Grace >= 2 * Poll /\ Threshold \in Nat
BY VideoAssumption

\* What is counted of silence reaches two polls, and one more for every stall but the last.
LEMMA QuietLimits ==
  /\ QuietLimit \in Nat /\ QuietLimit >= 2 * Poll
  /\ \A k \in Nat : /\ k * Poll \in Nat /\ (k + 1) * Poll = k * Poll + Poll
                    /\ k < MaxStalls => k * Poll + Poll <= QuietLimit
<1>1. QuietLimit = MaxStalls * Poll
  BY Limits DEF QuietLimit
<1>2. \A k \in Nat : k * Poll \in Nat /\ (k + 1) * Poll = k * Poll + Poll
  BY Limits
<1>3. ASSUME NEW k \in Nat, k < MaxStalls PROVE k * Poll + Poll <= MaxStalls * Poll
  <2>1. PICK n \in Nat : MaxStalls = k + 1 + n
    <3>1. MaxStalls - (k + 1) \in Nat
      BY <1>3, Limits
    <3> QED BY <3>1, Limits
  <2>2. MaxStalls * Poll = (k + 1) * Poll + n * Poll
    BY <2>1, Limits
  <2> QED BY <1>2, <2>2, Limits
<1>4. 2 * Poll <= MaxStalls * Poll
  BY <1>3, Limits
<1> QED BY <1>1, <1>2, <1>3, <1>4, Limits

-----------------------------------------------------------------------------
(***************************************************************************)
(* Pictures.                                                               *)
(***************************************************************************)
\* None is no picture, and a picture is near itself.
LEMMA PictureFacts ==
  /\ None \in Shown /\ None.dims = 0 /\ None \notin Picture
  /\ \A p \in Picture : p \in Shown /\ p.dims \in Nat /\ p.dims # 0
  /\ \A p \in Shown : Near(p, p)
  /\ \A p, q : Comparable(p, q) <=> Comparable(q, p)
<1>1. << >> \in Seq([n : Nat, v : Nat])
  OBVIOUS
<1>2. None \in Shown /\ None.dims = 0 /\ None \notin Picture
  BY DEF Shown, None, Picture
<1>3. \A p \in Picture : p \in Shown /\ p.dims \in Nat /\ p.dims # 0
  BY DEF Shown, Picture
<1>4. \A p \in Shown : Near(p, p)
  <2> TAKE p \in Shown
  <2>1. p.luma \in Seq([n : Nat, v : Nat])
    <3>1. CASE p \in Picture
      BY <3>1 DEF Picture
    <3>2. CASE p = None
      <4>1. p.luma = << >>
        BY <3>2 DEF None
      <4> QED BY <4>1, <1>1
    <3> QED BY <3>1, <3>2 DEF Shown
  <2>2. \A i \in DOMAIN p.luma : p.luma[i].v \in Nat
    <3> DEFINE q == p.luma
    <3> HIDE DEF q
    <3>1. q \in Seq([n : Nat, v : Nat])
      BY <2>1 DEF q
    <3>2. \A i \in DOMAIN q : q[i] \in [n : Nat, v : Nat]
      <4> DEFINE Run == [n : Nat, v : Nat]
      <4>1. q \in Seq(Run)
        BY <3>1
      <4> HIDE DEF Run
      <4>2. \A i \in DOMAIN q : q[i] \in Run
        BY <4>1
      <4> QED BY <4>2 DEF Run
    <3>3. \A i \in DOMAIN q : q[i].v \in Nat
      BY <3>2
    <3> QED BY <3>3 DEF q
  <2>3. \A i \in DOMAIN p.luma : AbsDiff(p.luma[i].v, p.luma[i].v) = 0
    BY <2>2 DEF AbsDiff
  <2> QED BY <2>3, Limits DEF Near, Comparable, Exceeds
<1>5. \A p, q : Comparable(p, q) <=> Comparable(q, p)
  BY DEF Comparable
<1> QED BY <1>2, <1>3, <1>4, <1>5

\* The settler publishes a picture near the one it was given, and keeps as noise only what is
\* near its reference.
LEMMA SettledFacts ==
  ASSUME NEW p \in Picture, NEW ref \in Shown, NEW noise \in Shown,
         noise # None => ref # None /\ Near(noise, ref)
  PROVE  LET s == Settled(p, ref, noise)
         IN /\ s.hash \in Shown /\ s.ref \in Shown /\ s.noise \in Shown
            /\ s.noise # None => s.ref # None /\ Near(s.noise, s.ref)
            /\ Threshold > 0 => Comparable(s.hash, p) /\ ~Exceeds(p, s.hash)
<1> USE DEF Settled
<1>0. p # None /\ p \in Shown /\ Near(p, p) /\ None \in Shown
  BY PictureFacts
<1>1. CASE Threshold = 0
  BY <1>0, <1>1
<1>2. CASE Threshold # 0 /\ ref # None /\ (ref = p \/ noise = p)
  BY <1>0, <1>2, PictureFacts DEF Near
<1>3. CASE Threshold # 0 /\ ~(ref # None /\ (ref = p \/ noise = p)) /\ ref # None /\ Comparable(p, ref) /\ ~Exceeds(p, ref)
  BY <1>0, <1>3, PictureFacts DEF Near
<1>4. CASE Threshold # 0 /\ ~(ref # None /\ (ref = p \/ noise = p)) /\ ~(ref # None /\ Comparable(p, ref) /\ ~Exceeds(p, ref))
  BY <1>0, <1>4 DEF Near
<1> QED BY <1>1, <1>2, <1>3, <1>4

\* The loop after a frame.
LEMMA TakenFacts ==
  ASSUME NEW p \in Picture, NEW l \in Loop, l.noise # None => l.ref # None /\ Near(l.noise, l.ref)
  PROVE  LET t == Taken(l, p)
         IN /\ t \in Loop /\ t.dims = p.dims
            /\ t.noise # None => t.ref # None /\ Near(t.noise, t.ref)
            /\ IsNoSignal(p) => t.stable = 0
            /\ ~IsNoSignal(p) /\ p.dims # l.dims => t.stable = 1
            /\ ~IsNoSignal(p) /\ p.dims = l.dims => t.stable <= l.stable + 1
<1> DEFINE s == Settled(p, l.ref, l.noise)
           moved == p.dims # l.dims
           count == IF moved THEN 0 ELSE l.stable
           n == IF IsNoSignal(p) THEN 0 ELSE IF count < StableFrames THEN count + 1 ELSE count
           t == Taken(l, p)
<1>1. /\ l.ref \in Shown /\ l.noise \in Shown /\ l.stable \in 0..StableFrames /\ l.epoch \in Nat
      /\ p.dims \in Nat
  BY PictureFacts DEF Loop
<1>2. s.ref \in Shown /\ s.noise \in Shown /\ (s.noise # None => s.ref # None /\ Near(s.noise, s.ref))
  BY <1>1, SettledFacts
<1>3. t = [l EXCEPT !.dims = p.dims, !.errs = 0, !.ref = s.ref, !.noise = s.noise,
                    !.epoch = @ + (IF moved THEN 1 ELSE 0), !.stable = n]
  BY DEF Taken
<1>4. n \in 0..StableFrames
  BY <1>1, Limits
<1> HIDE DEF s, n, t
<1>6. /\ t.dims = p.dims /\ t.ref = s.ref /\ t.noise = s.noise /\ t.stable = n
      /\ t.errs = 0 /\ t.epoch = l.epoch + (IF moved THEN 1 ELSE 0)
  BY <1>3 DEF Loop
<1>7. t.epoch \in Nat /\ t.errs \in 0..(MaxErrors - 1)
  BY <1>1, <1>6, Limits
<1>5. t \in Loop
  <2>1. t = [dims |-> t.dims, stable |-> t.stable, errs |-> t.errs, epoch |-> t.epoch, ref |-> t.ref, noise |-> t.noise]
    BY <1>3 DEF Loop
  <2> QED BY <1>1, <1>2, <1>4, <1>6, <1>7, <2>1 DEF Loop
<1> QED BY <1>1, <1>2, <1>5, <1>6, Limits DEF n, t

-----------------------------------------------------------------------------
(***************************************************************************)
(* What each step does to the fields of the records it changes.            *)
(***************************************************************************)
\* The thread that opens the device.
LEMMA OpenFields ==
  ASSUME VideoTypes, OpenBackend
  PROVE  /\ exited = "no" /\ cap.at = "open" /\ UNCHANGED <<source, dev, watched, exited, quiet>>
         /\ cap'.stalls = cap.stalls /\ cap'.wait = cap.wait
         /\ cap' \in [at : Ats, wait : 0..FrameTimeout, stalls : 0..MaxStalls, loop : Loop]
         /\ \/ /\ cap'.at \in {"sleep", "gone"} /\ (cap'.at = "gone" => ~watched) /\ cap'.loop = cap.loop
               /\ warm' = NoDevice /\ UNCHANGED <<dog, old, pictured, streak>>
            \/ /\ cap'.at = "top" /\ cap'.loop = NewLoop /\ dog' = NewDog /\ pictured' = None /\ streak' = 0
               /\ old' \subseteq old \cup {dog} /\ warm' = warm
<1>0. NewLoop \in Loop
  BY Limits, PictureFacts DEF NewLoop, Loop
<1>1. exited = "no" /\ cap.at = "open" /\ UNCHANGED <<source, dev, watched, exited, quiet>>
  BY DEF OpenBackend, Running
<1>2. CASE dev.is = "absent"
  <2>1. /\ cap' = [cap EXCEPT !.at = IF watched THEN "sleep" ELSE "gone"]
        /\ warm' = NoDevice /\ UNCHANGED <<dog, old, pictured, streak>>
    BY <1>2 DEF OpenBackend, Publishes
  <2> QED BY <1>1, <2>1 DEF VideoTypes, Ats
<1>3. CASE dev.is # "absent"
  <2>1. /\ cap' = [cap EXCEPT !.at = "top", !.loop = NewLoop]
        /\ dog' = NewDog /\ pictured' = None /\ streak' = 0 /\ warm' = warm
        /\ old' = IF dog.left = 0 THEN old ELSE old \cup {dog}
    BY <1>3 DEF OpenBackend
  <2> HIDE DEF NewLoop
  <2> QED BY <1>0, <1>1, <2>1 DEF VideoTypes, Ats
<1> QED BY <1>2, <1>3

\* The top of the loop.
LEMMA TopFields ==
  ASSUME VideoTypes, LoopTop, exited = "no" => cap.stalls < MaxStalls
  PROVE  /\ exited = "no" /\ cap.at = "top" /\ UNCHANGED <<source, dev, old, watched, quiet, pictured, streak>>
         /\ cap'.loop = cap.loop
         /\ cap' \in [at : Ats, wait : 0..FrameTimeout, stalls : 0..MaxStalls, loop : Loop]
         /\ dog' \in Dog
         /\ \/ /\ ~watched /\ cap'.at = "gone" /\ cap'.stalls = cap.stalls /\ UNCHANGED <<dog, warm, exited>>
            \/ /\ watched /\ dog.stalled /\ dog'.cancelled /\ ~dog'.stalled /\ dog'.fresh = dog.fresh /\ dog'.any = dog.any
               /\ cap'.at = "open" /\ cap'.stalls = cap.stalls + 1 /\ warm' = NoDevice
               /\ exited' = IF cap.stalls + 1 >= MaxStalls THEN "stalls" ELSE "no"
            \/ /\ watched /\ ~dog.stalled /\ cap'.at = "frame" /\ cap'.stalls = cap.stalls
               /\ UNCHANGED <<dog, warm, exited>>
<1>1. exited = "no" /\ cap.at = "top" /\ UNCHANGED <<source, dev, old, watched, quiet, pictured, streak>>
  BY DEF LoopTop, Running
<1>2. CASE ~watched /\ cap' = [cap EXCEPT !.at = "gone"] /\ UNCHANGED <<dog, warm, exited>>
  BY <1>1, <1>2 DEF VideoTypes, Ats
<1>3. CASE /\ watched /\ dog.stalled
           /\ dog' = Reopen([dog EXCEPT !.stalled = FALSE])
           /\ cap' = [cap EXCEPT !.at = "open", !.stalls = @ + 1]
           /\ warm' = NoDevice
           /\ exited' = IF cap.stalls + 1 >= MaxStalls THEN "stalls" ELSE "no"
  <2>1. cap.stalls + 1 \in 0..MaxStalls
    BY <1>1, Limits DEF VideoTypes
  <2>2. /\ cap' \in [at : Ats, wait : 0..FrameTimeout, stalls : 0..MaxStalls, loop : Loop]
        /\ cap'.at = "open" /\ cap'.stalls = cap.stalls + 1 /\ cap'.loop = cap.loop
    BY <1>3, <2>1 DEF VideoTypes, Ats
  <2>3. dog' \in Dog /\ dog'.cancelled /\ ~dog'.stalled /\ dog'.fresh = dog.fresh /\ dog'.any = dog.any
    BY <1>3 DEF VideoTypes, Dog, Reopen
  <2> QED BY <1>1, <1>3, <2>2, <2>3
<1>4. CASE watched /\ ~dog.stalled /\ cap' = [cap EXCEPT !.at = "frame", !.wait = 0] /\ UNCHANGED <<dog, warm, exited>>
  <2>1. 0 \in 0..FrameTimeout
    BY Limits
  <2> QED BY <1>1, <1>4, <2>1 DEF VideoTypes, Ats
<1> QED BY <1>2, <1>3, <1>4 DEF LoopTop, Publishes

\* A frame.
LEMMA FrameFields ==
  ASSUME VideoTypes, ScreenInv, FrameArrives
  PROVE  /\ exited = "no" /\ cap.at = "frame" /\ UNCHANGED <<source, dev, old, watched, exited>>
         /\ cap' \in [at : Ats, wait : 0..FrameTimeout, stalls : 0..MaxStalls, loop : Loop]
         /\ cap'.at = "pace" /\ cap'.stalls = 0 /\ cap'.loop = Taken(cap.loop, dev.pic)
         /\ dog' \in Dog /\ dog'.fresh /\ dog'.any /\ dog'.left = dog.left /\ dog'.first = dog.first
         /\ dog'.stalled = dog.stalled /\ dog'.cancelled = dog.cancelled
         /\ warm'.sig = SignalOf(cap.loop, dev.pic) /\ warm'.dims = dev.pic.dims /\ warm'.age = 0
         /\ warm'.hash = Settled(dev.pic, cap.loop.ref, cap.loop.noise).hash
         /\ warm' \in [sig : Signals, dims : Nat, hash : Shown, epoch : Nat, age : Nat]
         /\ quiet' = 0 /\ pictured' = dev.pic /\ dev.pic \in Picture
<1>1. /\ exited = "no" /\ cap.at = "frame" /\ UNCHANGED <<source, dev, old, watched, exited>>
      /\ quiet' = 0 /\ pictured' = dev.pic
      /\ cap' = [cap EXCEPT !.at = "pace", !.stalls = Recovered(cap), !.loop = Taken(cap.loop, dev.pic)]
      /\ dog' = [dog EXCEPT !.fresh = TRUE, !.any = TRUE]
  BY DEF FrameArrives, Running
<1>2. dev.pic \in Picture /\ cap.loop \in Loop
  BY DEF VideoTypes
<1>3. Taken(cap.loop, dev.pic) \in Loop
  BY <1>2, TakenFacts DEF ScreenInv
<1>4. /\ cap' \in [at : Ats, wait : 0..FrameTimeout, stalls : 0..MaxStalls, loop : Loop]
      /\ cap'.at = "pace" /\ cap'.stalls = 0 /\ cap'.loop = Taken(cap.loop, dev.pic)
  <2> DEFINE t == Taken(cap.loop, dev.pic)
  <2>1. t \in Loop /\ cap' = [cap EXCEPT !.at = "pace", !.stalls = 0, !.loop = t]
    BY <1>1, <1>3 DEF Recovered
  <2> HIDE DEF t
  <2>2. cap \in [at : Ats, wait : 0..FrameTimeout, stalls : 0..MaxStalls, loop : Loop] /\ "pace" \in Ats /\ 0 \in 0..MaxStalls
    BY Limits DEF VideoTypes, Ats
  <2>3. /\ cap' \in [at : Ats, wait : 0..FrameTimeout, stalls : 0..MaxStalls, loop : Loop]
        /\ cap'.at = "pace" /\ cap'.stalls = 0 /\ cap'.loop = t
    BY ONLY <2>1, <2>2
  <2> QED BY <2>3 DEF t
<1>5. /\ dog' \in Dog /\ dog'.fresh /\ dog'.any /\ dog'.left = dog.left /\ dog'.first = dog.first
      /\ dog'.stalled = dog.stalled /\ dog'.cancelled = dog.cancelled
  BY <1>1 DEF VideoTypes, Dog
<1> DEFINE sg == SignalOf(cap.loop, dev.pic)
           hs == Settled(dev.pic, cap.loop.ref, cap.loop.noise).hash
<1>6. warm' = [sig |-> sg, dims |-> dev.pic.dims, hash |-> hs, epoch |-> cap'.loop.epoch, age |-> 0]
  BY DEF FrameArrives, Publishes
<1>7. sg \in Signals
  BY DEF SignalOf, Signals
<1>8. hs \in Shown
  <2>1. cap.loop.ref \in Shown /\ cap.loop.noise \in Shown
    BY <1>2 DEF Loop
  <2> QED BY <1>2, <2>1, SettledFacts DEF ScreenInv
<1>9. cap'.loop.epoch \in Nat /\ dev.pic.dims \in Nat
  BY <1>2, <1>3, <1>4, PictureFacts DEF Loop
<1> HIDE DEF sg, hs
<1>10. /\ warm' \in [sig : Signals, dims : Nat, hash : Shown, epoch : Nat, age : Nat]
       /\ warm'.sig = sg /\ warm'.dims = dev.pic.dims /\ warm'.hash = hs /\ warm'.age = 0
  BY <1>6, <1>7, <1>8, <1>9
<1> QED BY <1>1, <1>2, <1>4, <1>5, <1>10 DEF sg, hs

\* A call for a frame that fails.
LEMMA FailFields ==
  ASSUME VideoTypes, FrameFails
  PROVE  /\ exited = "no" /\ cap.at = "frame"
         /\ UNCHANGED <<source, dev, old, watched, exited, quiet, pictured, streak>>
         /\ cap' \in [at : Ats, wait : 0..FrameTimeout, stalls : 0..MaxStalls, loop : Loop]
         /\ cap'.stalls = cap.stalls /\ cap'.loop.dims = cap.loop.dims /\ cap'.loop.stable = cap.loop.stable
         /\ cap'.loop.ref = cap.loop.ref /\ cap'.loop.noise = cap.loop.noise
         /\ \/ /\ cap'.at = "open" /\ warm' = NoDevice /\ dog' \in Dog /\ dog'.cancelled
               /\ dog'.stalled = dog.stalled /\ dog'.first = dog.first /\ dog'.fresh = dog.fresh /\ dog'.any = dog.any
            \/ cap'.at = "top" /\ UNCHANGED <<dog, warm>>
<1>1. exited = "no" /\ cap.at = "frame" /\ UNCHANGED <<source, dev, old, watched, exited, quiet, pictured, streak>>
  BY DEF FrameFails, Running
<1>2. CASE TooManyErrors(cap.loop.errs + 1)
  <2>1. cap' = [cap EXCEPT !.at = "open"] /\ dog' = Reopen(dog) /\ warm' = NoDevice
    BY <1>2 DEF FrameFails, Publishes
  <2>2. /\ cap' \in [at : Ats, wait : 0..FrameTimeout, stalls : 0..MaxStalls, loop : Loop]
        /\ cap'.at = "open" /\ cap'.stalls = cap.stalls /\ cap'.loop = cap.loop
    BY <2>1 DEF VideoTypes, Ats
  <2>3. /\ dog' \in Dog /\ dog'.cancelled
        /\ dog'.stalled = dog.stalled /\ dog'.first = dog.first /\ dog'.fresh = dog.fresh /\ dog'.any = dog.any
    BY <2>1 DEF VideoTypes, Dog, Reopen
  <2> QED BY <1>1, <2>1, <2>2, <2>3
<1>3. CASE ~TooManyErrors(cap.loop.errs + 1)
  <2> DEFINE l == [cap.loop EXCEPT !.errs = @ + 1]
  <2>1. cap' = [cap EXCEPT !.at = "top", !.loop = l] /\ UNCHANGED <<dog, warm>>
    BY <1>3 DEF FrameFails, VideoTypes, Loop
  <2>2. cap.loop \in Loop
    BY DEF VideoTypes
  <2>3. cap.loop.errs + 1 \in 0..(MaxErrors - 1)
    BY <1>3, <2>2, Limits DEF TooManyErrors, Loop
  <2>4. /\ l \in Loop /\ l.dims = cap.loop.dims /\ l.stable = cap.loop.stable /\ l.ref = cap.loop.ref
        /\ l.noise = cap.loop.noise
    BY <2>2, <2>3 DEF Loop
  <2> HIDE DEF l
  <2>5. /\ cap' \in [at : Ats, wait : 0..FrameTimeout, stalls : 0..MaxStalls, loop : Loop]
        /\ cap'.at = "top" /\ cap'.stalls = cap.stalls /\ cap'.loop = l
    BY <2>1, <2>4 DEF VideoTypes, Ats
  <2> QED BY <1>1, <2>1, <2>4, <2>5
<1> QED BY <1>2, <1>3

\* A watchdog that looks, and one that waits.
LEMMA LookedFields ==
  ASSUME NEW d \in Dog
  PROVE  /\ Looked(d) \in Dog /\ Looked(d).left = Poll /\ ~Looked(d).first /\ ~Looked(d).fresh
         /\ Looked(d).any = d.any /\ Looked(d).cancelled = d.cancelled
         /\ Looked(d).stalled = (d.stalled \/ (IF d.first THEN ~d.any ELSE ~d.fresh))
<1>1. Poll \in 0..Grace
  BY Limits
<1>2. (d.stalled \/ (IF d.first THEN ~d.any ELSE ~d.fresh)) \in BOOLEAN
  BY DEF Dog
<1> QED BY <1>1, <1>2 DEF Looked, Dog

\* See LookedFields.
LEMMA CountedFields ==
  ASSUME NEW d \in Dog
  PROVE  /\ Counted(d) \in Dog /\ Counted(d).left = IF d.left = 0 THEN 0 ELSE d.left - 1
         /\ Counted(d).first = d.first /\ Counted(d).fresh = d.fresh /\ Counted(d).any = d.any
         /\ Counted(d).stalled = d.stalled /\ Counted(d).cancelled = d.cancelled
<1>1. (IF d.left = 0 THEN 0 ELSE d.left - 1) \in 0..Grace
  BY Limits DEF Dog
<1> QED BY <1>1 DEF Counted, Dog

\* A second.
LEMMA TickFields ==
  ASSUME VideoTypes, Tick
  PROVE  /\ exited = "no" /\ cap.at \in {"pace", "sleep", "gone", "frame"}
         /\ UNCHANGED <<source, dev, watched, exited, pictured, streak>>
         /\ dog.left = 0 => dog.cancelled
         /\ dog' = Counted(dog) /\ old' = { Counted(d) : d \in old }
         /\ cap' \in [at : Ats, wait : 0..FrameTimeout, stalls : 0..MaxStalls, loop : Loop]
         /\ cap'.stalls = cap.stalls /\ cap'.loop = cap.loop
         /\ cap'.at = (IF cap.at = "pace" THEN "top" ELSE IF cap.at = "sleep" THEN "open" ELSE cap.at)
         /\ warm' \in [sig : Signals, dims : Nat, hash : Shown, epoch : Nat, age : Nat]
         /\ warm'.sig = warm.sig /\ warm'.dims = warm.dims /\ warm'.hash = warm.hash
         /\ warm'.age = IF warm.age > StaleAfter THEN warm.age ELSE warm.age + 1
         /\ quiet' = IF quiet < QuietLimit THEN quiet + 1 ELSE quiet
<1>1. /\ exited = "no" /\ cap.at \in {"pace", "sleep", "gone", "frame"}
      /\ UNCHANGED <<source, dev, watched, exited, pictured, streak>>
      /\ dog.left = 0 => dog.cancelled
      /\ dog' = Counted(dog) /\ old' = { Counted(d) : d \in old }
      /\ quiet' = IF quiet < QuietLimit THEN quiet + 1 ELSE quiet
  BY DEF Tick, Sleeps, Due
<1>2. /\ cap \in [at : Ats, wait : 0..FrameTimeout, stalls : 0..MaxStalls, loop : Loop]
      /\ warm \in [sig : Signals, dims : Nat, hash : Shown, epoch : Nat, age : Nat]
  BY DEF VideoTypes
<1> DEFINE a == CASE cap.at = "pace" -> "top" [] cap.at = "sleep" -> "open" [] OTHER -> cap.at
           w == IF cap.at = "frame" /\ cap.wait < FrameTimeout THEN cap.wait + 1 ELSE cap.wait
           g == IF warm.age > StaleAfter THEN warm.age ELSE warm.age + 1
<1>3. cap' = [cap EXCEPT !.at = a, !.wait = w] /\ warm' = [warm EXCEPT !.age = g]
  BY <1>2 DEF Tick
<1>4. a \in Ats /\ a = (IF cap.at = "pace" THEN "top" ELSE IF cap.at = "sleep" THEN "open" ELSE cap.at)
  BY <1>2 DEF Ats
<1>5. w \in 0..FrameTimeout /\ g \in Nat
  BY <1>2, Limits DEF StaleAfter
<1> HIDE DEF a, w, g
<1>6. /\ cap' \in [at : Ats, wait : 0..FrameTimeout, stalls : 0..MaxStalls, loop : Loop]
      /\ cap'.stalls = cap.stalls /\ cap'.loop = cap.loop /\ cap'.at = a
  BY ONLY <1>2, <1>3, <1>4, <1>5
<1>7. /\ warm' \in [sig : Signals, dims : Nat, hash : Shown, epoch : Nat, age : Nat]
      /\ warm'.sig = warm.sig /\ warm'.dims = warm.dims /\ warm'.hash = warm.hash /\ warm'.age = g
  BY ONLY <1>2, <1>3, <1>5
<1> QED BY <1>1, <1>4, <1>6, <1>7 DEF g

\* A watchdog that wakes.
LEMMA WakeFields ==
  ASSUME VideoTypes, \A d \in old : d.cancelled, DogWakes
  PROVE  /\ exited = "no" /\ UNCHANGED <<source, dev, cap, warm, watched, quiet, pictured, streak>>
         /\ \/ /\ dog.left = 0 /\ ~dog.cancelled /\ dog' = Looked(dog) /\ UNCHANGED old
               /\ exited' = IF ~dog.first /\ ~dog.fresh /\ dog.stalled THEN "dog" ELSE "no"
            \/ old' \subseteq old /\ exited' = "no" /\ UNCHANGED dog
BY DEF DogWakes, Due, Bites

\* The bench changes what the device shows or does, and who watches.
LEMMA BenchFields ==
  ASSUME VideoTypes, Bench
  PROVE  /\ exited = "no" /\ UNCHANGED <<cap, dog, old, warm, exited, quiet, pictured, streak>>
         /\ watched' => watched
         /\ watched' \in BOOLEAN
         /\ source' \in [pictures : SUBSET Picture, faults : Nat]
         /\ dev' \in [is : {"streaming", "silent", "failing", "wedged", "absent"}, pic : Picture]
<1>0. /\ source \in [pictures : SUBSET Picture, faults : Nat] /\ watched \in BOOLEAN
      /\ dev \in [is : {"streaming", "silent", "failing", "wedged", "absent"}, pic : Picture]
  BY DEF VideoTypes
<1>1. exited = "no" /\ UNCHANGED <<cap, dog, old, warm, exited, quiet, pictured, streak>>
  BY DEF Bench
<1>2. CASE (\E p \in source.pictures \ {dev.pic} : dev' = [dev EXCEPT !.pic = p]) /\ UNCHANGED <<source, watched>>
  BY <1>0, <1>1, <1>2
<1>3. CASE /\ source.faults > 0 /\ source' = [source EXCEPT !.faults = @ - 1] /\ UNCHANGED watched
           /\ \E s \in {"streaming", "silent", "failing", "wedged", "absent"} \ {dev.is} : dev' = [dev EXCEPT !.is = s]
  <2>1. source.faults - 1 \in Nat
    BY <1>0, <1>3
  <2>2. source' \in [pictures : SUBSET Picture, faults : Nat]
    BY <1>0, <1>3, <2>1
  <2> QED BY <1>0, <1>1, <1>3, <2>2
<1>4. CASE watched /\ watched' = FALSE /\ source' = [source EXCEPT !.faults = 0] /\ UNCHANGED dev
  BY <1>0, <1>1, <1>4
<1> QED BY <1>2, <1>3, <1>4 DEF Bench

-----------------------------------------------------------------------------
(***************************************************************************)
(* Every step keeps the invariant.                                         *)
(***************************************************************************)
\* The types.
LEMMA TypesStep ==
  ASSUME VideoInv, CaptureNext
  PROVE  VideoTypes'
<1>0. /\ VideoTypes /\ ScreenInv /\ (exited = "no" => cap.stalls < MaxStalls) /\ (\A d \in old : d.cancelled)
      /\ QuietLimit \in Nat
  BY QuietLimits DEF VideoInv, StallInv, DogInv
<1>01. /\ NoDevice \in [sig : Signals, dims : Nat, hash : Shown, epoch : Nat, age : Nat]
       /\ NewDog \in Dog /\ None \in Shown
  BY Limits, PictureFacts DEF NoDevice, Signals, NewDog, Dog
<1> USE DEF VideoTypes
<1>1. CASE OpenBackend
  BY <1>0, <1>01, <1>1, OpenFields
<1>2. CASE LoopTop
  BY <1>0, <1>01, <1>2, TopFields
<1>3. CASE FrameArrives
  <2>1. streak' \in Nat
    BY <1>3, <1>0 DEF FrameArrives
  <2> QED BY <1>0, <1>3, <2>1, FrameFields, PictureFacts
<1>4. CASE FrameFails
  BY <1>0, <1>01, <1>4, FailFields
<1>5. CASE DogWakes
  BY <1>0, <1>5, WakeFields, LookedFields
<1>6. CASE Bench
  BY <1>0, <1>6, BenchFields
<1>7. CASE Tick
  <2>1. old' \subseteq Dog /\ dog' \in Dog
    BY <1>0, <1>7, TickFields, CountedFields
  <2>2. quiet' \in 0..QuietLimit
    BY <1>0, <1>7, TickFields
  <2> QED BY <1>0, <1>7, <2>1, <2>2, TickFields
<1> QED BY <1>1, <1>2, <1>3, <1>4, <1>5, <1>6, <1>7 DEF CaptureNext, CaptureStep

\* What is said of the picture.
Claims == ScreenInv /\ StableIsSettled /\ LitIsNotDark /\ HashIsNear

\* The watchdog, the bench and the passing of time leave it so, and only a frame says more.
LEMMA ScreenStep ==
  ASSUME VideoInv, CaptureNext
  PROVE  Claims'
<1>0. /\ VideoTypes /\ Claims /\ (exited = "no" => cap.stalls < MaxStalls) /\ (\A d \in old : d.cancelled)
      /\ cap.loop \in Loop /\ streak \in Nat /\ quiet \in Nat /\ warm.age \in Nat /\ pictured \in Shown
      /\ cap.loop.stable \in Nat
  BY QuietLimits, Limits DEF VideoInv, VideoTypes, StallInv, DogInv, Loop, Claims
<1>01. NoDevice.sig = "no_device" /\ None.dims = 0 /\ None.luma = << >> /\ DOMAIN None.luma = {}
  BY DEF NoDevice, None
<1> USE DEF Claims, ScreenInv, StableIsSettled, LitIsNotDark, HashIsNear
<1>1. CASE OpenBackend
  <2>1. NewLoop.dims = 0 /\ NewLoop.stable = 0 /\ NewLoop.noise = None
    BY DEF NewLoop
  <2> QED BY <1>0, <1>01, <1>1, <2>1, OpenFields
<1>2. CASE LoopTop
  BY <1>0, <1>01, <1>2, TopFields
<1>3. CASE FrameArrives
  <2> DEFINE p == dev.pic
             l == cap.loop
             t == Taken(l, p)
             s == Settled(p, l.ref, l.noise)
  <2>0. /\ p \in Picture /\ cap'.loop = t /\ pictured' = p /\ cap'.at = "pace" /\ quiet' = 0 /\ warm'.age = 0
        /\ warm'.sig = SignalOf(l, p) /\ warm'.dims = p.dims /\ warm'.hash = s.hash
    BY <1>0, <1>3, FrameFields
  <2>1. streak' = IF IsNoSignal(p) THEN 0
                  ELSE IF p.dims # pictured.dims THEN 1
                  ELSE IF streak > StableFrames THEN streak ELSE streak + 1
    BY <1>3 DEF FrameArrives
  <2>2. /\ t \in Loop /\ t.dims = p.dims
        /\ t.noise # None => t.ref # None /\ Near(t.noise, t.ref)
        /\ IsNoSignal(p) => t.stable = 0
        /\ ~IsNoSignal(p) /\ p.dims # l.dims => t.stable = 1
        /\ ~IsNoSignal(p) /\ p.dims = l.dims => t.stable <= l.stable + 1
    BY <1>0, <2>0, TakenFacts
  <2>3. Threshold > 0 => Comparable(s.hash, p) /\ ~Exceeds(p, s.hash)
    <3>1. l.ref \in Shown /\ l.noise \in Shown
      BY <1>0 DEF Loop
    <3> QED BY <1>0, <2>0, <3>1, SettledFacts
  <2>4. IsNoSignal(p) => \A i \in DOMAIN p.luma : p.luma[i].v < 64
    BY DEF IsNoSignal
  <2>5. t.stable \in 0..StableFrames /\ l.stable \in 0..StableFrames
    BY <1>0, <2>2 DEF Loop
  <2> HIDE DEF t, s
  <2>6. ScreenInv'
    <3>1. t.stable <= streak'
      BY <1>0, <2>1, <2>2, <2>5, Limits
    <3> QED BY <2>0, <2>2, <3>1 
  <2>7. StableIsSettled' /\ LitIsNotDark'
    <3>1. warm'.sig = "stable" => ~IsNoSignal(p) /\ l.stable >= StableFrames /\ p.dims = l.dims
      BY <2>0, <2>5, Limits DEF SignalOf
    <3>2. warm'.sig = "no_signal" => IsNoSignal(p)
      BY <2>0 DEF SignalOf
    <3> QED BY <1>0, <2>0, <2>1, <2>4, <2>5, <3>1, <3>2, Limits
  <2>8. HashIsNear'
    BY <2>0, <2>3
  <2> QED BY <2>6, <2>7, <2>8
<1>4. CASE FrameFails
  BY <1>0, <1>01, <1>4, FailFields
<1>5. CASE DogWakes
  BY <1>0, <1>5, WakeFields
<1>6. CASE Bench
  BY <1>0, <1>6, BenchFields
<1>7. CASE Tick
  <2>1. warm'.sig \in {"stable", "mode_switching"} => quiet' <= warm'.age \/ warm'.age > StaleAfter
    BY <1>0, <1>7, TickFields, QuietLimits DEF StaleAfter
  <2> QED BY <1>0, <1>7, <2>1, TickFields
<1> QED BY <1>1, <1>2, <1>3, <1>4, <1>5, <1>6, <1>7 DEF CaptureNext, CaptureStep

\* The watchdogs.
LEMMA DogStep ==
  ASSUME VideoInv, CaptureNext
  PROVE  DogInv'
<1>0. /\ VideoTypes /\ ScreenInv /\ DogInv /\ (exited = "no" => cap.stalls < MaxStalls)
      /\ dog \in Dog /\ quiet \in Nat /\ dog.left \in 0..Grace /\ old \subseteq Dog
  BY QuietLimits DEF VideoInv, VideoTypes, StallInv, Dog
<1> USE DEF DogInv
<1>1. CASE OpenBackend
  <2>1. /\ NewDog.left = Grace /\ NewDog.first /\ ~NewDog.fresh /\ ~NewDog.any /\ ~NewDog.stalled /\ ~NewDog.cancelled
    BY DEF NewDog
  <2> QED BY <1>0, <1>1, <2>1, OpenFields, Limits
<1>2. CASE LoopTop
  <2>1. dog.stalled => ~dog.first
    BY <1>0
  <2>2. watched /\ dog.stalled => ~dog'.stalled /\ dog'.cancelled
    BY <1>0, <1>2, TopFields
  <2> QED BY <1>0, <1>2, <2>1, <2>2, TopFields, Limits
<1>3. CASE FrameArrives
  BY <1>0, <1>3, FrameFields
<1>4. CASE FrameFails
  BY <1>0, <1>4, FailFields, Limits
<1>5. CASE DogWakes
  <2>1. CASE dog.left = 0 /\ ~dog.cancelled /\ dog' = Looked(dog) /\ UNCHANGED old
    <3>1. /\ dog'.left = Poll /\ ~dog'.first /\ ~dog'.fresh /\ dog'.any = dog.any /\ dog'.cancelled = dog.cancelled
          /\ dog'.stalled = (dog.stalled \/ (IF dog.first THEN ~dog.any ELSE ~dog.fresh))
      BY <1>0, <2>1, LookedFields
    <3>2. UNCHANGED <<cap, watched, quiet>>
      BY <1>0, <1>5, WakeFields
    <3>3. (~dog.any => quiet >= 2 * Poll) /\ (~dog.first /\ ~dog.fresh => quiet >= Poll)
      BY <1>0, <2>1, Limits
    <3>4. CASE dog.stalled
      <4>1. watched => (cap.at \in {"pace", "top"} \/ quiet >= 2 * Poll)
        BY <1>0, <2>1, <3>4, Limits
      <4> QED BY <1>0, <2>1, <3>1, <3>2, <3>3, <4>1, Limits
    <3>5. CASE ~dog.stalled
      <4>0. dog'.stalled => (dog.first /\ ~dog.any) \/ (~dog.first /\ ~dog.fresh)
        BY ONLY <3>1, <3>5, Zenon
      <4>1. dog'.stalled => quiet >= Poll
        BY <1>0, <3>3, <4>0, Limits
      <4> QED BY <1>0, <2>1, <3>1, <3>2, <3>3, <4>1, Limits
    <3> QED BY <3>4, <3>5
  <2>2. CASE old' \subseteq old /\ UNCHANGED <<dog, cap, watched, quiet>>
    BY <1>0, <2>2
  <2> QED BY <1>0, <1>5, <2>1, <2>2, WakeFields
<1>6. CASE Bench
  BY <1>0, <1>6, BenchFields
<1>7. CASE Tick
  <2>1. /\ dog'.left = (IF dog.left = 0 THEN 0 ELSE dog.left - 1)
        /\ dog'.first = dog.first /\ dog'.fresh = dog.fresh /\ dog'.any = dog.any
        /\ dog'.stalled = dog.stalled /\ dog'.cancelled = dog.cancelled
    BY <1>0, <1>7, TickFields, CountedFields
  <2>2. \A d \in old' : d.cancelled
    BY <1>0, <1>7, TickFields, CountedFields
  <2>3. /\ UNCHANGED watched /\ (dog.left = 0 => dog.cancelled)
        /\ cap.at \in {"pace", "sleep", "gone", "frame"}
        /\ cap'.at = (IF cap.at = "pace" THEN "top" ELSE IF cap.at = "sleep" THEN "open" ELSE cap.at)
        /\ quiet' = (IF quiet < QuietLimit THEN quiet + 1 ELSE quiet)
    BY <1>0, <1>7, TickFields
  <2>4. quiet' >= quiet /\ (quiet' >= quiet + 1 \/ quiet' >= 2 * Poll)
    BY <1>0, <2>3, QuietLimits
  <2>5. quiet' \in Nat
    BY <1>0, <2>3, QuietLimits
  <2> QED BY ONLY <1>0, <2>1, <2>2, <2>3, <2>4, <2>5, Limits DEF DogInv
<1> QED BY <1>1, <1>2, <1>3, <1>4, <1>5, <1>6, <1>7 DEF CaptureNext, CaptureStep

\* The stalls counted, and the exits.
LEMMA StallStep ==
  ASSUME VideoInv, CaptureNext
  PROVE  StallInv' /\ ExitIsDeserved'
<1>0. /\ VideoTypes /\ ScreenInv /\ DogInv /\ StallInv /\ ExitIsDeserved
      /\ dog \in Dog /\ quiet \in Nat /\ dog.left \in 0..Grace /\ cap.stalls \in Nat
      /\ (exited = "no" => cap.stalls < MaxStalls) /\ (\A d \in old : d.cancelled)
  BY QuietLimits, Limits DEF VideoInv, VideoTypes, StallInv, DogInv, Dog
<1>00. cap.stalls * Poll \in Nat /\ (cap.stalls + 1) * Poll = cap.stalls * Poll + Poll
  BY <1>0, QuietLimits
<1> USE DEF StallInv
<1>1. CASE OpenBackend
  <2>1. /\ NewDog.left = Grace /\ NewDog.first /\ ~NewDog.any /\ ~NewDog.cancelled
    BY DEF NewDog
  <2>2. /\ cap'.stalls = cap.stalls /\ UNCHANGED <<exited, quiet, watched>> /\ (dog' = dog \/ dog' = NewDog) /\ exited = "no"
    BY <1>0, <1>1, OpenFields
  <2>3. StallInv'
    BY <1>0, <1>00, <2>1, <2>2, Limits
  <2> QED BY <2>2, <2>3 DEF ExitIsDeserved
<1>2. CASE LoopTop
  <2>1. CASE cap'.stalls = cap.stalls /\ UNCHANGED <<dog, quiet, exited, watched>>
    BY <1>0, <2>1 DEF ExitIsDeserved
  <2>2. CASE /\ dog.stalled /\ dog'.cancelled /\ cap'.stalls = cap.stalls + 1 /\ cap.at = "top" /\ exited = "no"
             /\ exited' = IF cap.stalls + 1 >= MaxStalls THEN "stalls" ELSE "no"
             /\ UNCHANGED <<quiet, watched>>
    <3>1. ~dog.first /\ ~dog.cancelled /\ (~dog.any => quiet >= 2 * Poll)
      BY <1>0, <2>2 DEF DogInv
    <3>2. cap'.stalls >= 2 => quiet >= cap'.stalls * Poll
      <4>1. CASE cap.stalls = 0
        BY <2>2, <4>1
      <4>2. CASE cap.stalls = 1
        BY <1>0, <2>2, <3>1, <4>2, Limits
      <4>3. CASE cap.stalls >= 2
        BY <1>0, <1>00, <2>2, <3>1, <4>3
      <4> QED BY <1>0, <4>1, <4>2, <4>3
    <3>3. cap.stalls + 1 <= MaxStalls
      BY <1>0, <2>2, Limits
    <3>4. cap.stalls + 1 >= MaxStalls => cap'.stalls = MaxStalls /\ cap'.stalls >= 2
      BY <1>0, <2>2, <3>3, Limits
    <3>5. exited' = "stalls" => quiet' >= MaxStalls * Poll
      BY <2>2, <3>2, <3>4
    <3>6. exited' = "no" => cap'.stalls < MaxStalls
      BY <1>0, <2>2, Limits
    <3> QED BY <2>2, <3>2, <3>5, <3>6 DEF ExitIsDeserved
  <2> QED BY <1>0, <1>2, <2>1, <2>2, TopFields
<1>3. CASE FrameArrives
  <2>1. cap'.stalls = 0 /\ exited = "no" /\ UNCHANGED exited
    BY <1>0, <1>3, FrameFields
  <2> QED BY <2>1, Limits DEF ExitIsDeserved
<1>4. CASE FrameFails
  <2>1. /\ cap'.stalls = cap.stalls /\ UNCHANGED <<quiet, exited, watched>> /\ (dog' = dog \/ dog'.cancelled)
    BY <1>0, <1>4, FailFields
  <2> QED BY <1>0, <2>1 DEF ExitIsDeserved
<1>5. CASE DogWakes
  <2>1. CASE /\ dog.left = 0 /\ ~dog.cancelled /\ dog' = Looked(dog) /\ exited = "no"
             /\ exited' = IF ~dog.first /\ ~dog.fresh /\ dog.stalled THEN "dog" ELSE "no"
             /\ UNCHANGED <<cap, watched, quiet>>
    <3>1. /\ dog'.left = Poll /\ ~dog'.first /\ dog'.any = dog.any /\ dog'.cancelled = dog.cancelled
      BY <1>0, <2>1, LookedFields
    <3>2. StallInv'
      BY <1>0, <1>00, <2>1, <3>1, Limits
    <3>3. exited' = "dog" /\ watched => quiet >= 2 * Poll
      BY <1>0, <2>1, Limits DEF DogInv
    <3> QED BY <2>1, <3>2, <3>3 DEF ExitIsDeserved
  <2>2. CASE exited' = "no" /\ exited = "no" /\ UNCHANGED <<dog, cap, watched, quiet>>
    BY <1>0, <2>2 DEF ExitIsDeserved
  <2> QED BY <1>0, <1>5, <2>1, <2>2, WakeFields
<1>6. CASE Bench
  <2>1. UNCHANGED <<cap, dog, exited, quiet>> /\ exited = "no"
    BY <1>0, <1>6, BenchFields
  <2> QED BY <1>0, <2>1 DEF ExitIsDeserved
<1>7. CASE Tick
  <2>1. /\ dog'.left = (IF dog.left = 0 THEN 0 ELSE dog.left - 1) /\ dog'.first = dog.first /\ dog'.any = dog.any
        /\ dog'.cancelled = dog.cancelled
    BY <1>0, <1>7, TickFields, CountedFields
  <2>2. /\ exited = "no" /\ UNCHANGED exited /\ (dog.left = 0 => dog.cancelled) /\ cap'.stalls = cap.stalls
        /\ quiet' = (IF quiet < QuietLimit THEN quiet + 1 ELSE quiet)
    BY <1>0, <1>7, TickFields
  <2>3. quiet' \in Nat /\ quiet' >= quiet /\ (quiet' >= quiet + 1 \/ quiet' >= cap.stalls * Poll + Poll)
    BY <1>0, <2>2, QuietLimits
  <2> QED BY <1>0, <1>00, <2>1, <2>2, <2>3, Limits DEF ExitIsDeserved
<1> QED BY <1>1, <1>2, <1>3, <1>4, <1>5, <1>6, <1>7 DEF CaptureNext, CaptureStep

\* It holds when the thread starts.
LEMMA VideoInitInv == CaptureInit => VideoInv
<1> SUFFICES ASSUME CaptureInit PROVE VideoInv
  OBVIOUS
<1>1. NewLoop \in Loop /\ NewLoop.dims = 0 /\ NewLoop.stable = 0 /\ NewLoop.noise = None
  BY Limits, PictureFacts DEF NewLoop, Loop
<1>2. dog \in Dog /\ dog.cancelled /\ ~dog.stalled /\ ~dog.fresh /\ old = {}
  <2>1. old = {} /\ dog = [left |-> 0, first |-> TRUE, fresh |-> FALSE, any |-> FALSE, stalled |-> FALSE, cancelled |-> TRUE]
    BY DEF CaptureInit, NewDog
  <2>2. 0 \in 0..Grace
    BY Limits
  <2> QED BY <2>1, <2>2 DEF Dog
<1>3. /\ cap \in [at : Ats, wait : 0..FrameTimeout, stalls : 0..MaxStalls, loop : Loop]
      /\ cap.at = "open" /\ cap.stalls = 0 /\ cap.loop = NewLoop
  <2> HIDE DEF NewLoop
  <2> QED BY <1>1, Limits DEF CaptureInit, Ats
<1>4. warm \in [sig : Signals, dims : Nat, hash : Shown, epoch : Nat, age : Nat] /\ warm.sig = "no_device"
  BY PictureFacts DEF CaptureInit, NoDevice, Signals
<1>5. /\ source \in [pictures : SUBSET Picture, faults : Nat]
      /\ dev \in [is : {"streaming", "silent", "failing", "wedged", "absent"}, pic : Picture]
  BY VideoAssumption DEF CaptureInit
<1>6. watched \in BOOLEAN /\ exited = "no" /\ quiet = 0 /\ pictured = None /\ streak = 0
  BY DEF CaptureInit
<1>7. VideoTypes
  BY <1>2, <1>3, <1>4, <1>5, <1>6, QuietLimits, PictureFacts DEF VideoTypes
<1>8. ScreenInv /\ StableIsSettled /\ LitIsNotDark /\ HashIsNear
  BY <1>1, <1>3, <1>4, <1>6, PictureFacts DEF ScreenInv, StableIsSettled, LitIsNotDark, HashIsNear
<1>9. DogInv /\ StallInv /\ ExitIsDeserved
  BY <1>2, <1>3, <1>6, Limits DEF DogInv, StallInv, ExitIsDeserved
<1> QED BY <1>7, <1>8, <1>9 DEF VideoInv

\* What loop, watchdogs and history say of one another holds throughout.
THEOREM VideoInvariant == CaptureSpec => []VideoInv
<1>1. ASSUME VideoInv, [CaptureNext]_captureVars PROVE VideoInv'
  <2>1. CASE CaptureNext
    BY <1>1, <2>1, TypesStep, ScreenStep, DogStep, StallStep DEF VideoInv, Claims
  <2>2. CASE UNCHANGED captureVars
    BY <1>1, <2>2 DEF captureVars, VideoInv, VideoTypes, ScreenInv, DogInv, StallInv, StableIsSettled, LitIsNotDark,
                      HashIsNear, ExitIsDeserved
  <2> QED BY <1>1, <2>1, <2>2
<1> QED BY <1>1, VideoInitInv, PTL DEF CaptureSpec

\* What is said of the screen is true of it over mode switches, faults, reopens and the watchdog
\* of an earlier opening, for any pictures, threshold and limits (capture_thread.rs, frame.rs).
THEOREM ScreenStateAlwaysTrue == CaptureSpec => []ScreenStateIsTrue
<1>1. VideoInv => ScreenStateIsTrue
  <2> SUFFICES ASSUME VideoInv PROVE ScreenStateIsTrue
    OBVIOUS
  <2>1. cap.loop \in Loop /\ dog \in Dog /\ old \subseteq Dog
    BY DEF VideoInv, VideoTypes
  <2>2. CaptureTypeOK
    BY <2>1 DEF VideoInv, VideoTypes, CaptureTypeOK, Loop, Dog, Ats, Signals
  <2>3. DeadPathIsNotLive
    <3>1. quiet \in Nat /\ warm.age \in Nat /\ ScreenInv
      BY QuietLimits DEF VideoInv, VideoTypes
    <3> QED BY <3>1 DEF ScreenInv, DeadPathIsNotLive, EffectiveSignal, StaleAfter
  <2> QED BY <2>2, <2>3 DEF VideoInv, ScreenStateIsTrue
<1> QED BY <1>1, VideoInvariant, PTL

-----------------------------------------------------------------------------
(***************************************************************************)
(* hdmicap's requests, for any number of clients, frames and permits.      *)
(* Each step of a request says what it may hold there (ReqOK), the         *)
(* counters count the holders, and the capture thread goes to sleep only   *)
(* on a count of zero, which every later viewer raises before it wakes it  *)
(* (SleepInv).                                                             *)
(***************************************************************************)
Bit(b) == IF b THEN 1 ELSE 0
Sigs == {"stable", "mode_switching", "no_signal", "no_device"}
Frame == [id : 0..MaxFrames, sig : Sigs, hash : {0} \cup {s.hash : s \in Shots}, form : {"jpeg", "pixels", "bad"},
          old : BOOLEAN, stale : BOOLEAN]
ReqOps == {"none", "snapshot", "ocr", "preview", "power"}
ReqAts == {"idle", "done", "pull", "fresh", "count", "wake", "poll", "wait", "take", "permit", "png", "jpeg", "spawn",
           "child", "tick"}
Sinces == {0} \cup {q.since : q \in UNION {Requests[c] : c \in Clients}}
Tellings == Sigs \cup {"nothing", "none", "frame", "failed", "stale"}
Req == [op : ReqOps, at : ReqAts, seen : 0..MaxFrames, stable : BOOLEAN, since : Sinces, late : BOOLEAN, f : Frame,
        stream : BOOLEAN, permit : BOOLEAN, child : {"none", "next", "works", "wedged"},
        served : Tellings \X (0..MaxFrames), shown : Tellings, tries : Nat, need : 0..(MaxFrames + 1)]

ServeTypes ==
  /\ film \in [warm : Frame, alive : BOOLEAN] /\ pace \in {"capturing", "check", "park", "asleep"}
  /\ token \in BOOLEAN /\ pulled \in BOOLEAN /\ streams \in Nat /\ free \in Nat
  /\ cache \in 0..MaxFrames /\ asked \in [Clients -> 0..MaxRequests] /\ req \in [Clients -> Req]

\* A request at its step, with frame n published: what it holds, how old a frame it may be
\* given, and what its viewer has been told.
HoldsOK(r) ==
  /\ r.at \in {"idle", "done"} => r.child = "none" /\ ~r.permit /\ ~r.stream
  /\ r.at \in {"pull", "fresh", "count", "wake", "poll", "wait", "take", "tick", "permit"} => ~r.permit
  /\ r.at \in {"png", "jpeg"} => r.permit
  /\ r.at \in {"pull", "fresh", "count"} => ~r.stream
  /\ r.at = "wake" => r.stream
FreshOK(r, n) ==
  /\ r.at = "fresh" => r.seen <= n /\ r.need <= r.seen + 1
  /\ r.at \in {"count", "wake", "poll", "wait", "take", "tick"} => r.need <= n
  /\ r.at = "permit" => r.need <= r.f.id
  /\ r.at \in {"png", "jpeg"} => r.need = 0
ToldOK(r) ==
  /\ r.at \in {"pull", "fresh", "poll", "wait", "take", "png"} => r.op # "preview"
  /\ (r.at = "permit" /\ r.op = "preview") \/ r.at = "jpeg" => r.served # <<"failed", r.f.id>>
  /\ r.tries <= 1
  /\ r.served[1] \in {"nothing", "failed"} \/ r.shown = r.served[1]
ReqOK(r, n) == HoldsOK(r) /\ FreshOK(r, n) /\ ToldOK(r)

Permitted == {c \in Clients : req[c].permit}
Streaming == {c \in Clients : req[c].stream}
CountInv == free = Permits - Cardinality(Permitted) /\ streams = Cardinality(Streaming)
Sleepy == (pace = "asleep" \/ (pace = "park" /\ ~token)) /\ film.alive
SleepInv == Sleepy => \A c \in Clients : req[c].stream => req[c].at = "wake"
ServeInv ==
  /\ ServeTypes /\ CountInv /\ SleepInv
  /\ \A c \in Clients : ReqOK(req[c], Warm.id)

-----------------------------------------------------------------------------
LEMMA Recount ==
  ASSUME NEW A, IsFiniteSet(A), NEW B, NEW c, \A d : d # c => (d \in A <=> d \in B)
  PROVE  /\ IsFiniteSet(B) /\ Cardinality(A) \in Nat /\ Cardinality(B) \in Nat
         /\ Cardinality(B) = Cardinality(A) + Bit(c \in B) - Bit(c \in A)
<1>0. Cardinality(A) \in Nat
  BY FS_CardinalityType
<1>1. CASE c \in A <=> c \in B
  <2>1. A = B
    BY <1>1
  <2> QED BY <1>0, <2>1 DEF Bit
<1>2. CASE c \notin A /\ c \in B
  <2>1. B = A \cup {c}
    BY <1>2
  <2>2. IsFiniteSet(B) /\ Cardinality(B) = Cardinality(A) + 1
    BY <1>2, <2>1, FS_AddElement
  <2> QED BY <1>0, <1>2, <2>2 DEF Bit
<1>3. CASE c \in A /\ c \notin B
  <2>1. B = A \ {c}
    BY <1>3
  <2>2. IsFiniteSet(B) /\ Cardinality(B) = Cardinality(A) - 1
    BY <1>3, <2>1, FS_RemoveElement
  <2>3. Cardinality(B) \in Nat
    BY <2>2, FS_CardinalityType
  <2> QED BY <1>0, <1>3, <2>2, <2>3 DEF Bit
<1> QED BY <1>1, <1>2, <1>3

LEMMA Zeros == 0 \in 0..MaxFrames /\ 0 \in 0..(MaxFrames + 1) /\ 0 \in 0..MaxRequests /\ Permits \in Nat
BY ServeAssumption

LEMMA FilmTyped ==
  ASSUME ServeTypes
  PROVE  Warm \in Frame /\ Warm.id \in 0..MaxFrames /\ film.alive \in BOOLEAN /\ MaxFrames \in Nat
BY ServeAssumption DEF ServeTypes, Warm, Frame

\* A later frame does no harm to a request.
LEMMA LaterFrame ==
  ASSUME NEW r \in Req, NEW n \in 0..MaxFrames, NEW m \in 0..MaxFrames, n <= m, ReqOK(r, n)
  PROVE  ReqOK(r, m)
<1>1. r.seen \in 0..MaxFrames /\ r.need \in 0..(MaxFrames + 1) /\ MaxFrames \in Nat
  BY ServeAssumption DEF Req
<1>2. FreshOK(r, m)
  BY <1>1 DEF ReqOK, FreshOK
<1> QED BY <1>2 DEF ReqOK

\* One request moves to another record.
LEMMA RequestMoves ==
  ASSUME ServeInv, NEW c \in Clients, NEW r \in Req, Goes(c, r), ReqOK(r, Warm.id), film' = film,
         pulled' \in BOOLEAN, cache' \in 0..MaxFrames, asked' \in [Clients -> 0..MaxRequests],
         streams' = streams + Bit(r.stream) - Bit(req[c].stream),
         free' = free + Bit(req[c].permit) - Bit(r.permit),
         r.permit => req[c].permit \/ free > 0,
         \/ Unpark
         \/ /\ UNCHANGED <<pace, token>>
            /\ r.stream /\ r.at # "wake" => req[c].stream /\ req[c].at # "wake"
  PROVE  ServeInv'
<1>1. /\ ServeTypes /\ CountInv /\ SleepInv /\ req \in [Clients -> Req] /\ free \in Nat /\ streams \in Nat
      /\ IsFiniteSet(Clients) /\ Permits \in Nat
  BY ServeAssumption DEF ServeInv, ServeTypes
<1>2. req'[c] = r /\ (\A d \in Clients : d # c => req'[d] = req[d]) /\ req' \in [Clients -> Req]
  BY <1>1 DEF Goes
<1>3. IsFiniteSet(Permitted) /\ IsFiniteSet(Streaming)
  <2>1. Permitted \subseteq Clients /\ Streaming \subseteq Clients
    BY DEF Permitted, Streaming
  <2> QED BY <1>1, <2>1, FS_Subset
<1>4. /\ \A d : d # c => (d \in Permitted <=> d \in Permitted') /\ (d \in Streaming <=> d \in Streaming')
      /\ (c \in Permitted <=> req[c].permit) /\ (c \in Permitted' <=> r.permit)
      /\ (c \in Streaming <=> req[c].stream) /\ (c \in Streaming' <=> r.stream)
  BY <1>2 DEF Permitted, Streaming
<1>5. /\ Cardinality(Permitted') = Cardinality(Permitted) + Bit(r.permit) - Bit(req[c].permit)
      /\ Cardinality(Permitted) \in Nat /\ Cardinality(Permitted') \in Nat
  <2>1. /\ Cardinality(Permitted') = Cardinality(Permitted) + Bit(c \in Permitted') - Bit(c \in Permitted)
        /\ Cardinality(Permitted) \in Nat /\ Cardinality(Permitted') \in Nat
    BY <1>3, <1>4, Recount
  <2> QED BY <1>4, <2>1 DEF Bit
<1>6. /\ Cardinality(Streaming') = Cardinality(Streaming) + Bit(r.stream) - Bit(req[c].stream)
      /\ Cardinality(Streaming) \in Nat /\ Cardinality(Streaming') \in Nat
  <2>1. /\ Cardinality(Streaming') = Cardinality(Streaming) + Bit(c \in Streaming') - Bit(c \in Streaming)
        /\ Cardinality(Streaming) \in Nat /\ Cardinality(Streaming') \in Nat
    BY <1>3, <1>4, Recount
  <2> QED BY <1>4, <2>1 DEF Bit
<1>7. CountInv' /\ free' \in Nat /\ streams' \in Nat
  <2>1. free' = Permits - Cardinality(Permitted') /\ streams' = Cardinality(Streaming')
    BY <1>1, <1>5, <1>6 DEF CountInv, Bit
  <2>2. free' \in Nat
    BY <1>1 DEF Bit
  <2> QED BY <1>6, <2>1, <2>2 DEF CountInv
<1>8. pace' \in {"capturing", "check", "park", "asleep"} /\ token' \in BOOLEAN
  BY <1>1 DEF ServeTypes, Unpark, Wakes
<1>9. SleepInv'
  <2>1. CASE Unpark /\ film.alive
    <3>1. pace' # "asleep" /\ (pace' = "park" => token')
      BY <1>1, <2>1 DEF Unpark, Wakes, ServeTypes
    <3> QED BY <3>1 DEF SleepInv, Sleepy
  <2>2. CASE ~film.alive
    BY <2>2 DEF SleepInv, Sleepy
  <2>3. CASE /\ UNCHANGED <<pace, token>>
             /\ r.stream /\ r.at # "wake" => req[c].stream /\ req[c].at # "wake"
    <3>1. SUFFICES ASSUME Sleepy', NEW d \in Clients, req'[d].stream PROVE req'[d].at = "wake"
      BY DEF SleepInv
    <3>2. Sleepy
      BY <2>3, <3>1 DEF Sleepy
    <3>3. \A e \in Clients : req[e].stream => req[e].at = "wake"
      BY <1>1, <3>2 DEF SleepInv
    <3> QED BY <1>2, <2>3, <3>1, <3>3
  <2> QED BY <2>1, <2>2, <2>3
<1>10. ServeTypes'
  BY <1>1, <1>2, <1>7, <1>8 DEF ServeTypes
<1>11. \A d \in Clients : ReqOK(req'[d], Warm.id)
  BY <1>2 DEF ServeInv
<1> QED BY <1>7, <1>9, <1>10, <1>11 DEF ServeInv, Warm

LEMMA NoFrameTyped == NoFrame \in Frame /\ NoFrame.id = 0
BY ServeAssumption DEF NoFrame, Frame, Sigs

LEMMA IdleTyped ==
  /\ Idle \in Req /\ Idle.at = "idle" /\ Idle.child = "none" /\ Idle.permit = FALSE /\ Idle.stream = FALSE /\ Idle.tries = 0
  /\ Idle.served = <<"nothing", 0>> /\ Idle.need = 0 /\ Idle.op = "none"
<1>1. 0 \in 0..MaxFrames /\ 0 \in 0..(MaxFrames + 1) /\ 0 \in Sinces
  BY ServeAssumption DEF Sinces
<1>2. <<"nothing", 0>> \in Tellings \X (0..MaxFrames) /\ "none" \in Tellings
  BY <1>1 DEF Tellings
<1> QED BY <1>1, <1>2, NoFrameTyped DEF Idle, Req, ReqOps, ReqAts

LEMMA IdleOK == ASSUME NEW n \in 0..MaxFrames PROVE ReqOK(Idle, n)
<1>1. Idle.served[1] = "nothing"
  BY IdleTyped
<1> QED BY <1>1, IdleTyped, ServeAssumption DEF ReqOK, HoldsOK, FreshOK, ToldOK

\* What is known of a request of the present.
LEMMA Knows ==
  ASSUME ServeInv, NEW c \in Clients
  PROVE  /\ req[c] \in Req /\ HoldsOK(req[c]) /\ FreshOK(req[c], Warm.id) /\ ToldOK(req[c])
         /\ Warm \in Frame /\ Warm.id \in 0..MaxFrames /\ MaxFrames \in Nat
         /\ pulled \in BOOLEAN /\ cache \in 0..MaxFrames /\ asked \in [Clients -> 0..MaxRequests]
         /\ free \in Nat /\ streams \in Nat
         /\ req[c].stream \in BOOLEAN /\ req[c].permit \in BOOLEAN /\ req[c].op \in ReqOps
         /\ req[c].seen \in 0..MaxFrames /\ req[c].need \in 0..(MaxFrames + 1) /\ req[c].tries \in Nat
         /\ req[c].f \in Frame
<1>1. ServeTypes /\ ReqOK(req[c], Warm.id)
  BY DEF ServeInv
<1>2. req[c] \in Req
  BY <1>1 DEF ServeTypes
<1> QED BY <1>1, <1>2, FilmTyped DEF ReqOK, ServeTypes, Req

\* A request that ends, or is dropped, gives back what it held.
LEMMA EndsKeeps == ASSUME ServeInv, NEW c \in Clients, Ends(c) PROVE ServeInv'
<1> DEFINE o == req[c].op
           q == Dropped(req[c])
           r == [Idle EXCEPT !.op = q.op, !.at = "done", !.stream = q.stream, !.permit = q.permit, !.child = q.child]
<1>0. req[c] \in Req /\ o \in ReqOps
  BY Knows
<1>1. q.op = o /\ q.stream = FALSE /\ q.permit = FALSE /\ q.child = "none"
  BY <1>0 DEF Dropped, Req
<1>2. r = [Idle EXCEPT !.op = o, !.at = "done", !.stream = FALSE, !.permit = FALSE, !.child = "none"]
  BY <1>1
<1>3. Goes(c, r)
  BY DEF Ends
<1> HIDE DEF q, r, o
<1>4. /\ r \in Req /\ r.at = "done" /\ r.child = "none" /\ r.permit = FALSE /\ r.stream = FALSE /\ r.tries = 0
      /\ r.served = <<"nothing", 0>>
  BY <1>0, <1>2, IdleTyped DEF Req, ReqAts
<1>5. ReqOK(r, Warm.id)
  <2>1. r.served[1] = "nothing"
    BY <1>4
  <2> QED BY <1>4, <2>1 DEF ReqOK, HoldsOK, FreshOK, ToldOK
<1>6. /\ streams' = streams + Bit(r.stream) - Bit(req[c].stream) /\ free' = free + Bit(req[c].permit) - Bit(r.permit)
      /\ film' = film /\ UNCHANGED <<pace, token, pulled, cache, asked>>
  BY <1>4, Knows DEF Ends, Gives, Bit
<1> QED BY <1>3, <1>4, <1>5, <1>6, RequestMoves, Knows

LEMMA AskKeeps == ASSUME ServeInv, NEW c \in Clients, Ask(c) PROVE ServeInv'
<1>1. PICK q \in Requests[c] :
        Goes(c, [Idle EXCEPT !.op = q.op, !.stable = q.stable, !.since = q.since, !.at = FirstStep(q.op)])
  BY DEF Ask
<1> DEFINE o == q.op
           b == q.stable
           s == q.since
           a == FirstStep(q.op)
           r == [Idle EXCEPT !.op = o, !.stable = b, !.since = s, !.at = a]
<1>2. o \in {"snapshot", "ocr", "preview", "power"} /\ b \in BOOLEAN /\ s \in Sinces
  BY ServeAssumption DEF Sinces
<1>3. a \in {"pull", "count", "spawn"} /\ (a = "pull" => o # "preview")
  BY <1>2 DEF FirstStep
<1>4. Goes(c, r)
  BY <1>1
<1> HIDE DEF o, b, s, a
<1>5. /\ r \in Req /\ r.at = a /\ r.op = o /\ r.permit = FALSE /\ r.stream = FALSE /\ r.tries = 0
      /\ r.served = <<"nothing", 0>> /\ r.need = 0
  BY <1>2, <1>3, IdleTyped DEF Req, ReqAts, ReqOps
<1> HIDE DEF r
<1>6. ReqOK(r, Warm.id)
  <2>1. r.served[1] = "nothing"
    BY <1>5
  <2> QED BY <1>3, <1>5, <2>1, Knows DEF ReqOK, HoldsOK, FreshOK, ToldOK
<1>7. req[c].at \in {"idle", "done"} /\ asked[c] < MaxRequests /\ asked' = [asked EXCEPT ![c] = @ + 1]
      /\ UNCHANGED <<film, pace, token, streams, pulled, free, cache>>
  BY DEF Ask
<1>8. ~req[c].permit /\ ~req[c].stream
  BY <1>7, Knows DEF HoldsOK
<1>9. /\ streams' = streams + Bit(r.stream) - Bit(req[c].stream) /\ free' = free + Bit(req[c].permit) - Bit(r.permit)
  BY <1>5, <1>7, <1>8, Knows DEF Bit
<1>10. asked' \in [Clients -> 0..MaxRequests]
  BY <1>7, Knows, ServeAssumption
<1> QED BY <1>4, <1>5, <1>6, <1>7, <1>9, <1>10, RequestMoves, Knows

\* A step that only moves its request on.
LEMMA StepKeeps ==
  ASSUME ServeInv, NEW c \in Clients, NEW r \in Req, Goes(c, r), ReqOK(r, Warm.id), OnlyReq,
         r.stream = req[c].stream, r.permit = req[c].permit, r.at # "wake", req[c].at # "wake"
  PROVE  ServeInv'
<1>1. /\ streams' = streams + Bit(r.stream) - Bit(req[c].stream) /\ free' = free + Bit(req[c].permit) - Bit(r.permit)
  BY Knows DEF OnlyReq, Bit
<1> QED BY <1>1, Knows, RequestMoves DEF OnlyReq

LEMMA AfterFreshFacts ==
  ASSUME ServeInv, NEW c \in Clients
  PROVE  AfterFresh(c) \in {"take", "count", "poll"}
BY DEF AfterFresh

LEMMA FreshKeeps == ASSUME ServeInv, NEW c \in Clients, FreshFrame(c) PROVE ServeInv'
<1> DEFINE a == AfterFresh(c)
<1>0. /\ a \in {"take", "count", "poll"} /\ req[c] \in Req /\ Warm.id \in 0..MaxFrames /\ MaxFrames \in Nat
      /\ req[c].at = "fresh" /\ OnlyReq /\ ~req[c].permit /\ ~req[c].stream /\ req[c].op # "preview" /\ ToldOK(req[c])
      /\ req[c].seen <= Warm.id /\ req[c].need <= req[c].seen + 1 /\ req[c].seen \in Nat /\ req[c].need \in Nat
  BY Knows, AfterFreshFacts DEF FreshFrame, At, HoldsOK, FreshOK, ToldOK
<1>1. CASE req[c].seen # Warm.id /\ Goes(c, [req[c] EXCEPT !.at = AfterFresh(c), !.seen = Warm.id])
  <2> DEFINE r == [req[c] EXCEPT !.at = a, !.seen = Warm.id]
  <2>1. Goes(c, r)
    BY <1>1
  <2> HIDE DEF a
  <2>2. /\ r \in Req
        /\ r.op = req[c].op /\ r.at = a /\ r.seen = Warm.id /\ r.f = req[c].f /\ r.stream = req[c].stream
        /\ r.permit = req[c].permit /\ r.child = req[c].child /\ r.served = req[c].served
        /\ r.shown = req[c].shown /\ r.tries = req[c].tries /\ r.need = req[c].need
    BY <1>0 DEF Req, ReqAts
  <2> HIDE DEF r
  <2>3. ReqOK(r, Warm.id)
    BY <1>0, <1>1, <2>2 DEF ReqOK, HoldsOK, FreshOK, ToldOK
  <2> QED BY <1>0, <2>1, <2>2, <2>3, StepKeeps
<1>2. CASE Goes(c, [req[c] EXCEPT !.at = AfterFresh(c), !.need = 0])
  <2> DEFINE r == [req[c] EXCEPT !.at = a, !.need = 0]
  <2>1. Goes(c, r)
    BY <1>2
  <2> HIDE DEF a
  <2>2. /\ r \in Req
        /\ r.op = req[c].op /\ r.at = a /\ r.seen = req[c].seen /\ r.f = req[c].f /\ r.stream = req[c].stream
        /\ r.permit = req[c].permit /\ r.child = req[c].child /\ r.served = req[c].served
        /\ r.shown = req[c].shown /\ r.tries = req[c].tries /\ r.need = 0
    BY <1>0, Zeros DEF Req, ReqAts
  <2> HIDE DEF r
  <2>3. ReqOK(r, Warm.id)
    BY <1>0, <2>2 DEF ReqOK, HoldsOK, FreshOK, ToldOK
  <2> QED BY <1>0, <2>1, <2>2, <2>3, StepKeeps
<1> QED BY <1>1, <1>2 DEF FreshFrame

LEMMA PulledKeeps == ASSUME ServeInv, NEW c \in Clients, Pulled(c) PROVE ServeInv'
<1> DEFINE a == IF Warm.old THEN "fresh" ELSE AfterFresh(c)
           n == Warm.id + (IF Warm.old THEN 1 ELSE 0)
           r == [req[c] EXCEPT !.seen = Warm.id, !.at = a, !.need = n]
<1>0. /\ req[c] \in Req /\ Warm.id \in 0..MaxFrames /\ MaxFrames \in Nat
      /\ req[c].at = "pull" /\ ~req[c].permit /\ ~req[c].stream /\ req[c].op # "preview" /\ ToldOK(req[c])
  BY Knows DEF Pulled, At, HoldsOK, ToldOK
<1>1. /\ Unpark /\ pulled' = TRUE /\ UNCHANGED <<film, streams, free, cache, asked>>
      /\ Goes(c, [Look(c) EXCEPT !.need = n])
  BY DEF Pulled
<1>2. Goes(c, r)
  BY <1>1 DEF Look
<1>3. /\ a \in {"fresh", "take", "count", "poll"} /\ n \in 0..(MaxFrames + 1) /\ n <= Warm.id + 1
      /\ (a # "fresh" => n <= Warm.id)
  BY <1>0, AfterFreshFacts
<1> HIDE DEF a, n
<1>4. /\ r \in Req
      /\ r.op = req[c].op /\ r.at = a /\ r.seen = Warm.id /\ r.f = req[c].f /\ r.stream = req[c].stream
      /\ r.permit = req[c].permit /\ r.child = req[c].child /\ r.served = req[c].served
      /\ r.shown = req[c].shown /\ r.tries = req[c].tries /\ r.need = n
  BY <1>0, <1>3 DEF Req, ReqAts
<1> HIDE DEF r
<1>5. ReqOK(r, Warm.id)
  BY <1>0, <1>3, <1>4 DEF ReqOK, HoldsOK, FreshOK, ToldOK
<1>6. streams' = streams + Bit(r.stream) - Bit(req[c].stream) /\ free' = free + Bit(req[c].permit) - Bit(r.permit)
  BY <1>1, <1>4, Knows DEF Bit
<1>7. pulled' \in BOOLEAN /\ cache' \in 0..MaxFrames /\ asked' \in [Clients -> 0..MaxRequests] /\ film' = film
  BY <1>1, Knows
<1>8. ~r.permit
  BY <1>0, <1>4
<1> QED BY <1>1, <1>2, <1>4, <1>5, <1>6, <1>7, <1>8, RequestMoves

LEMMA StreamKeeps == ASSUME ServeInv, NEW c \in Clients, Stream(c) PROVE ServeInv'
<1>0. req[c] \in Req /\ HoldsOK(req[c]) /\ FreshOK(req[c], Warm.id) /\ ToldOK(req[c]) /\ streams \in Nat /\ free \in Nat
  BY Knows
<1>1. CASE /\ At(c, "count") /\ streams' = streams + 1 /\ Goes(c, [req[c] EXCEPT !.stream = TRUE, !.at = "wake"])
           /\ UNCHANGED <<film, pace, token, pulled, free, cache, asked>>
  <2> DEFINE r == [req[c] EXCEPT !.stream = TRUE, !.at = "wake"]
  <2>1. /\ r \in Req
        /\ r.op = req[c].op /\ r.at = "wake" /\ r.seen = req[c].seen /\ r.f = req[c].f /\ r.stream = TRUE
        /\ r.permit = req[c].permit /\ r.child = req[c].child /\ r.served = req[c].served
        /\ r.shown = req[c].shown /\ r.tries = req[c].tries /\ r.need = req[c].need
    BY <1>0 DEF Req, ReqAts
  <2>2. req[c].at = "count" /\ ~req[c].permit /\ ~req[c].stream /\ Goes(c, r)
    BY <1>0, <1>1 DEF At, HoldsOK
  <2> HIDE DEF r
  <2>3. ReqOK(r, Warm.id)
    BY <1>0, <2>1, <2>2 DEF ReqOK, HoldsOK, FreshOK, ToldOK
  <2>4. streams' = streams + Bit(r.stream) - Bit(req[c].stream) /\ free' = free + Bit(req[c].permit) - Bit(r.permit)
    BY <1>0, <1>1, <2>1, <2>2 DEF Bit
  <2>5. pulled' \in BOOLEAN /\ cache' \in 0..MaxFrames /\ asked' \in [Clients -> 0..MaxRequests] /\ film' = film
    BY <1>1, Knows
  <2>6. ~r.permit /\ r.at = "wake"
    BY <2>1, <2>2
  <2> QED BY <1>1, <2>1, <2>2, <2>3, <2>4, <2>5, <2>6, RequestMoves
<1>2. CASE /\ At(c, "wake") /\ Unpark /\ To(c, IF req[c].op = "preview" THEN "tick" ELSE "poll")
           /\ UNCHANGED <<film, streams, pulled, free, cache, asked>>
  <2> DEFINE a == IF req[c].op = "preview" THEN "tick" ELSE "poll"
             r == [req[c] EXCEPT !.at = a]
  <2>0. a \in {"tick", "poll"} /\ (a = "poll" => req[c].op # "preview")
    OBVIOUS
  <2>2. req[c].at = "wake" /\ ~req[c].permit /\ req[c].stream /\ Goes(c, r)
    BY <1>0, <1>2 DEF At, HoldsOK, To
  <2> HIDE DEF a
  <2>1. /\ r \in Req
        /\ r.op = req[c].op /\ r.at = a /\ r.seen = req[c].seen /\ r.f = req[c].f /\ r.stream = req[c].stream
        /\ r.permit = req[c].permit /\ r.child = req[c].child /\ r.served = req[c].served
        /\ r.shown = req[c].shown /\ r.tries = req[c].tries /\ r.need = req[c].need
    BY <1>0, <2>0 DEF Req, ReqAts
  <2> HIDE DEF r
  <2>3. ReqOK(r, Warm.id)
    BY <1>0, <2>0, <2>1, <2>2 DEF ReqOK, HoldsOK, FreshOK, ToldOK
  <2>4. streams' = streams + Bit(r.stream) - Bit(req[c].stream) /\ free' = free + Bit(req[c].permit) - Bit(r.permit)
    BY <1>0, <1>2, <2>1 DEF Bit
  <2>5. pulled' \in BOOLEAN /\ cache' \in 0..MaxFrames /\ asked' \in [Clients -> 0..MaxRequests] /\ film' = film
    BY <1>2, Knows
  <2>6. ~r.permit
    BY <2>1, <2>2
  <2> QED BY <1>2, <2>1, <2>2, <2>3, <2>4, <2>5, <2>6, RequestMoves
<1> QED BY <1>1, <1>2 DEF Stream

LEMMA SnapshotKeeps == ASSUME ServeInv, NEW c \in Clients, Snapshot(c) PROVE ServeInv'
<1>0. /\ req[c] \in Req /\ HoldsOK(req[c]) /\ FreshOK(req[c], Warm.id) /\ ToldOK(req[c]) /\ Warm.id \in 0..MaxFrames
      /\ req[c].at \in {"poll", "wait"} /\ OnlyReq
  BY Knows DEF Snapshot, At
<1>1. ASSUME NEW a \in {"take", "wait", "poll"}, Goes(c, [req[c] EXCEPT !.seen = Warm.id, !.at = a])
      PROVE  ServeInv'
  <2> DEFINE r == [req[c] EXCEPT !.seen = Warm.id, !.at = a]
  <2>1. /\ r \in Req
        /\ r.op = req[c].op /\ r.at = a /\ r.seen = Warm.id /\ r.f = req[c].f /\ r.stream = req[c].stream
        /\ r.permit = req[c].permit /\ r.child = req[c].child /\ r.served = req[c].served
        /\ r.shown = req[c].shown /\ r.tries = req[c].tries /\ r.need = req[c].need
    BY <1>0 DEF Req, ReqAts
  <2>2. Goes(c, r)
    BY <1>1
  <2> HIDE DEF r
  <2>3. ReqOK(r, Warm.id)
    BY <1>0, <2>1 DEF ReqOK, HoldsOK, FreshOK, ToldOK
  <2> QED BY <1>0, <2>1, <2>2, <2>3, StepKeeps
<1>2. CASE Goes(c, [req[c] EXCEPT !.at = "take", !.late = TRUE])
  <2> DEFINE r == [req[c] EXCEPT !.at = "take", !.late = TRUE]
  <2>1. /\ r \in Req
        /\ r.op = req[c].op /\ r.at = "take" /\ r.seen = req[c].seen /\ r.f = req[c].f
        /\ r.stream = req[c].stream /\ r.permit = req[c].permit /\ r.child = req[c].child
        /\ r.served = req[c].served /\ r.shown = req[c].shown /\ r.tries = req[c].tries
        /\ r.need = req[c].need
    BY <1>0 DEF Req, ReqAts
  <2>2. Goes(c, r)
    BY <1>2
  <2> HIDE DEF r
  <2>3. ReqOK(r, Warm.id)
    BY <1>0, <2>1 DEF ReqOK, HoldsOK, FreshOK, ToldOK
  <2> QED BY <1>0, <2>1, <2>2, <2>3, StepKeeps
<1>3. CASE Goes(c, [req[c] EXCEPT !.seen = Warm.id,
                     !.at = IF SnapshotReady(Warm, req[c].stable, req[c].since) THEN "take" ELSE "wait"])
  <2> DEFINE a == IF SnapshotReady(Warm, req[c].stable, req[c].since) THEN "take" ELSE "wait"
  <2>1. a \in {"take", "wait", "poll"} /\ Goes(c, [req[c] EXCEPT !.seen = Warm.id, !.at = a])
    BY <1>3
  <2> HIDE DEF a
  <2> QED BY <1>1, <2>1
<1>4. CASE Goes(c, [req[c] EXCEPT !.at = "poll", !.seen = Warm.id])
  <2>1. [req[c] EXCEPT !.at = "poll", !.seen = Warm.id] = [req[c] EXCEPT !.seen = Warm.id, !.at = "poll"]
    BY <1>0 DEF Req
  <2> QED BY <1>1, <1>4, <2>1
<1> QED BY <1>2, <1>3, <1>4 DEF Snapshot

LEMMA TakeKeeps == ASSUME ServeInv, NEW c \in Clients, Take(c) PROVE ServeInv'
<1>0. /\ req[c] \in Req /\ HoldsOK(req[c]) /\ FreshOK(req[c], Warm.id) /\ ToldOK(req[c]) /\ Warm \in Frame
      /\ req[c].at = "take" /\ MaxFrames \in Nat
  BY Knows DEF Take, At
<1>1. CASE Ends(c)
  BY <1>1, EndsKeeps
<1>2. CASE Goes(c, [req[c] EXCEPT !.f = Warm, !.seen = 0, !.at = "permit"]) /\ OnlyReq
  <2> DEFINE w == Warm
             r == [req[c] EXCEPT !.f = w, !.seen = 0, !.at = "permit"]
  <2>2. Goes(c, r) /\ w \in Frame /\ req[c].need <= w.id
    BY <1>0, <1>2 DEF FreshOK
  <2> HIDE DEF w
  <2>1. /\ r \in Req
        /\ r.op = req[c].op /\ r.at = "permit" /\ r.seen = 0 /\ r.f = w /\ r.stream = req[c].stream
        /\ r.permit = req[c].permit /\ r.child = req[c].child /\ r.served = req[c].served
        /\ r.shown = req[c].shown /\ r.tries = req[c].tries /\ r.need = req[c].need
    BY <1>0, <2>2, Zeros DEF Req, ReqAts
  <2> HIDE DEF r
  <2>3. ReqOK(r, Warm.id)
    BY <1>0, <2>1, <2>2 DEF ReqOK, HoldsOK, FreshOK, ToldOK
  <2> QED BY <1>0, <1>2, <2>1, <2>2, <2>3, StepKeeps
<1> QED BY <1>1, <1>2 DEF Take

LEMMA AcquireKeeps == ASSUME ServeInv, NEW c \in Clients, Acquire(c) PROVE ServeInv'
<1> DEFINE a == IF req[c].op = "preview" THEN "jpeg" ELSE IF req[c].child = "next" THEN "spawn" ELSE "png"
           r == [req[c] EXCEPT !.permit = TRUE, !.need = 0, !.late = FALSE, !.at = a]
<1>0. /\ req[c] \in Req /\ HoldsOK(req[c]) /\ ToldOK(req[c]) /\ free \in Nat /\ streams \in Nat
      /\ req[c].at = "permit" /\ ~req[c].permit /\ MaxFrames \in Nat
  BY Knows DEF Acquire, At, HoldsOK
<1>1. free > 0 /\ free' = free - 1 /\ Goes(c, r) /\ UNCHANGED <<film, pace, token, streams, pulled, cache, asked>>
  BY DEF Acquire
<1>2. /\ a \in {"jpeg", "spawn", "png"} /\ (a = "jpeg" => req[c].op = "preview") /\ (a = "png" => req[c].op # "preview")
  OBVIOUS
<1> HIDE DEF a
<1>3. /\ r \in Req
      /\ r.op = req[c].op /\ r.at = a /\ r.seen = req[c].seen /\ r.f = req[c].f /\ r.stream = req[c].stream
      /\ r.permit = TRUE /\ r.child = req[c].child /\ r.served = req[c].served /\ r.shown = req[c].shown
      /\ r.tries = req[c].tries /\ r.need = 0
  BY <1>0, <1>2, Zeros DEF Req, ReqAts
<1> HIDE DEF r
<1>4. ReqOK(r, Warm.id)
  BY <1>0, <1>2, <1>3 DEF ReqOK, HoldsOK, FreshOK, ToldOK
<1>5. streams' = streams + Bit(r.stream) - Bit(req[c].stream) /\ free' = free + Bit(req[c].permit) - Bit(r.permit)
  BY <1>0, <1>1, <1>3 DEF Bit
<1>6. pulled' \in BOOLEAN /\ cache' \in 0..MaxFrames /\ asked' \in [Clients -> 0..MaxRequests] /\ film' = film
  BY <1>1, Knows
<1>7. r.stream /\ r.at # "wake" => req[c].stream /\ req[c].at # "wake"
  BY <1>0, <1>3
<1> QED BY <1>1, <1>3, <1>4, <1>5, <1>6, <1>7, RequestMoves

LEMMA PngKeeps == ASSUME ServeInv, NEW c \in Clients, EncodePng(c) PROVE ServeInv'
<1>0. /\ req[c] \in Req /\ HoldsOK(req[c]) /\ FreshOK(req[c], Warm.id) /\ ToldOK(req[c]) /\ free \in Nat /\ streams \in Nat
      /\ req[c].at = "png" /\ req[c].permit /\ req[c].f.id \in Nat
  BY Knows DEF EncodePng, At, HoldsOK, Frame
<1>1. CASE Ends(c)
  BY <1>1, EndsKeeps
<1>2. CASE /\ free' = free + 1 /\ Goes(c, [req[c] EXCEPT !.permit = FALSE, !.child = "next", !.at = "permit"])
           /\ UNCHANGED <<film, pace, token, streams, pulled, cache, asked>>
  <2> DEFINE r == [req[c] EXCEPT !.permit = FALSE, !.child = "next", !.at = "permit"]
  <2>1. /\ r \in Req
        /\ r.op = req[c].op /\ r.at = "permit" /\ r.seen = req[c].seen /\ r.f = req[c].f
        /\ r.stream = req[c].stream /\ r.permit = FALSE /\ r.child = "next" /\ r.served = req[c].served
        /\ r.shown = req[c].shown /\ r.tries = req[c].tries /\ r.need = req[c].need
    BY <1>0 DEF Req, ReqAts
  <2>2. Goes(c, r)
    BY <1>2
  <2> HIDE DEF r
  <2>3. ReqOK(r, Warm.id)
    BY <1>0, <2>1 DEF ReqOK, HoldsOK, FreshOK, ToldOK
  <2>4. streams' = streams + Bit(r.stream) - Bit(req[c].stream) /\ free' = free + Bit(req[c].permit) - Bit(r.permit)
    BY <1>0, <1>2, <2>1 DEF Bit
  <2>5. pulled' \in BOOLEAN /\ cache' \in 0..MaxFrames /\ asked' \in [Clients -> 0..MaxRequests] /\ film' = film
    BY <1>2, Knows
  <2>6. (r.stream /\ r.at # "wake" => req[c].stream /\ req[c].at # "wake") /\ ~r.permit
    BY <1>0, <2>1
  <2> QED BY <1>2, <2>1, <2>2, <2>3, <2>4, <2>5, <2>6, RequestMoves
<1> QED BY <1>1, <1>2 DEF EncodePng

LEMMA SpawnKeeps == ASSUME ServeInv, NEW c \in Clients, Spawn(c) PROVE ServeInv'
<1>0. req[c] \in Req /\ ToldOK(req[c]) /\ req[c].at = "spawn"
  BY Knows DEF Spawn, At
<1>1. CASE Ends(c)
  BY <1>1, EndsKeeps
<1>2. ASSUME NEW k \in {"works", "wedged"}, Goes(c, [req[c] EXCEPT !.child = k, !.at = "child"]), OnlyReq
      PROVE  ServeInv'
  <2> DEFINE r == [req[c] EXCEPT !.child = k, !.at = "child"]
  <2>1. /\ r \in Req
        /\ r.op = req[c].op /\ r.at = "child" /\ r.seen = req[c].seen /\ r.f = req[c].f
        /\ r.stream = req[c].stream /\ r.permit = req[c].permit /\ r.child = k /\ r.served = req[c].served
        /\ r.shown = req[c].shown /\ r.tries = req[c].tries /\ r.need = req[c].need
    BY <1>0 DEF Req, ReqAts
  <2>2. Goes(c, r)
    BY <1>2
  <2> HIDE DEF r
  <2>3. ReqOK(r, Warm.id)
    BY <1>0, <2>1 DEF ReqOK, HoldsOK, FreshOK, ToldOK
  <2> QED BY <1>0, <1>2, <2>1, <2>2, <2>3, StepKeeps
<1> QED BY <1>1, <1>2 DEF Spawn

LEMMA ServedFirst == ASSUME NEW x, NEW y PROVE <<x, y>>[1] = x
OBVIOUS

\* What a viewer was sent last, and what it shows.
LEMMA SendsFacts ==
  ASSUME NEW q \in Req, NEW what \in Tellings, NEW id \in 0..MaxFrames, ToldOK(q), what # "nothing",
         what = "failed" => q.served # <<what, id>>
  PROVE  LET r == Sends(q, what, id)
         IN  /\ r \in Req /\ ToldOK(r) /\ r.at = "tick" /\ r.op = q.op /\ r.stream = q.stream /\ r.permit = q.permit
             /\ r.child = q.child /\ r.need = q.need
<1> DEFINE v == <<what, id>>
           s == IF what = "failed" THEN q.shown ELSE what
           n == IF what # "failed" THEN 0 ELSE IF q.served = <<what, id>> THEN q.tries + 1 ELSE 1
           r == [q EXCEPT !.served = v, !.shown = s, !.at = "tick", !.f = NoFrame, !.tries = n]
<1>1. Sends(q, what, id) = r
  <2>1. Sends(q, what, id) = [q EXCEPT !.served = v, !.shown = IF what = "failed" THEN q.shown ELSE what, !.at = "tick",
                               !.f = NoFrame,
                               !.tries = IF what # "failed" THEN 0 ELSE IF q.served = <<what, id>> THEN q.tries + 1 ELSE 1]
    BY DEF Sends
  <2> QED BY <2>1
<1>2. /\ v \in Tellings \X (0..MaxFrames) /\ v[1] = what /\ s \in Tellings /\ n \in Nat /\ n <= 1
      /\ (what # "failed" => s = what)
  BY DEF Req
<1> HIDE DEF v, s, n
<1>3. /\ r \in Req /\ r.op = q.op /\ r.at = "tick" /\ r.stream = q.stream /\ r.permit = q.permit /\ r.child = q.child
      /\ r.need = q.need /\ r.served = v /\ r.shown = s /\ r.tries = n
  <2> DEFINE y == [q EXCEPT !.served = v, !.shown = s]
  <2>1. /\ y \in Req /\ y.op = q.op /\ y.stream = q.stream /\ y.permit = q.permit /\ y.child = q.child
        /\ y.need = q.need /\ y.served = v /\ y.shown = s
    BY <1>2 DEF Req
  <2>2. r = [y EXCEPT !.at = "tick", !.f = NoFrame, !.tries = n]
    OBVIOUS
  <2> HIDE DEF y, r
  <2>3. r \in Req
    <3> DEFINE x == [y EXCEPT !.at = "tick"]
               z == [x EXCEPT !.f = NoFrame]
    <3>0. x \in Req
      BY <2>1 DEF Req, ReqAts
    <3> HIDE DEF x
    <3>1. z \in Req
      BY <3>0, NoFrameTyped DEF Req
    <3>2. r = [z EXCEPT !.tries = n]
      BY <2>2 DEF x
    <3> HIDE DEF z
    <3> QED BY <1>2, <3>1, <3>2 DEF Req
  <2>4. /\ r.op = y.op /\ r.at = "tick" /\ r.stream = y.stream /\ r.permit = y.permit /\ r.child = y.child
        /\ r.need = y.need /\ r.served = y.served /\ r.shown = y.shown /\ r.tries = n
    BY <2>1, <2>2 DEF Req
  <2> QED BY <2>1, <2>3, <2>4
<1> HIDE DEF r
<1>4. ToldOK(r)
  BY <1>2, <1>3 DEF ToldOK
<1> QED BY <1>1, <1>3, <1>4

LEMMA EffectiveFacts ==
  ASSUME NEW f \in Frame
  PROVE  Effective(f) \in Sigs \cup {"stale"}
BY DEF Effective, Frame

LEMMA TickKeeps == ASSUME ServeInv, NEW c \in Clients, PreviewTick(c) PROVE ServeInv'
<1>0. /\ req[c] \in Req /\ HoldsOK(req[c]) /\ FreshOK(req[c], Warm.id) /\ ToldOK(req[c]) /\ Warm \in Frame
      /\ Warm.id \in 0..MaxFrames /\ MaxFrames \in Nat /\ req[c].at = "tick" /\ OnlyReq /\ ~req[c].permit
      /\ req[c].need <= Warm.id
  BY Knows DEF PreviewTick, At, HoldsOK, FreshOK
<1>1. ASSUME NEW what \in Tellings, what # "nothing", what # "failed", NEW id \in 0..MaxFrames,
             Goes(c, Sends(req[c], what, id))
      PROVE  ServeInv'
  <2> DEFINE r == Sends(req[c], what, id)
  <2>1. /\ r \in Req /\ ToldOK(r) /\ r.at = "tick" /\ r.op = req[c].op /\ r.stream = req[c].stream
        /\ r.permit = req[c].permit /\ r.child = req[c].child /\ r.need = req[c].need
    BY <1>0, <1>1, SendsFacts
  <2>2. Goes(c, r)
    BY <1>1
  <2> HIDE DEF r
  <2>3. ReqOK(r, Warm.id)
    BY <1>0, <2>1 DEF ReqOK, HoldsOK, FreshOK
  <2> QED BY <1>0, <2>1, <2>2, <2>3, StepKeeps
<1>2. CASE Goes(c, Sends(req[c], "frame", Warm.id))
  <2>1. "frame" \in Tellings /\ "frame" # "nothing" /\ "frame" # "failed"
    BY DEF Tellings
  <2> QED BY <1>0, <1>1, <1>2, <2>1
<1>3. CASE ShouldAttemptLive(req[c], Warm) /\ Goes(c, [req[c] EXCEPT !.f = Warm, !.at = "permit"])
  <2> DEFINE w == Warm
             r == [req[c] EXCEPT !.f = w, !.at = "permit"]
  <2>0. Goes(c, r) /\ w \in Frame /\ req[c].need <= w.id /\ req[c].served # <<"failed", w.id>>
    BY <1>0, <1>3 DEF ShouldAttemptLive
  <2> HIDE DEF w
  <2>1. /\ r \in Req
        /\ r.op = req[c].op /\ r.at = "permit" /\ r.seen = req[c].seen /\ r.f = w /\ r.stream = req[c].stream
        /\ r.permit = req[c].permit /\ r.child = req[c].child /\ r.served = req[c].served
        /\ r.shown = req[c].shown /\ r.tries = req[c].tries /\ r.need = req[c].need
    BY <1>0, <2>0 DEF Req, ReqAts
  <2> HIDE DEF r
  <2>3. ReqOK(r, Warm.id)
    BY <1>0, <2>0, <2>1 DEF ReqOK, HoldsOK, FreshOK, ToldOK
  <2> QED BY <1>0, <2>0, <2>1, <2>3, StepKeeps
<1>4. CASE Goes(c, Sends(req[c], Effective(Warm), 0))
  <2>1. Effective(Warm) \in Sigs \cup {"stale"}
    BY <1>0, EffectiveFacts
  <2>2. Effective(Warm) \in Tellings /\ Effective(Warm) # "nothing" /\ Effective(Warm) # "failed" /\ 0 \in 0..MaxFrames
    BY <1>0, <2>1 DEF Tellings, Sigs
  <2> QED BY <1>1, <1>4, <2>2
<1>5. \/ ShouldAttemptLive(req[c], Warm) /\ Warm.form = "jpeg" /\ Goes(c, Sends(req[c], "frame", Warm.id))
      \/ ShouldAttemptLive(req[c], Warm) /\ Goes(c, [req[c] EXCEPT !.f = Warm, !.at = "permit"])
      \/ Goes(c, Sends(req[c], Effective(Warm), 0))
  <2>1. CASE Warm.form = "jpeg"
    BY <2>1 DEF PreviewTick
  <2>2. CASE Warm.form # "jpeg"
    BY <2>2 DEF PreviewTick
  <2> QED BY <2>1, <2>2
<1> QED BY <1>2, <1>3, <1>4, <1>5

LEMMA JpegKeeps == ASSUME ServeInv, NEW c \in Clients, EncodePreview(c) PROVE ServeInv'
<1> DEFINE q == [req[c] EXCEPT !.permit = FALSE]
<1>0. /\ req[c] \in Req /\ HoldsOK(req[c]) /\ FreshOK(req[c], Warm.id) /\ ToldOK(req[c]) /\ MaxFrames \in Nat
      /\ req[c].at = "jpeg" /\ req[c].permit /\ req[c].need = 0 /\ req[c].served # <<"failed", req[c].f.id>>
      /\ req[c].f \in Frame /\ Warm.id \in 0..MaxFrames /\ free \in Nat /\ streams \in Nat
  BY Knows DEF EncodePreview, At, HoldsOK, FreshOK, ToldOK
<1>1. /\ q \in Req /\ q.op = req[c].op /\ q.at = req[c].at /\ q.f = req[c].f /\ q.stream = req[c].stream
      /\ q.permit = FALSE /\ q.child = req[c].child /\ q.served = req[c].served /\ q.shown = req[c].shown
      /\ q.tries = req[c].tries /\ q.need = req[c].need
  BY <1>0 DEF Req
<1>2. /\ free' = free + 1 /\ UNCHANGED <<film, pace, token, streams, pulled, asked>>
      /\ \E what \in {"frame", "failed"} : Goes(c, Sends(q, what, q.f.id)) /\ cache' \in {cache, q.f.id}
  <2>1. CASE cache = q.f.id
    BY <2>1 DEF EncodePreview
  <2>2. CASE cache # q.f.id /\ q.f.form = "bad"
    BY <2>2 DEF EncodePreview
  <2>3. CASE cache # q.f.id /\ q.f.form # "bad"
    BY <2>3 DEF EncodePreview
  <2> QED BY <2>1, <2>2, <2>3
<1> HIDE DEF q
<1>3. q.f.id \in 0..MaxFrames /\ ToldOK(q) /\ q.served # <<"failed", q.f.id>>
  <2>1. q.f.id \in 0..MaxFrames /\ q.served # <<"failed", q.f.id>>
    BY <1>0, <1>1 DEF Frame
  <2> QED BY <1>0, <1>1, <2>1 DEF ToldOK
<1>4. PICK what \in {"frame", "failed"} : Goes(c, Sends(q, what, q.f.id)) /\ cache' \in {cache, q.f.id}
  BY <1>2
<1> DEFINE r == Sends(q, what, q.f.id)
<1>5. /\ r \in Req /\ ToldOK(r) /\ r.at = "tick" /\ r.op = q.op /\ r.stream = q.stream /\ r.permit = q.permit
      /\ r.child = q.child /\ r.need = q.need
  <2>1. what \in Tellings /\ what # "nothing" /\ (what = "failed" => q.served # <<what, q.f.id>>)
    BY <1>3, <1>4 DEF Tellings
  <2> QED BY <1>1, <1>3, <2>1, SendsFacts
<1>6. Goes(c, r) /\ cache' \in 0..MaxFrames
  BY <1>3, <1>4, Knows
<1> HIDE DEF r
<1>7. ReqOK(r, Warm.id)
  BY <1>0, <1>1, <1>5 DEF ReqOK, HoldsOK, FreshOK
<1>8. streams' = streams + Bit(r.stream) - Bit(req[c].stream) /\ free' = free + Bit(req[c].permit) - Bit(r.permit)
  BY <1>0, <1>1, <1>2, <1>5 DEF Bit
<1>9. pulled' \in BOOLEAN /\ asked' \in [Clients -> 0..MaxRequests] /\ film' = film
  BY <1>2, Knows
<1>10. (r.stream /\ r.at # "wake" => req[c].stream /\ req[c].at # "wake") /\ ~r.permit
  BY <1>0, <1>1, <1>5
<1> QED BY <1>2, <1>5, <1>6, <1>7, <1>8, <1>9, <1>10, RequestMoves

-----------------------------------------------------------------------------
\* The capture thread and time.
LEMMA FilmMoves ==
  ASSUME ServeInv, film' \in [warm : Frame, alive : BOOLEAN], film'.warm.id >= Warm.id, pulled' \in BOOLEAN,
         pace' \in {"capturing", "check", "park", "asleep"}, token' \in BOOLEAN,
         UNCHANGED <<streams, free, cache, req, asked>>, SleepInv'
  PROVE  ServeInv'
<1>1. ServeTypes /\ CountInv /\ Warm.id \in 0..MaxFrames /\ film'.warm.id \in 0..MaxFrames /\ MaxFrames \in Nat
  BY FilmTyped DEF ServeInv, Frame
<1>2. ServeTypes'
  BY <1>1 DEF ServeTypes
<1>3. CountInv'
  BY <1>1 DEF CountInv, Permitted, Streaming
<1>4. ASSUME NEW c \in Clients PROVE ReqOK(req[c], film'.warm.id)
  <2>1. req[c] \in Req /\ ReqOK(req[c], Warm.id)
    BY <1>1 DEF ServeInv, ServeTypes
  <2> QED BY <1>1, <2>1, LaterFrame
<1> QED BY <1>2, <1>3, <1>4 DEF ServeInv, Warm

LEMMA PublishKeeps == ASSUME ServeInv, Publish PROVE ServeInv'
<1>1. /\ film \in [warm : Frame, alive : BOOLEAN] /\ Warm \in Frame /\ Warm.id \in 0..MaxFrames /\ MaxFrames \in Nat
      /\ Warm.id < MaxFrames /\ token \in BOOLEAN /\ pulled \in BOOLEAN
  BY FilmTyped DEF ServeInv, ServeTypes, Publish
<1>2. PICK s \in Shots :
        film' = [film EXCEPT !.warm = [id |-> Warm.id + 1, sig |-> s.sig, hash |-> s.hash, form |-> s.form,
                                       old |-> FALSE, stale |-> FALSE]]
  BY DEF Publish
<1> DEFINE n == Warm.id + 1
           h == s.hash
           g == s.sig
           m == s.form
           w == [id |-> n, sig |-> g, hash |-> h, form |-> m, old |-> FALSE, stale |-> FALSE]
<1>3. n \in 0..MaxFrames /\ g \in Sigs /\ m \in {"jpeg", "pixels", "bad"} /\ h \in {0} \cup {x.hash : x \in Shots} /\ n > Warm.id
  BY <1>1, ServeAssumption DEF Sigs
<1>4. film' = [film EXCEPT !.warm = w]
  BY <1>2
<1> HIDE DEF n, h, g, m
<1>5. w \in Frame /\ w.id = n
  BY <1>3 DEF Frame
<1> HIDE DEF w
<1>6. film' \in [warm : Frame, alive : BOOLEAN] /\ film'.warm = w
  BY <1>1, <1>4, <1>5
<1>7. film'.warm.id >= Warm.id
  BY <1>1, <1>3, <1>5, <1>6
<1>8. pace' = "check" /\ UNCHANGED <<token, streams, pulled, free, cache, req, asked>>
  BY DEF Publish
<1>9. SleepInv'
  BY <1>8 DEF SleepInv, Sleepy
<1> QED BY <1>1, <1>6, <1>7, <1>8, <1>9, FilmMoves

LEMMA PacesKeeps == ASSUME ServeInv, Paces PROVE ServeInv'
<1>1. /\ ServeTypes /\ CountInv /\ SleepInv /\ film \in [warm : Frame, alive : BOOLEAN] /\ token \in BOOLEAN
      /\ pulled \in BOOLEAN /\ Warm.id \in 0..MaxFrames /\ MaxFrames \in Nat /\ film.alive
  BY FilmTyped DEF ServeInv, ServeTypes, Paces
<1>2. UNCHANGED <<film, streams, pulled, free, cache, req, asked>>
  BY DEF Paces
<1>3. pace' \in {"capturing", "check", "park", "asleep"} /\ token' \in BOOLEAN
  BY <1>1 DEF Paces
<1>4. SleepInv'
  <2>1. CASE pace = "check"
    <3>1. CASE FullRate
      <4>1. pace' = "capturing"
        BY <2>1, <3>1 DEF Paces
      <4> QED BY <4>1 DEF SleepInv, Sleepy
    <3>2. CASE ~FullRate
      <4>1. Streaming \subseteq Clients /\ IsFiniteSet(Clients)
        BY ServeAssumption DEF Streaming
      <4>2. IsFiniteSet(Streaming) /\ streams = Cardinality(Streaming) /\ streams \in Nat /\ ~(streams > 0)
        BY <1>1, <3>2, <4>1, FS_Subset DEF CountInv, FullRate, ServeTypes
      <4>3. Streaming = {}
        BY <4>2, FS_EmptySet
      <4>4. \A c \in Clients : ~req[c].stream
        BY <4>3 DEF Streaming
      <4> QED BY <1>2, <4>4 DEF SleepInv
    <3> QED BY <3>1, <3>2
  <2>2. CASE pace = "park" /\ token
    <3>1. pace' = "check"
      BY <2>2 DEF Paces
    <3> QED BY <3>1 DEF SleepInv, Sleepy
  <2>3. CASE pace = "park" /\ ~token
    <3>1. Sleepy
      BY <1>1, <2>3 DEF Sleepy
    <3> QED BY <1>1, <1>2, <3>1 DEF SleepInv
  <2>4. CASE pace = "asleep"
    <3>1. pace' = "capturing"
      BY <2>4 DEF Paces
    <3> QED BY <3>1 DEF SleepInv, Sleepy
  <2> QED BY <2>1, <2>2, <2>3, <2>4 DEF Paces
<1>5. film'.warm.id >= Warm.id
  BY <1>1, <1>2 DEF Warm
<1> QED BY <1>1, <1>2, <1>3, <1>4, <1>5, FilmMoves

LEMMA AgesKeeps == ASSUME ServeInv, Ages PROVE ServeInv'
<1>1. /\ SleepInv /\ film \in [warm : Frame, alive : BOOLEAN] /\ token \in BOOLEAN
      /\ pulled \in BOOLEAN /\ Warm \in Frame /\ Warm.id \in 0..MaxFrames /\ MaxFrames \in Nat
      /\ pace \in {"capturing", "check", "park", "asleep"}
  BY FilmTyped DEF ServeInv, ServeTypes
<1>2. UNCHANGED <<pace, token, streams, free, cache, req, asked>>
  BY DEF Ages
<1>3. film' \in [warm : Frame, alive : BOOLEAN] /\ film'.warm.id = Warm.id /\ (film'.alive => film.alive) /\ pulled' \in BOOLEAN
  <2>1. CASE film' = [film EXCEPT !.warm.old = TRUE] /\ UNCHANGED pulled
    <3> DEFINE w == [film.warm EXCEPT !.old = TRUE]
    <3>1. w \in Frame /\ w.id = Warm.id /\ film' = [film EXCEPT !.warm = w]
      BY <1>1, <2>1 DEF Frame, Warm
    <3> HIDE DEF w
    <3> QED BY <1>1, <2>1, <3>1
  <2>2. CASE film' = [film EXCEPT !.warm.stale = TRUE] /\ UNCHANGED pulled
    <3> DEFINE w == [film.warm EXCEPT !.stale = TRUE]
    <3>1. w \in Frame /\ w.id = Warm.id /\ film' = [film EXCEPT !.warm = w]
      BY <1>1, <2>2 DEF Frame, Warm
    <3> HIDE DEF w
    <3> QED BY <1>1, <2>2, <3>1
  <2>3. CASE pulled' = FALSE /\ UNCHANGED film
    BY <1>1, <2>3 DEF Warm
  <2>4. CASE film' = [film EXCEPT !.alive = FALSE] /\ UNCHANGED pulled
    BY <1>1, <2>4 DEF Warm
  <2> QED BY <2>1, <2>2, <2>3, <2>4 DEF Ages
<1>4. SleepInv'
  BY <1>1, <1>2, <1>3 DEF SleepInv, Sleepy
<1>5. film'.warm.id >= Warm.id
  BY <1>1, <1>3
<1> QED BY <1>1, <1>2, <1>3, <1>4, <1>5, FilmMoves

LEMMA ServeInitInv == ServeInit => ServeInv
<1> SUFFICES ASSUME ServeInit PROVE ServeInv
  OBVIOUS
<1>1. /\ film = [warm |-> NoFrame, alive |-> TRUE] /\ pace = "capturing" /\ token = FALSE /\ streams = 0 /\ pulled = FALSE
      /\ free = Permits /\ cache = 0 /\ req = [c \in Clients |-> Idle] /\ asked = [c \in Clients |-> 0]
  BY DEF ServeInit
<1>2. film \in [warm : Frame, alive : BOOLEAN] /\ Warm = NoFrame /\ Warm.id = 0 /\ 0 \in 0..MaxFrames
  BY <1>1, NoFrameTyped, ServeAssumption DEF Warm
<1>3. req \in [Clients -> Req] /\ \A c \in Clients : req[c] = Idle
  BY <1>1, IdleTyped
<1>4. ServeTypes
  <2>1. asked \in [Clients -> 0..MaxRequests] /\ cache \in 0..MaxFrames /\ free \in Nat /\ streams \in Nat
    BY <1>1, Zeros
  <2> QED BY <1>1, <1>2, <1>3, <2>1 DEF ServeTypes
<1>5. Permitted = {} /\ Streaming = {}
  BY <1>3, IdleTyped DEF Permitted, Streaming
<1>6. CountInv
  BY <1>1, <1>5, FS_EmptySet, ServeAssumption DEF CountInv
<1>7. SleepInv
  BY <1>1 DEF SleepInv, Sleepy
<1> QED BY <1>2, <1>3, <1>4, <1>6, <1>7, IdleOK DEF ServeInv

\* At every step a request holds what its step needs and no more, the counters agree, and no
\* wake-up is lost.
THEOREM ServeInvariant == ServeSpec => []ServeInv
<1>1. ASSUME ServeInv, [ServeNext]_serveVars PROVE ServeInv'
  <2>1. ASSUME NEW c \in Clients, Ask(c) \/ Disconnect(c) \/ Serves(c) PROVE ServeInv'
    <3>1. CASE Ask(c)
      BY <1>1, <3>1, AskKeeps
    <3>2. CASE Ends(c)
      BY <1>1, <3>2, EndsKeeps
    <3>3. CASE Serves(c)
      BY <1>1, <3>3, <3>2, PulledKeeps, FreshKeeps, StreamKeeps, SnapshotKeeps, TakeKeeps, AcquireKeeps, PngKeeps,
         SpawnKeeps, TickKeeps, JpegKeeps DEF Serves, SnapshotGone, WaitWithTimeout
    <3> QED BY <2>1, <3>1, <3>2, <3>3 DEF Disconnect
  <2>2. CASE UNCHANGED serveVars
    <3>1. UNCHANGED <<film, pace, token, streams, pulled, free, cache, req, asked>>
      BY <2>2 DEF serveVars
    <3>2. SleepInv /\ film \in [warm : Frame, alive : BOOLEAN] /\ token \in BOOLEAN
          /\ pulled \in BOOLEAN /\ Warm.id \in 0..MaxFrames /\ MaxFrames \in Nat
          /\ pace \in {"capturing", "check", "park", "asleep"}
      BY <1>1, FilmTyped DEF ServeInv, ServeTypes
    <3>3. SleepInv' /\ film'.warm.id >= Warm.id
      BY <3>1, <3>2 DEF SleepInv, Sleepy, Warm
    <3> QED BY <1>1, <3>1, <3>2, <3>3, FilmMoves
  <2> QED BY <1>1, <2>1, <2>2, PublishKeeps, PacesKeeps, AgesKeeps DEF ServeNext
<1> QED BY <1>1, ServeInitInv, PTL DEF ServeSpec

\* However requests, streams and drops interleave with the capture thread, no wake-up is lost,
\* no pull gets a stale frame, and nothing stays behind (hdmicap server.rs).
THEOREM RequestsAlwaysKept == ServeSpec => []RequestsAreKept
<1>1. ServeInv => RequestsAreKept
  <2> SUFFICES ASSUME ServeInv PROVE RequestsAreKept
    OBVIOUS
  <2>0. ServeTypes /\ CountInv /\ SleepInv /\ IsFiniteSet(Clients) /\ Permits \in Nat
    BY ServeAssumption DEF ServeInv
  <2>1. ServeTypeOK
    <3>1. Permitted \subseteq Clients /\ Streaming \subseteq Clients
      BY DEF Permitted, Streaming
    <3>2. IsFiniteSet(Permitted) /\ IsFiniteSet(Streaming) /\ Cardinality(Streaming) <= Cardinality(Clients)
      BY <2>0, <3>1, FS_Subset
    <3>3. Cardinality(Permitted) \in Nat /\ Cardinality(Streaming) \in Nat /\ Cardinality(Clients) \in Nat
      BY <2>0, <3>2, FS_CardinalityType
    <3>4. streams \in 0..Cardinality(Clients) /\ free \in 0..Permits
      BY <2>0, <3>2, <3>3 DEF CountInv, ServeTypes
    <3> QED BY <2>0, <3>4 DEF ServeTypeOK, ServeTypes
  <2>2. WatchedLoopIsAwake
    BY <2>0 DEF WatchedLoopIsAwake, SleepInv, Sleepy
  <2>3. PullIsFresh
    <3> SUFFICES ASSUME NEW c \in Clients, At(c, "permit") PROVE req[c].f.id >= req[c].need
      BY DEF PullIsFresh
    <3>1. req[c].need <= req[c].f.id /\ req[c].need \in Int /\ req[c].f.id \in Int
      BY Knows DEF FreshOK, At, Frame
    <3> QED BY <3>1
  <2>4. NothingLeftBehind
    <3>1. \A c \in Clients : req[c].at = "done" => req[c].child = "none" /\ ~req[c].permit /\ ~req[c].stream
      BY Knows DEF HoldsOK
    <3> QED BY <2>0, <3>1 DEF NothingLeftBehind, CountInv, Permitted, Streaming
  <2>5. DoomedFrameTriedOnce
    BY Knows DEF DoomedFrameTriedOnce, ToldOK
  <2>6. ViewerIsTold
    <3> SUFFICES ASSUME NEW c \in Clients, ~ShowsPlaceholder(req[c], Effective(Warm)) PROVE req[c].shown = Effective(Warm)
      BY DEF ViewerIsTold
    <3>1. req[c].served = <<Effective(Warm), 0>>
      BY DEF ShowsPlaceholder
    <3>2. req[c].served[1] = Effective(Warm)
      BY <3>1
    <3>3. Effective(Warm) \in Sigs \cup {"stale"}
      BY Knows, EffectiveFacts
    <3>4. Effective(Warm) \notin {"nothing", "failed"}
      BY <3>3 DEF Sigs
    <3> QED BY <3>2, <3>4, Knows DEF ToldOK
  <2> QED BY <2>1, <2>2, <2>3, <2>4, <2>5, <2>6 DEF RequestsAreKept
<1> QED BY <1>1, ServeInvariant, PTL

-----------------------------------------------------------------------------
(***************************************************************************)
(* The sources.  What has been tried of the ladder, what the queue still   *)
(* holds, what the RFB worker will have composed once it has read what is  *)
(* under way, and how long a server may have been silent.                  *)
(***************************************************************************)
Rungs(b) == { i \in b.sets : b.actual[i] \in b.allocs }
Good(b) == { i \in Rungs(b) : b.actual[i] \in b.streams }
Below(b, S, n) == { b.actual[i] : i \in { k \in S : k < n } }
Waited(b, n) == Below(b, Rungs(b), n) \ b.streams
Best(b) ==
  IF Good(b) # {} THEN b.actual[Least(Good(b))] ELSE IF Rungs(b) # {} THEN b.actual[Least(Rungs(b))] ELSE "error"
Walked(b, p) ==
  /\ p.tried = Below(b, b.sets, p.at)
  /\ \A i \in Good(b) : p.at <= i
  /\ p.allocated = IF \E i \in Rungs(b) : i < p.at THEN Least(Rungs(b)) ELSE 0
ProbeInv ==
  /\ probe.bench \in Benches /\ probe.at \in 1..(Len(Ladder) + 1) /\ probe.done \in BOOLEAN
  /\ probe \in [bench : {probe.bench}, at : {probe.at}, tried : {probe.tried}, allocated : {probe.allocated},
                opened : {probe.opened}, waits : {probe.waits}, done : {probe.done}]
  /\ probe.waits = Cardinality(Waited(probe.bench, probe.at))
  /\ IF probe.done THEN probe.opened = Best(probe.bench) ELSE Walked(probe.bench, probe)

DrainInv ==
  /\ drain \in [stale : 0..Buffers, skipped : 0..Buffers, stamps : BOOLEAN, served : {"none", "old", "fresh"}]
  /\ drain.stamps => IF drain.served = "none" THEN drain.stale <= Buffers - drain.skipped ELSE drain.served = "fresh"

Rows == { s \in Seq(Nat) : Len(s) \in {2, 3} }
Rects == [op : {"raw", "copy", "size"}, x : Nat, px : Seq(Nat), from : Nat]
RfbTypes ==
  /\ server \in [px : Rows, up : BOOLEAN, owes : {"none", "inc", "full"}, late : Nat, rects : Seq(Rects), scenes : Nat]
  /\ wire = NoUpdate \/ wire \in Seq(Rects) \X Rows
  /\ worker \in [at : {"start", "live", "ended"}, fb : Seq(Nat), rx : 0..(DeadAfter + 1), req : 0..(DeadAfter + 1)]
  /\ shared \in [fresh : BOOLEAN, frame : Seq(Nat), err : {"none", "connect", "stalled", "silent"}, stop : BOOLEAN, as : Seq(Nat)]
  /\ worker.at = "live" => worker.rx <= DeadAfter

\* What the worker will have composed when it has read what is under way, and then what has
\* changed since.
Ahead(fb, w, rects) == ReadUpdate(IF w = NoUpdate THEN fb ELSE w[2], rects)
ScreenIsKept ==
  worker.at = "live" =>
    /\ wire # NoUpdate => ReadUpdate(worker.fb, wire[1]) = wire[2]
    /\ server.up =>
         /\ Ahead(worker.fb, wire, server.rects) \in Rows
         /\ Len(Ahead(worker.fb, wire, server.rects)) = Len(server.px)
         /\ (wire = NoUpdate /\ server.owes = "full") \/ Ahead(worker.fb, wire, server.rects) = server.px
TimeIsKept ==
  worker.at = "live" /\ server.up =>
    IF wire # NoUpdate THEN server.owes = "none" /\ server.late = 0 /\ worker.rx <= Keepalive + AnswersWithin
    ELSE IF server.owes = "full" THEN worker.rx <= Keepalive + server.late /\ server.late <= AnswersWithin
    ELSE worker.rx = worker.req /\ worker.req < Keepalive /\ server.late = 0
StartIsQuiet ==
  worker.at = "start" => wire = NoUpdate /\ server.owes = "none" /\ server.late = 0 /\ worker.rx = 0 /\ worker.req = 0
RfbInv ==
  /\ RfbTypes /\ StartIsQuiet /\ ScreenIsKept /\ TimeIsKept
  /\ ComposedIsTheServers /\ AliveIsNotGivenUp

-----------------------------------------------------------------------------
\* A set of numbers that is not empty has a least one.
LEMMA LeastNumber ==
  ASSUME NEW S, S \subseteq Nat, S # {}
  PROVE  \E m \in S : \A n \in S : m <= n
<1>1. PICK m \in S : \A n \in S : ~(<<n, m>> \in OpToRel(<, Nat))
  BY NatLessThanWellFounded, WFMin
<1>2. \A n \in S : ~(n < m)
  BY <1>1 DEF OpToRel
<1> QED BY <1>2

\* Least chooses it.
LEMMA LeastIs ==
  ASSUME NEW S, S \subseteq Nat, S # {}
  PROVE  Least(S) \in S /\ \A j \in S : Least(S) <= j
<1>1. \E i \in S : \A j \in S : i <= j
  BY LeastNumber
<1> QED BY <1>1 DEF Least

\* and there is only one.
LEMMA LeastIsOne ==
  ASSUME NEW S, S \subseteq Nat, NEW i \in S, \A j \in S : i <= j
  PROVE  Least(S) = i
<1>1. Least(S) \in S /\ \A j \in S : Least(S) <= j
  BY LeastIs
<1>2. Least(S) \in Nat /\ i \in Nat /\ Least(S) <= i /\ i <= Least(S)
  BY <1>1
<1> QED BY <1>2

\* The values of a function at the members of a finite set are finitely many.
LEMMA ImageIsFinite ==
  ASSUME NEW S, IsFiniteSet(S), NEW f
  PROVE  IsFiniteSet({ f[i] : i \in S })
<1> DEFINE T == { f[i] : i \in S }
           g == [i \in S |-> f[i]]
<1>1. g \in Surjection(S, T)
  BY DEF Surjection
<1> QED BY <1>1, FS_Surjection

(***************************************************************************)
(* The ladder.                                                             *)
(***************************************************************************)
\* What one bench's rungs are.
LEMMA BenchFacts ==
  ASSUME NEW b \in Benches
  PROVE  /\ b.sets \subseteq 1..Len(Ladder) /\ b.sets \subseteq Nat /\ Rungs(b) \subseteq b.sets
         /\ Good(b) \subseteq Rungs(b) /\ IsFiniteSet(b.sets) /\ IsFiniteSet(Rungs(b))
<1>1. b.sets \subseteq 1..Len(Ladder) /\ Len(Ladder) \in Nat
  BY SourceAssumption
<1>2. IsFiniteSet(1..Len(Ladder))
  BY <1>1, FS_Interval
<1>3. IsFiniteSet(b.sets)
  BY <1>1, <1>2, FS_Subset
<1>4. Rungs(b) \subseteq b.sets /\ Good(b) \subseteq Rungs(b)
  BY DEF Rungs, Good
<1>5. IsFiniteSet(Rungs(b))
  BY <1>3, <1>4, FS_Subset
<1> QED BY <1>1, <1>3, <1>4, <1>5

\* The formats below a rung, and below the next one.
LEMMA BelowGrows ==
  ASSUME NEW b, NEW S, S \subseteq Nat, NEW n \in Nat
  PROVE  /\ n \in S => Below(b, S, n + 1) = Below(b, S, n) \cup {b.actual[n]}
         /\ n \notin S => Below(b, S, n + 1) = Below(b, S, n)
<1>1. \A k \in S : k < n + 1 <=> k < n \/ k = n
  OBVIOUS
<1>2. n \in S => { k \in S : k < n + 1 } = { k \in S : k < n } \cup {n}
  BY <1>1
<1>3. n \notin S => { k \in S : k < n + 1 } = { k \in S : k < n }
  BY <1>1
<1> QED BY <1>2, <1>3 DEF Below

\* How many have been waited for, a rung later.
LEMMA WaitedGrows ==
  ASSUME NEW b \in Benches, NEW n \in Nat
  PROVE  /\ Cardinality(Waited(b, n)) \in Nat
         /\ Cardinality(Waited(b, n)) <= Cardinality({ b.actual[i] : i \in Rungs(b) } \ b.streams)
         /\ Cardinality(Waited(b, n + 1)) =
              IF n \in Rungs(b) /\ b.actual[n] \notin b.streams /\ b.actual[n] \notin Waited(b, n)
              THEN Cardinality(Waited(b, n)) + 1 ELSE Cardinality(Waited(b, n))
<1> DEFINE R == Rungs(b)
           all == { b.actual[i] : i \in R }
<1>1. IsFiniteSet(all)
  BY BenchFacts, ImageIsFinite
<1>2. all \ b.streams \subseteq all /\ Waited(b, n) \subseteq all \ b.streams
  BY DEF Waited, Below
<1>3. IsFiniteSet(all \ b.streams)
  BY <1>1, <1>2, FS_Subset
<1>4. IsFiniteSet(Waited(b, n)) /\ Cardinality(Waited(b, n)) <= Cardinality(all \ b.streams)
  BY <1>2, <1>3, FS_Subset
<1>5. Cardinality(Waited(b, n)) \in Nat
  BY <1>4, FS_CardinalityType
<1>6. R \subseteq Nat
  BY BenchFacts
<1>7. Waited(b, n + 1) = IF n \in R /\ b.actual[n] \notin b.streams THEN Waited(b, n) \cup {b.actual[n]} ELSE Waited(b, n)
  BY <1>6, BelowGrows DEF Waited
<1>8. Cardinality(Waited(b, n) \cup {b.actual[n]}) =
        IF b.actual[n] \in Waited(b, n) THEN Cardinality(Waited(b, n)) ELSE Cardinality(Waited(b, n)) + 1
  BY <1>4, FS_AddElement
<1>9. CASE n \in R /\ b.actual[n] \notin b.streams
  <2>1. Waited(b, n + 1) = Waited(b, n) \cup {b.actual[n]}
    BY <1>7, <1>9
  <2> QED BY <2>1, <1>4, <1>5, <1>8, <1>9
<1>10. CASE ~(n \in R /\ b.actual[n] \notin b.streams)
  <2>1. Waited(b, n + 1) = Waited(b, n)
    BY <1>7, <1>10
  <2> QED BY <2>1, <1>4, <1>5, <1>10
<1> QED BY <1>9, <1>10

\* Walked, a rung later.
LEMMA WalksOn ==
  ASSUME NEW b \in Benches, NEW p, NEW q, p.at \in 1..Len(Ladder), Walked(b, p), q.at = p.at + 1,
         q.tried = IF p.at \in b.sets THEN p.tried \cup {b.actual[p.at]} ELSE p.tried,
         p.at \in Good(b) => b.actual[p.at] \in p.tried,
         q.allocated = IF p.allocated = 0 /\ p.at \in Rungs(b) /\ b.actual[p.at] \notin p.tried THEN p.at ELSE p.allocated
  PROVE  Walked(b, q)
<1> DEFINE n == p.at
           R == Rungs(b)
<1>0. Len(Ladder) \in Nat
  BY SourceAssumption
<1>1. n \in Nat /\ n > 0 /\ b.sets \subseteq Nat /\ R \subseteq b.sets /\ Good(b) \subseteq R
  BY <1>0, BenchFacts
<1>2. q.tried = Below(b, b.sets, n + 1)
  <2>1. p.tried = Below(b, b.sets, n)
    BY DEF Walked
  <2>2. /\ n \in b.sets => Below(b, b.sets, n + 1) = Below(b, b.sets, n) \cup {b.actual[n]}
        /\ n \notin b.sets => Below(b, b.sets, n + 1) = Below(b, b.sets, n)
    <3> DEFINE S == b.sets
    <3> HIDE DEF n, S
    <3>1. S \subseteq Nat /\ n \in Nat
      BY <1>1 DEF S
    <3>2. /\ n \in S => Below(b, S, n + 1) = Below(b, S, n) \cup {b.actual[n]}
          /\ n \notin S => Below(b, S, n + 1) = Below(b, S, n)
      BY ONLY <3>1, BelowGrows
    <3> QED BY <3>2 DEF S
  <2> QED BY <2>1, <2>2
<1>3. n \in R /\ b.actual[n] \in p.tried => \E i \in R : i < n /\ b.actual[i] = b.actual[n]
  BY DEF Walked, Below, Rungs
<1>4. n \notin Good(b)
  <2> SUFFICES ASSUME n \in Good(b) PROVE FALSE
    OBVIOUS
  <2>1. PICK i \in R : i < n /\ b.actual[i] = b.actual[n]
    BY <1>1, <1>3
  <2>2. i \in Good(b)
    BY <2>1 DEF Good
  <2> QED BY <1>1, <2>1, <2>2 DEF Walked
<1>5. \A i \in Good(b) : n + 1 <= i
  BY <1>1, <1>4 DEF Walked
<1>6. CASE \E i \in R : i < n
  <2>1. p.allocated = Least(R) /\ Least(R) \in R
    BY <1>1, <1>6, LeastIs DEF Walked
  <2>2. p.allocated # 0
    BY <2>1, <1>1, BenchFacts
  <2>3. \E i \in R : i < n + 1
    BY <1>1, <1>6
  <2> QED BY <1>2, <1>5, <2>1, <2>2, <2>3 DEF Walked
<1>7. CASE ~\E i \in R : i < n
  <2>1. p.allocated = 0
    BY <1>7 DEF Walked
  <2>2. CASE n \in R
    <3>1. \A j \in R : n <= j
      BY <1>1, <1>7
    <3>2. Least(R) = n
      BY <1>1, <2>2, <3>1, LeastIsOne
    <3>3. b.actual[n] \notin p.tried
      BY <1>3, <1>7, <2>2
    <3>4. \E i \in R : i < n + 1
      BY <1>1, <2>2
    <3> QED BY <1>2, <1>5, <2>1, <2>2, <3>2, <3>3, <3>4 DEF Walked
  <2>3. CASE n \notin R
    <3>1. ~\E i \in R : i < n + 1
      BY <1>1, <1>7, <2>3
    <3> QED BY <1>2, <1>5, <2>1, <2>3, <3>1 DEF Walked
  <2> QED BY <2>2, <2>3
<1> QED BY <1>6, <1>7

\* What is tried is what is waited for, of what allocates and does not stream.
LEMMA TriedIsWaited ==
  ASSUME NEW b \in Benches, NEW p, Walked(b, p), p.at \in Rungs(b), b.actual[p.at] \notin b.streams
  PROVE  b.actual[p.at] \in p.tried <=> b.actual[p.at] \in Waited(b, p.at)
  BY BenchFacts DEF Walked, Waited, Below, Rungs

\* The first rung that streams, met on the way, is the best.
LEMMA StreamsIsBest ==
  ASSUME NEW b \in Benches, NEW p, Walked(b, p), p.at \in Good(b)
  PROVE  b.actual[p.at] = Best(b)
<1>1. Least(Good(b)) = p.at
  BY BenchFacts, LeastIsOne DEF Walked
<1> QED BY <1>1 DEF Best

\* At the end of the ladder nothing streams, and the first that allocates is kept.
LEMMA EndIsBest ==
  ASSUME NEW b \in Benches, NEW p, Walked(b, p), p.at = Len(Ladder) + 1
  PROVE  (IF p.allocated = 0 THEN "error" ELSE b.actual[p.allocated]) = Best(b)
<1>1. b.sets \subseteq 1..Len(Ladder) /\ Rungs(b) \subseteq b.sets /\ Good(b) \subseteq Rungs(b) /\ Len(Ladder) \in Nat
  BY BenchFacts, SourceAssumption
<1>2. Good(b) = {}
  BY <1>1 DEF Walked
<1>3. \A i \in Rungs(b) : i < p.at /\ i \in Nat /\ i # 0
  BY <1>1
<1>4. CASE Rungs(b) = {}
  BY <1>2, <1>4 DEF Walked, Best
<1>5. CASE Rungs(b) # {}
  <2>1. Least(Rungs(b)) \in Rungs(b)
    BY <1>3, <1>5, LeastIs
  <2>2. p.allocated = Least(Rungs(b)) /\ p.allocated # 0
    BY <1>3, <1>5, <2>1 DEF Walked
  <2> QED BY <1>2, <1>5, <2>2 DEF Best
<1> QED BY <1>4, <1>5

\* One step of the walk.
LEMMA ProbeStep ==
  ASSUME ProbeInv, ProbeNext
  PROVE  ProbeInv'
<1> DEFINE b == probe.bench
           n == probe.at
           f == b.actual[n]
           on == [probe EXCEPT !.at = @ + 1]
           probed == [on EXCEPT !.tried = @ \cup {f}]
           waits == [probed EXCEPT !.waits = @ + 1, !.allocated = IF @ = 0 THEN n ELSE @]
<1>0. Len(Ladder) \in Nat
  BY SourceAssumption
<1>9. b \in Benches /\ n \in 1..(Len(Ladder) + 1) /\ ~probe.done /\ Walked(b, probe) /\ probe.waits = Cardinality(Waited(b, n))
  BY DEF ProbeInv, ProbeNext
<1>1. /\ b \in Benches /\ n \in 1..(Len(Ladder) + 1) /\ ~probe.done /\ Walked(b, probe)
      /\ probe.waits = Cardinality(Waited(b, n)) /\ Len(Ladder) \in Nat /\ n \in Nat
  BY <1>0, <1>9
<1>10. probe.done = FALSE
  BY <1>9, Zenon DEF ProbeInv
<1>2. probe \in [bench : {b}, at : {n}, tried : {probe.tried}, allocated : {probe.allocated},
                opened : {probe.opened}, waits : {probe.waits}, done : {FALSE}]
  BY <1>10 DEF ProbeInv
<1>3. CASE n > Len(Ladder)
  <2>0. n = Len(Ladder) + 1 /\ ~(n <= Len(Ladder))
    BY <1>1, <1>3
  <2>3. (IF probe.allocated = 0 THEN "error" ELSE b.actual[probe.allocated]) = Best(b)
    BY <1>1, <2>0, EndIsBest
  <2>1. probe' = [[probe EXCEPT !.opened = Best(b)] EXCEPT !.done = TRUE]
    BY <2>0, <2>3 DEF ProbeNext, Opens
  <2>2. /\ probe'.bench = b /\ probe'.at = n /\ probe'.waits = probe.waits /\ probe'.done /\ probe'.opened = Best(b)
        /\ probe' \in [bench : {b}, at : {n}, tried : {probe'.tried}, allocated : {probe'.allocated},
                      opened : {probe'.opened}, waits : {probe'.waits}, done : {TRUE}]
    BY <1>2, <2>1
  <2> QED BY <1>1, <2>2 DEF ProbeInv
<1>4. CASE n <= Len(Ladder)
  <2>1. n \in 1..Len(Ladder) /\ n + 1 \in 1..(Len(Ladder) + 1)
    BY <1>1, <1>4
  <2>2. /\ on \in [bench : {b}, at : {n + 1}, tried : {probe.tried}, allocated : {probe.allocated},
                opened : {probe.opened}, waits : {probe.waits}, done : {FALSE}]
        /\ on.tried = probe.tried
    BY <1>1, <1>2
  <2>3. probed \in [bench : {b}, at : {n + 1}, tried : {probe.tried \cup {f}}, allocated : {probe.allocated},
                opened : {probe.opened}, waits : {probe.waits}, done : {FALSE}]
    <3> HIDE DEF on
    <3> QED BY <2>2
  <2>4. n \in b.sets /\ f \in b.allocs <=> n \in Rungs(b)
    BY DEF Rungs
  <2>5. n \in Good(b) <=> n \in Rungs(b) /\ f \in b.streams
    BY DEF Good
  <2>6. probe' = TryRung(probe)
    BY <1>1, <1>4 DEF ProbeNext
  <2>7. ASSUME n \notin b.sets \/ f \in probe.tried PROVE ProbeInv'
    <3>1. probe' = on
      BY <2>6, <2>7 DEF TryRung
    <3> HIDE DEF on
    <3>2. /\ probe'.bench = b /\ probe'.at = n + 1 /\ probe'.waits = probe.waits /\ ~probe'.done /\ probe'.done \in BOOLEAN
          /\ probe'.tried = probe.tried /\ probe'.allocated = probe.allocated
          /\ probe' \in [bench : {b}, at : {n + 1}, tried : {probe'.tried}, allocated : {probe'.allocated},
                      opened : {probe'.opened}, waits : {probe'.waits}, done : {FALSE}]
      BY <2>2, <3>1
    <3>3. probe'.tried = IF n \in b.sets THEN probe.tried \cup {f} ELSE probe.tried
      BY <2>7, <3>2
    <3>4. Walked(b, probe')
      <4>1. n \in Good(b) => f \in probe.tried
        BY <2>4, <2>5, <2>7
      <4>2. ~(probe.allocated = 0 /\ n \in Rungs(b) /\ f \notin probe.tried)
        BY <2>4, <2>7
      <4> QED BY <1>1, <2>1, <3>2, <3>3, <4>1, <4>2, WalksOn
    <3>5. Cardinality(Waited(b, n + 1)) = Cardinality(Waited(b, n))
      <4>1. ~(n \in Rungs(b) /\ f \notin b.streams /\ f \notin Waited(b, n))
        BY <1>1, <2>4, <2>7, TriedIsWaited
      <4> QED BY <1>1, <4>1, WaitedGrows
    <3> QED BY <1>1, <2>1, <3>2, <3>4, <3>5 DEF ProbeInv
  <2>8. ASSUME n \in b.sets, f \notin probe.tried, f \notin b.allocs PROVE ProbeInv'
    <3>1. probe' = probed
      BY <2>6, <2>8 DEF TryRung
    <3> HIDE DEF on, probed
    <3>2. /\ probe'.bench = b /\ probe'.at = n + 1 /\ probe'.waits = probe.waits /\ ~probe'.done /\ probe'.done \in BOOLEAN
          /\ probe'.tried = probe.tried \cup {f} /\ probe'.allocated = probe.allocated
          /\ probe' \in [bench : {b}, at : {n + 1}, tried : {probe'.tried}, allocated : {probe'.allocated},
                      opened : {probe'.opened}, waits : {probe'.waits}, done : {FALSE}]
      BY <2>3, <3>1
    <3>3. n \notin Rungs(b) /\ n \notin Good(b)
      BY <2>4, <2>5, <2>8
    <3>4. Walked(b, probe')
      BY <1>1, <2>1, <2>8, <3>2, <3>3, WalksOn
    <3>5. Cardinality(Waited(b, n + 1)) = Cardinality(Waited(b, n))
      BY <1>1, <3>3, WaitedGrows
    <3> QED BY <1>1, <2>1, <3>2, <3>4, <3>5 DEF ProbeInv
  <2>9. ASSUME n \in b.sets, f \notin probe.tried, f \in b.allocs, f \in b.streams PROVE ProbeInv'
    <3>1. probe' = [[probed EXCEPT !.opened = f] EXCEPT !.done = TRUE]
      BY <2>6, <2>9 DEF TryRung, Opens
    <3> HIDE DEF on, probed
    <3>2. /\ probe'.bench = b /\ probe'.at = n + 1 /\ probe'.waits = probe.waits /\ probe'.done /\ probe'.opened = f
          /\ probe' \in [bench : {b}, at : {n + 1}, tried : {probe'.tried}, allocated : {probe'.allocated},
                      opened : {probe'.opened}, waits : {probe'.waits}, done : {TRUE}]
      BY <2>3, <3>1
    <3>3. f = Best(b)
      BY <1>1, <2>4, <2>5, <2>9, StreamsIsBest
    <3>4. Cardinality(Waited(b, n + 1)) = Cardinality(Waited(b, n))
      BY <1>1, <2>9, WaitedGrows
    <3> QED BY <1>1, <2>1, <3>2, <3>3, <3>4 DEF ProbeInv
  <2>10. ASSUME n \in b.sets, f \notin probe.tried, f \in b.allocs, f \notin b.streams PROVE ProbeInv'
    <3>1. probe' = waits
      BY <2>6, <2>10 DEF TryRung
    <3> HIDE DEF on, probed
    <3>2. /\ probe'.bench = b /\ probe'.at = n + 1 /\ probe'.waits = probe.waits + 1 /\ ~probe'.done /\ probe'.done \in BOOLEAN
          /\ probe'.tried = probe.tried \cup {f}
          /\ probe'.allocated = IF probe.allocated = 0 THEN n ELSE probe.allocated
          /\ probe' \in [bench : {b}, at : {n + 1}, tried : {probe'.tried}, allocated : {probe'.allocated},
                      opened : {probe'.opened}, waits : {probe'.waits}, done : {FALSE}]
      BY <2>3, <3>1
    <3>3. n \in Rungs(b) /\ n \notin Good(b)
      BY <2>4, <2>5, <2>10
    <3>4. Walked(b, probe')
      BY <1>1, <2>1, <2>10, <3>2, <3>3, WalksOn
    <3>5. Cardinality(Waited(b, n + 1)) = Cardinality(Waited(b, n)) + 1
      BY <1>1, <2>10, <3>3, WaitedGrows, TriedIsWaited
    <3> QED BY <1>1, <2>1, <3>2, <3>4, <3>5 DEF ProbeInv
  <2> QED BY <2>7, <2>8, <2>9, <2>10
<1> QED BY <1>1, <1>3, <1>4

\* What the walk keeps is what is asked of it.
LEMMA ProbeIsBest ==
  ASSUME ProbeInv
  PROVE  OpensTheBest /\ probe.at \in 1..(Len(Ladder) + 1)
<1>0. Len(Ladder) \in Nat
  BY SourceAssumption
<1>2. probe.at \in Nat /\ probe.bench \in Benches /\ probe.waits = Cardinality(Waited(probe.bench, probe.at))
  BY <1>0 DEF ProbeInv
<1>1. probe.waits <= Cardinality({ probe.bench.actual[i] : i \in Rungs(probe.bench) } \ probe.bench.streams)
  BY <1>2, WaitedGrows
<1> QED BY <1>1 DEF ProbeInv, OpensTheBest, Best, Rungs, Good

(***************************************************************************)
(* The queue.                                                              *)
(***************************************************************************)
\* One buffer skipped or served.
LEMMA DrainStep ==
  ASSUME DrainInv, DrainNext
  PROVE  DrainInv'
<1>1. Buffers \in Nat
  BY SourceAssumption
<1>2. drain \in [stale : 0..Buffers, skipped : 0..Buffers, stamps : BOOLEAN, served : {"none", "old", "fresh"}]
  BY DEF DrainInv
<1>5. drain.served = "none" /\ (drain.stamps => drain.stale <= Buffers - drain.skipped)
  BY DEF DrainInv, DrainNext
<1>6. drain.stale \in 0..Buffers /\ drain.skipped \in 0..Buffers
  BY <1>2
<1>3. CASE Stale(drain) /\ MaySkip(drain)
  <2>1. drain' = [[drain EXCEPT !.stale = @ - 1] EXCEPT !.skipped = @ + 1]
    BY <1>3 DEF DrainNext
  <2>2. drain.stamps /\ drain.stale - 1 \in 0..Buffers /\ drain.skipped + 1 \in 0..Buffers
    BY <1>1, <1>6, <1>3 DEF Stale, MaySkip
  <2>4. drain.stale - 1 <= Buffers - (drain.skipped + 1)
    BY <1>1, <1>5, <1>6, <2>2
  <2>3. /\ drain' \in [stale : 0..Buffers, skipped : 0..Buffers, stamps : BOOLEAN, served : {"none", "old", "fresh"}]
        /\ drain'.served = "none" /\ drain'.stale = drain.stale - 1 /\ drain'.skipped = drain.skipped + 1
    BY <1>2, <1>5, <2>1, <2>2
  <2> QED BY <2>3, <2>4 DEF DrainInv
<1>4. CASE ~(Stale(drain) /\ MaySkip(drain))
  <2>1. drain' = [drain EXCEPT !.served = IF drain.stale > 0 THEN "old" ELSE "fresh"]
    BY <1>4 DEF DrainNext
  <2>2. drain.stamps => ~(drain.stale > 0)
    <3>1. CASE drain.stamps
      BY <1>1, <1>4, <1>5, <1>6, <3>1 DEF Stale, MaySkip
    <3> QED BY <3>1
  <2>3. /\ drain' \in [stale : 0..Buffers, skipped : 0..Buffers, stamps : BOOLEAN, served : {"none", "old", "fresh"}]
        /\ drain'.served = (IF drain.stale > 0 THEN "old" ELSE "fresh") /\ drain'.stamps = drain.stamps
    BY <1>2, <2>1
  <2> QED BY <2>2, <2>3 DEF DrainInv
<1> QED BY <1>3, <1>4

(***************************************************************************)
(* The name.                                                               *)
(***************************************************************************)
\* A list of devices and the same list the other way round.
LEMMA Turned ==
  ASSUME NEW ds, ds \in Seq(Range(ds))
  PROVE  /\ Len(ds) \in Nat /\ Len(Reverse(ds)) = Len(ds) /\ (ds = << >> <=> Reverse(ds) = << >>)
         /\ \A i \in 1..Len(ds) : Len(ds) + 1 - i \in 1..Len(ds) /\ Reverse(ds)[i] = ds[Len(ds) + 1 - i]
         /\ \A i \in 1..Len(ds) : Len(ds) + 1 - (Len(ds) + 1 - i) = i
<1> DEFINE S == Range(ds)
<1> HIDE DEF S
<1>1. ds \in Seq(S) /\ Len(ds) \in Nat
  BY DEF S
<1>2. \A i \in 1..Len(ds) : (Len(ds) - i) + 1 \in 1..Len(ds) /\ (Len(ds) - i) + 1 = Len(ds) + 1 - i
  BY <1>1
<1>3. Reverse(ds) \in Seq(S) /\ Len(Reverse(ds)) = Len(ds)
  BY <1>1, <1>2 DEF Reverse
<1>4. \A i \in 1..Len(ds) : Reverse(ds)[i] = ds[Len(ds) + 1 - i]
  BY <1>1, <1>2 DEF Reverse
<1>5. ds = << >> <=> Reverse(ds) = << >>
  BY <1>1, <1>3
<1> QED BY <1>1, <1>2, <1>3, <1>4, <1>5

\* What matches in one order matches in the other.
LEMMA TurnedMatches ==
  ASSUME NEW ds, ds \in Seq(Range(ds)), NEW n
  PROVE  /\ \A i \in ById(ds, n) : Len(ds) + 1 - i \in ById(Reverse(ds), n)
         /\ \A i \in ById(Reverse(ds), n) : Len(ds) + 1 - i \in ById(ds, n)
         /\ \A i \in Matches(ds, n) : Len(ds) + 1 - i \in Matches(Reverse(ds), n)
         /\ \A i \in Matches(Reverse(ds), n) : Len(ds) + 1 - i \in Matches(ds, n)
<1> DEFINE rs == Reverse(ds)
           L == Len(ds)
<1>1. /\ L \in Nat /\ Len(rs) = L
      /\ \A i \in 1..L : L + 1 - i \in 1..L /\ rs[i] = ds[L + 1 - i]
      /\ \A i \in 1..L : L + 1 - (L + 1 - i) = i
  BY Turned
<1> HIDE DEF rs, L
<1>2. \A i \in 1..L : rs[L + 1 - i] = ds[i]
  BY <1>1
<1>3. ById(ds, n) = { i \in 1..L : ds[i].id # "" /\ ds[i].id = n.id } /\ Matches(ds, n) = { i \in 1..L : ds[i].name \in n.names }
  BY DEF ById, Matches, L
<1>4. ById(rs, n) = { i \in 1..L : rs[i].id # "" /\ rs[i].id = n.id } /\ Matches(rs, n) = { i \in 1..L : rs[i].name \in n.names }
  BY <1>1 DEF ById, Matches
<1>5. /\ \A i \in ById(ds, n) : L + 1 - i \in ById(rs, n)
      /\ \A i \in ById(rs, n) : L + 1 - i \in ById(ds, n)
      /\ \A i \in Matches(ds, n) : L + 1 - i \in Matches(rs, n)
      /\ \A i \in Matches(rs, n) : L + 1 - i \in Matches(ds, n)
  BY <1>1, <1>2, <1>3, <1>4
<1> QED BY <1>5 DEF rs, L

\* Where exactly one matches.
LEMMA OneMatch ==
  ASSUME NEW k \in Nat, NEW M, M \subseteq 1..k
  PROVE  Cardinality(M) = 1 <=> \E x \in 1..k : M = {x}
<1>0. IsFiniteSet(1..k)
  BY FS_Interval
<1>1. IsFiniteSet(M)
  BY <1>0, FS_Subset
<1> QED BY <1>1, FS_Singleton

\* NamedIsNotSwapped: whichever way the devices are listed, a name means the same one.
LEMMA NameIsKept ==
  ASSUME pick.devices \in Devices
  PROVE  NamedIsNotSwapped
<1> DEFINE ds == pick.devices
           n == pick.name
           rs == Reverse(ds)
           L == Len(ds)
           i == ResolveIn(ds, n)
           j == ResolveIn(rs, n)
<1> SUFFICES ASSUME n.kind = "name"
             PROVE  (i = 0) = (j = 0) /\ (i # 0 => ds[i] = rs[j] /\ (ById(ds, n) = {} => j = L + 1 - i))
  BY DEF NamedIsNotSwapped
<1>1. ds \in Seq(Range(ds)) /\ \A k, m \in 1..L : ds[k].id = ds[m].id /\ ds[k].id # "" => ds[k] = ds[m]
  BY SourceAssumption
<1>2. /\ L \in Nat /\ Len(rs) = L /\ (ds = << >> <=> rs = << >>)
      /\ \A k \in 1..L : L + 1 - k \in 1..L /\ rs[k] = ds[L + 1 - k]
      /\ \A k \in 1..L : L + 1 - (L + 1 - k) = k
  BY <1>1, Turned
<1>3. /\ \A k \in ById(ds, n) : L + 1 - k \in ById(rs, n)
      /\ \A k \in ById(rs, n) : L + 1 - k \in ById(ds, n)
      /\ \A k \in Matches(ds, n) : L + 1 - k \in Matches(rs, n)
      /\ \A k \in Matches(rs, n) : L + 1 - k \in Matches(ds, n)
  BY <1>1, TurnedMatches
<1>4. /\ ById(ds, n) \subseteq 1..L /\ ById(rs, n) \subseteq 1..L
      /\ Matches(ds, n) \subseteq 1..L /\ Matches(rs, n) \subseteq 1..L
  BY <1>2 DEF ById, Matches
<1>5. CASE ds = << >>
  <2>1. i = 0 /\ j = 0
    BY <1>2, <1>5 DEF ResolveIn
  <2> QED BY <2>1
<1>6. CASE ds # << >> /\ ById(ds, n) # {}
  <2>1. ById(rs, n) # {}
    BY <1>3, <1>6
  <2>2. i = Least(ById(ds, n)) /\ j = Least(ById(rs, n))
    BY <1>2, <1>6, <2>1 DEF ResolveIn
  <2>3. ById(ds, n) \subseteq Nat /\ ById(rs, n) \subseteq Nat
    BY <1>2, <1>4
  <2>4. i \in ById(ds, n) /\ j \in ById(rs, n)
    BY <1>6, <2>1, <2>2, <2>3, LeastIs
  <2> HIDE DEF i, j, rs, L
  <2>5. i \in 1..L /\ j \in 1..L /\ i # 0 /\ j # 0
    BY <1>2, <1>4, <2>4
  <2>6. ds[i].id # "" /\ ds[i].id = n.id /\ rs[j].id = n.id /\ rs[j] = ds[L + 1 - j] /\ L + 1 - j \in 1..L
    BY <1>2, <2>4, <2>5 DEF ById
  <2>7. ds[i] = rs[j]
    BY <1>1, <2>5, <2>6
  <2> QED BY <1>6, <2>5, <2>7
<1>7. CASE ds # << >> /\ ById(ds, n) = {}
  <2>1. ById(rs, n) = {}
    BY <1>3, <1>7
  <2>2. /\ i = IF Cardinality(Matches(ds, n)) = 1 THEN Least(Matches(ds, n)) ELSE 0
        /\ j = IF Cardinality(Matches(rs, n)) = 1 THEN Least(Matches(rs, n)) ELSE 0
    BY <1>2, <1>7, <2>1 DEF ResolveIn
  <2>3. /\ Cardinality(Matches(ds, n)) = 1 <=> \E x \in 1..L : Matches(ds, n) = {x}
        /\ Cardinality(Matches(rs, n)) = 1 <=> \E x \in 1..L : Matches(rs, n) = {x}
    BY <1>2, <1>4, OneMatch
  <2>4. \A x \in 1..L : Matches(ds, n) = {x} => Matches(rs, n) = {L + 1 - x}
    <3> HIDE DEF rs, L, ds
    <3> QED BY <1>2, <1>3, <1>4
  <2>5. \A x \in 1..L : Matches(rs, n) = {x} => Matches(ds, n) = {L + 1 - x}
    <3> HIDE DEF rs, L, ds
    <3> QED BY <1>2, <1>3, <1>4
  <2>6. CASE \E x \in 1..L : Matches(ds, n) = {x}
    <3>1. PICK x \in 1..L : Matches(ds, n) = {x}
      BY <2>6
    <3>2. Matches(rs, n) = {L + 1 - x} /\ L + 1 - x \in 1..L
      BY <1>2, <2>4, <3>1
    <3>3. i = Least({x}) /\ j = Least({L + 1 - x})
      BY <2>2, <2>3, <3>1, <3>2
    <3> HIDE DEF i, j, rs, L
    <3>7. \A y \in Nat : Least({y}) = y
      BY LeastIs
    <3>8. x \in Nat /\ L + 1 - x \in Nat
      BY <1>2, <3>2
    <3>4. Least({x}) = x /\ Least({L + 1 - x}) = L + 1 - x
      BY <3>7, <3>8
    <3>5. i = x /\ j = L + 1 - x /\ j # 0 /\ i # 0
      BY <1>2, <3>2, <3>3, <3>4
    <3>6. rs[j] = ds[i]
      BY <1>2, <3>2, <3>5
    <3> QED BY <3>5, <3>6
  <2>7. CASE ~\E x \in 1..L : Matches(ds, n) = {x}
    <3>1. ~\E x \in 1..L : Matches(rs, n) = {x}
      BY <1>2, <2>5, <2>7
    <3>2. i = 0 /\ j = 0
      BY <2>2, <2>3, <2>7, <3>1
    <3> QED BY <3>2
  <2> QED BY <2>6, <2>7
<1> QED BY <1>5, <1>6, <1>7

(***************************************************************************)
(* Reading an update: rectangle by rectangle.                              *)
(***************************************************************************)
Reading(fb, rects, n, f) == f = [i \in 0..n |-> IF i = 0 THEN fb ELSE Applied(f[i - 1], rects[i])]

\* It can be read as far as one likes.
LEMMA ReadingExists ==
  ASSUME NEW fb, NEW rects, NEW n \in Nat
  PROVE  \E f : Reading(fb, rects, n, f)
<1> DEFINE Bad == { k \in Nat : ~\E f : Reading(fb, rects, k, f) }
<1> SUFFICES ASSUME Bad # {} PROVE FALSE
  OBVIOUS
<1>1. PICK m \in Bad : \A k \in Bad : m <= k
  BY LeastNumber
<1>2. CASE m = 0
  <2>1. Reading(fb, rects, 0, [i \in 0..0 |-> fb])
    BY DEF Reading
  <2> QED BY <1>1, <1>2, <2>1
<1>3. CASE m # 0
  <2>1. m - 1 \in Nat /\ m - 1 \notin Bad
    BY <1>1, <1>3
  <2>2. PICK f : Reading(fb, rects, m - 1, f)
    BY <2>1
  <2> DEFINE g == [i \in 0..m |-> IF i = m THEN Applied(f[m - 1], rects[m]) ELSE f[i]]
  <2>3. \A i \in 0..(m - 1) : f[i] = IF i = 0 THEN fb ELSE Applied(f[i - 1], rects[i])
    BY <2>2 DEF Reading
  <2>4. \A i \in 0..m : g[i] = IF i = 0 THEN fb ELSE Applied(g[i - 1], rects[i])
    <3> SUFFICES ASSUME NEW i \in 0..m PROVE g[i] = IF i = 0 THEN fb ELSE Applied(g[i - 1], rects[i])
      OBVIOUS
    <3>1. CASE i = m
      <4>1. g[m] = Applied(f[m - 1], rects[m]) /\ g[m - 1] = f[m - 1]
        BY <2>1
      <4> QED BY <1>3, <3>1, <4>1
    <3>2. CASE i = 0
      BY <1>3, <2>1, <2>3, <3>2
    <3>3. CASE i # m /\ i # 0
      <4>1. i \in 0..(m - 1) /\ i - 1 \in 0..m /\ i - 1 # m
        BY <2>1, <3>3
      <4>2. g[i] = f[i] /\ g[i - 1] = f[i - 1]
        BY <3>3, <4>1
      <4> QED BY <2>3, <3>3, <4>1, <4>2
    <3> QED BY <3>1, <3>2, <3>3
  <2>5. Reading(fb, rects, m, g)
    <3> DEFINE h == [i \in 0..m |-> IF i = 0 THEN fb ELSE Applied(g[i - 1], rects[i])]
    <3>1. g = [i \in 0..m |-> g[i]]
      OBVIOUS
    <3> HIDE DEF g
    <3>2. g = h
      BY <2>4, <3>1
    <3> QED BY <3>2 DEF Reading
  <2> QED BY <1>1, <2>5
<1> QED BY <1>2, <1>3

\* and in one way.
LEMMA ReadingIsOne ==
  ASSUME NEW fb, NEW r, NEW s, NEW n \in Nat, NEW m \in Nat, n <= m, \A i \in 1..n : r[i] = s[i],
         NEW f, Reading(fb, r, n, f), NEW g, Reading(fb, s, m, g)
  PROVE  \A i \in 0..n : f[i] = g[i]
<1> DEFINE Bad == { k \in 0..n : f[k] # g[k] }
<1> SUFFICES ASSUME Bad # {} PROVE FALSE
  OBVIOUS
<1>1. PICK k \in Bad : \A j \in Bad : k <= j
  <2>1. Bad \subseteq Nat
    OBVIOUS
  <2> HIDE DEF Bad
  <2> QED BY <2>1, LeastNumber
<1>2. /\ \A i \in 0..n : f[i] = IF i = 0 THEN fb ELSE Applied(f[i - 1], r[i])
      /\ \A i \in 0..m : g[i] = IF i = 0 THEN fb ELSE Applied(g[i - 1], s[i])
  BY DEF Reading
<1>3. k # 0
  BY <1>1, <1>2
<1>4. k - 1 \in 0..n /\ k \in 1..n /\ k \in 0..m /\ ~(k <= k - 1)
  BY <1>1, <1>3
<1>5. f[k - 1] = g[k - 1]
  BY <1>1, <1>4
<1> QED BY <1>1, <1>2, <1>3, <1>4, <1>5

\* The whole of it is what a reading ends with.
LEMMA ReadingEnds ==
  ASSUME NEW fb, NEW r, Len(r) \in Nat
  PROVE  \E f : Reading(fb, r, Len(r), f) /\ ReadUpdate(fb, r) = f[Len(r)]
<1> DEFINE c == CHOOSE f : Reading(fb, r, Len(r), f)
<1>1. ReadUpdate(fb, r) = c[Len(r)]
  BY DEF ReadUpdate, Reading
<1>2. Reading(fb, r, Len(r), c)
  BY ReadingExists
<1> QED BY <1>1, <1>2

\* Nothing read leaves the screen as it was.
LEMMA ReadUpdateEmpty ==
  ASSUME NEW fb
  PROVE  ReadUpdate(fb, << >>) = fb
<1>1. PICK f : Reading(fb, << >>, Len(<< >>), f) /\ ReadUpdate(fb, << >>) = f[Len(<< >>)]
  BY ReadingEnds
<1> QED BY <1>1 DEF Reading

\* A rectangle more is applied to what the others made.
LEMMA ReadUpdateGrows ==
  ASSUME NEW fb, NEW S, NEW r \in Seq(S), NEW x \in S
  PROVE  ReadUpdate(fb, r \o <<x>>) = Applied(ReadUpdate(fb, r), x)
<1> DEFINE s == r \o <<x>>
           n == Len(r)
           m == n + 1
<1>1. n \in Nat /\ m \in Nat /\ n <= m /\ n \in 0..n /\ Len(s) = m /\ s[m] = x /\ Len(r) = n
  OBVIOUS
<1>2. \A i \in 1..n : r[i] = s[i]
  OBVIOUS
<1> HIDE DEF s, n
<1>3. PICK f : Reading(fb, r, n, f) /\ ReadUpdate(fb, r) = f[n]
  BY <1>1, ReadingEnds
<1>4. PICK g : Reading(fb, s, m, g) /\ ReadUpdate(fb, s) = g[m]
  BY <1>1, ReadingEnds
<1>5. g[m] = Applied(g[n], x)
  BY <1>1, <1>4 DEF Reading
<1> HIDE DEF m
<1>6. \A i \in 0..n : f[i] = g[i]
  <2>1. n \in Nat /\ m \in Nat /\ n <= m /\ Reading(fb, r, n, f) /\ Reading(fb, s, m, g)
    BY <1>1, <1>3, <1>4
  <2> QED BY ONLY <2>1, <1>2, ReadingIsOne, SMTT(30)
<1>7. f[n] = g[n]
  BY <1>1, <1>6
<1> QED BY <1>3, <1>4, <1>5, <1>7 DEF s

(***************************************************************************)
(* One rectangle, applied.                                                 *)
(***************************************************************************)
\* A blank row.
LEMMA BlankRow ==
  ASSUME NEW w \in Nat
  PROVE  Blank(w) \in Seq(Nat) /\ Len(Blank(w)) = w
  BY DEF Blank

\* What the server sends are rectangles.
LEMMA RectFacts ==
  /\ \A x \in Nat, px \in Seq(Nat) : Raw(x, px) \in Rects
  /\ \A x \in Nat, w \in Nat, from \in Nat : Copy(x, w, from) \in Rects
  /\ \A w \in Nat : Size(w) \in Rects
  BY BlankRow DEF Raw, Copy, Size, Rects

\* One of the whole screen is the screen.
LEMMA RawIsAll ==
  ASSUME NEW fb \in Seq(Nat), NEW px \in Seq(Nat), Len(fb) = Len(px)
  PROVE  Applied(fb, Raw(0, px)) = px
<1> DEFINE row == [i \in 1..Len(fb) |-> IF i \in (0 + 1)..(0 + Len(px)) THEN px[i - 0] ELSE fb[i]]
<1>1. Applied(fb, Raw(0, px)) = row
  <2> DEFINE r == Raw(0, px)
  <2>1. r.op = "raw" /\ r.x = 0 /\ r.px = px
    BY DEF Raw
  <2> HIDE DEF r
  <2>2. Applied(fb, r) = row
    BY <2>1 DEF Applied
  <2> QED BY <2>2 DEF r
<1>2. row = px
  OBVIOUS
<1> QED BY <1>1, <1>2

\* One pixel, the second.
LEMMA RawIsOne ==
  ASSUME NEW fb \in Rows, NEW c \in Nat
  PROVE  /\ Applied(fb, Raw(1, <<c>>)) = [fb EXCEPT ![2] = c]
         /\ [fb EXCEPT ![2] = c] \in Rows /\ Len([fb EXCEPT ![2] = c]) = Len(fb)
<1>1. fb \in Seq(Nat) /\ Len(fb) \in {2, 3}
  BY DEF Rows
<1> DEFINE row == [i \in 1..Len(fb) |-> IF i \in (1 + 1)..(1 + Len(<<c>>)) THEN <<c>>[i - 1] ELSE fb[i]]
           e == [fb EXCEPT ![2] = c]
<1>2. Applied(fb, Raw(1, <<c>>)) = row
  <2> DEFINE r == Raw(1, <<c>>)
  <2>1. r.op = "raw" /\ r.x = 1 /\ r.px = <<c>>
    BY DEF Raw
  <2> HIDE DEF r
  <2>2. Applied(fb, r) = row
    BY <2>1 DEF Applied
  <2> QED BY <2>2 DEF r
<1>3. e \in Seq(Nat) /\ Len(e) = Len(fb)
  BY <1>1
<1>4. \A i \in 1..Len(fb) : row[i] = e[i]
  BY <1>1
<1>5. row = e
  <2>1. row = [i \in 1..Len(fb) |-> row[i]]
    OBVIOUS
  <2> HIDE DEF row, e
  <2>2. e = [i \in 1..Len(fb) |-> e[i]]
    BY <1>3
  <2> QED BY <1>4, <2>1, <2>2
<1> HIDE DEF row
<1> QED BY <1>1, <1>2, <1>3, <1>5 DEF Rows

\* A copy of all but the last, one to the right, and a pixel: the screen has scrolled.
LEMMA CopyScrolls ==
  ASSUME NEW fb \in Rows, NEW c \in Nat
  PROVE  /\ Applied(Applied(fb, Copy(1, Len(fb) - 1, 0)), Raw(0, <<c>>)) = SceneScrolls(fb, c)
         /\ SceneScrolls(fb, c) \in Rows /\ Len(SceneScrolls(fb, c)) = Len(fb)
<1>1. fb \in Seq(Nat) /\ Len(fb) \in {2, 3}
  BY DEF Rows
<1> DEFINE r == Copy(1, Len(fb) - 1, 0)
           a == Applied(fb, r)
           row == [i \in 1..Len(a) |-> IF i \in (0 + 1)..(0 + Len(<<c>>)) THEN <<c>>[i - 0] ELSE a[i]]
           sc == SceneScrolls(fb, c)
<1>9. r.op = "copy" /\ r.x = 1 /\ r.from = 0 /\ r.px = Blank(Len(fb) - 1)
  BY DEF Copy
<1>10. Len(fb) - 1 \in Nat
  BY <1>1
<1>2. r.op = "copy" /\ r.x = 1 /\ r.from = 0 /\ Len(r.px) = Len(fb) - 1
  BY <1>9, <1>10, BlankRow
<1>3. a = [i \in 1..Len(fb) |-> IF i \in 2..Len(fb) THEN fb[i - 1] ELSE fb[i]]
  <2> HIDE DEF r
  <2> QED BY <1>1, <1>2 DEF Applied, CopyRect
<1>4. a \in Seq(Nat) /\ Len(a) = Len(fb)
  <2>1. \A i \in 1..Len(fb) : (IF i \in 2..Len(fb) THEN fb[i - 1] ELSE fb[i]) \in Nat
    BY <1>1
  <2> HIDE DEF a
  <2> QED BY <1>1, <1>3, <2>1
<1>5. Applied(a, Raw(0, <<c>>)) = row
  <2> DEFINE q == Raw(0, <<c>>)
  <2>1. q.op = "raw" /\ q.x = 0 /\ q.px = <<c>>
    BY DEF Raw
  <2> HIDE DEF q, a
  <2>2. Applied(a, q) = row
    BY <2>1 DEF Applied
  <2> QED BY <2>2 DEF q
<1>6. sc \in Seq(Nat) /\ Len(sc) = Len(fb) /\ sc = [i \in 1..Len(fb) |-> IF i = 1 THEN c ELSE fb[i - 1]]
  BY <1>1 DEF SceneScrolls
<1> HIDE DEF a, sc
<1>7. \A i \in 1..Len(fb) : row[i] = sc[i]
  BY <1>1, <1>3, <1>4, <1>6
<1>8. row = sc
  <2>1. row = [i \in 1..Len(fb) |-> row[i]] /\ sc = [i \in 1..Len(fb) |-> sc[i]]
    BY <1>4, <1>6
  <2> HIDE DEF row
  <2> QED BY <1>7, <2>1
<1> HIDE DEF row
<1> QED BY <1>1, <1>5, <1>6, <1>8 DEF Rows, a, sc

\* A new size, and all of it.
LEMMA SizeAndAll ==
  ASSUME NEW fb, NEW px \in Seq(Nat)
  PROVE  Applied(Applied(fb, Size(Len(px))), Raw(0, px)) = px
<1> DEFINE r == Size(Len(px))
<1>1. r.op = "size" /\ Len(r.px) = Len(px)
  BY BlankRow DEF Size
<1>2. Applied(fb, r) = Blank(Len(px))
  BY <1>1 DEF Applied
<1>3. Blank(Len(px)) \in Seq(Nat) /\ Len(Blank(Len(px))) = Len(px)
  BY BlankRow
<1> QED BY <1>2, <1>3, RawIsAll

Two(x, y) == <<x, y>>

\* One rectangle more.
LEMMA OneMore ==
  ASSUME NEW b, NEW r \in Seq(Rects), NEW x \in Rects
  PROVE  r \o <<x>> \in Seq(Rects) /\ ReadUpdate(b, r \o <<x>>) = Applied(ReadUpdate(b, r), x)
<1>1. <<x>> \in Seq(Rects)
  OBVIOUS
<1> QED BY <1>1, ConcatProperties, ReadUpdateGrows

\* Two of them.
LEMMA TwoMore ==
  ASSUME NEW b, NEW r \in Seq(Rects), NEW x \in Rects, NEW y \in Rects
  PROVE  r \o Two(x, y) \in Seq(Rects) /\ ReadUpdate(b, r \o Two(x, y)) = Applied(Applied(ReadUpdate(b, r), x), y)
<1>1. <<x>> \in Seq(Rects) /\ <<y>> \in Seq(Rects) /\ <<x, y>> \in Seq(Rects)
  OBVIOUS
<1>2. <<x>> \o <<y>> = <<x, y>>
  <2> DEFINE t == <<x>> \o <<y>>
             u == <<x, y>>
  <2>1. t \in Seq(Rects) /\ Len(t) = 2 /\ t[1] = x /\ t[2] = y
    BY <1>1
  <2>2. u \in Seq(Rects) /\ Len(u) = 2 /\ u[1] = x /\ u[2] = y
    OBVIOUS
  <2> HIDE DEF t, u
  <2>3. t = u
    BY <2>1, <2>2, SeqEqual
  <2> QED BY <2>3 DEF t, u
<1>7. (r \o <<x>>) \o <<y>> = r \o (<<x>> \o <<y>>)
  BY <1>1, ConcatAssociative
<1>3. (r \o <<x>>) \o <<y>> = r \o <<x, y>>
  BY <1>2, <1>7
<1>4. r \o <<x>> \in Seq(Rects) /\ r \o <<x, y>> \in Seq(Rects)
  BY <1>1, ConcatProperties
<1>5. ReadUpdate(b, r \o <<x>>) = Applied(ReadUpdate(b, r), x)
  BY ReadUpdateGrows
<1>6. ReadUpdate(b, (r \o <<x>>) \o <<y>>) = Applied(ReadUpdate(b, r \o <<x>>), y)
  BY <1>4, ReadUpdateGrows
<1> QED BY <1>3, <1>4, <1>5, <1>6 DEF Two

\* Rows are sequences of numbers.
LEMMA RowFacts ==
  ASSUME NEW px \in Rows
  PROVE  px \in Seq(Nat) /\ Len(px) \in Nat /\ Len(px) - 1 \in Nat
<1>1. px \in Seq(Nat) /\ Len(px) \in {2, 3}
  BY DEF Rows
<1>2. Len(px) = 2 \/ Len(px) = 3
  BY <1>1
<1>3. Len(px) \in Nat /\ Len(px) - 1 \in Nat
  BY <1>2
<1> QED BY <1>1, <1>3

\* The screen scrolls: what is read ahead scrolls with it.
LEMMA AheadScrolls ==
  ASSUME NEW b, NEW r \in Seq(Rects), NEW n, n - 1 \in Nat, NEW c \in Nat
  PROVE  /\ r \o <<Copy(1, n - 1, 0), Raw(0, <<c>>)>> \in Seq(Rects)
         /\ ReadUpdate(b, r) \in Rows /\ Len(ReadUpdate(b, r)) = n =>
              ReadUpdate(b, r \o <<Copy(1, n - 1, 0), Raw(0, <<c>>)>>) = SceneScrolls(ReadUpdate(b, r), c)
<1>1. <<c>> \in Seq(Nat)
  OBVIOUS
<1>2. Copy(1, n - 1, 0) \in Rects /\ Raw(0, <<c>>) \in Rects
  BY <1>1, RectFacts
<1> DEFINE x == Copy(1, n - 1, 0)
           y == Raw(0, <<c>>)
           R == ReadUpdate(b, r)
<1>3. R \in Rows /\ Len(R) = n => Applied(Applied(R, x), y) = SceneScrolls(R, c)
  BY CopyScrolls
<1> HIDE DEF x, y
<1>4. r \o Two(x, y) \in Seq(Rects) /\ ReadUpdate(b, r \o Two(x, y)) = Applied(Applied(R, x), y)
  <2>1. x \in Rects /\ y \in Rects
    BY <1>2 DEF x, y
  <2> QED BY <2>1, TwoMore
<1>5. r \o Two(x, y) \in Seq(Rects) /\ (R \in Rows /\ Len(R) = n => ReadUpdate(b, r \o Two(x, y)) = SceneScrolls(R, c))
  BY <1>3, <1>4
<1> QED BY <1>5 DEF x, y, Two

\* A pixel changes.
LEMMA AheadDots ==
  ASSUME NEW b, NEW r \in Seq(Rects), NEW c \in Nat
  PROVE  /\ r \o <<Raw(1, <<c>>)>> \in Seq(Rects)
         /\ ReadUpdate(b, r) \in Rows => ReadUpdate(b, r \o <<Raw(1, <<c>>)>>) = [ReadUpdate(b, r) EXCEPT ![2] = c]
<1>1. <<c>> \in Seq(Nat)
  OBVIOUS
<1>2. Raw(1, <<c>>) \in Rects
  BY <1>1, RectFacts
<1>3. /\ r \o <<Raw(1, <<c>>)>> \in Seq(Rects)
      /\ ReadUpdate(b, r \o <<Raw(1, <<c>>)>>) = Applied(ReadUpdate(b, r), Raw(1, <<c>>))
  <2> DEFINE x == Raw(1, <<c>>)
  <2>1. x \in Rects
    BY <1>2
  <2> HIDE DEF x
  <2>2. r \o <<x>> \in Seq(Rects) /\ ReadUpdate(b, r \o <<x>>) = Applied(ReadUpdate(b, r), x)
    BY <2>1, OneMore
  <2> QED BY <2>2 DEF x
<1> QED BY <1>3, RawIsOne

\* The screen has another size.
LEMMA AheadSizes ==
  ASSUME NEW b, NEW r \in Seq(Rects), NEW q \in Rows
  PROVE  /\ r \o <<Size(Len(q)), Raw(0, q)>> \in Seq(Rects)
         /\ ReadUpdate(b, r \o <<Size(Len(q)), Raw(0, q)>>) = q
<1>1. q \in Seq(Nat) /\ Len(q) \in Nat
  BY RowFacts
<1>2. Size(Len(q)) \in Rects /\ Raw(0, q) \in Rects
  BY <1>1, RectFacts
<1> DEFINE x == Size(Len(q))
           y == Raw(0, q)
           R == ReadUpdate(b, r)
<1>3. Applied(Applied(R, x), y) = q
  BY <1>1, SizeAndAll
<1>6. x \in Rects /\ y \in Rects
  BY <1>2
<1> HIDE DEF x, y
<1>4. r \o Two(x, y) \in Seq(Rects) /\ ReadUpdate(b, r \o Two(x, y)) = Applied(Applied(R, x), y)
  BY <1>6, TwoMore
<1>5. r \o Two(x, y) \in Seq(Rects) /\ ReadUpdate(b, r \o Two(x, y)) = q
  BY <1>3, <1>4
<1> QED BY <1>5 DEF x, y, Two

\* All of it is sent.
LEMMA AheadIsAll ==
  ASSUME NEW b, NEW r \in Seq(Rects), NEW px \in Rows
  PROVE  /\ r \o <<Raw(0, px)>> \in Seq(Rects)
         /\ ReadUpdate(b, r) \in Rows /\ Len(ReadUpdate(b, r)) = Len(px) => ReadUpdate(b, r \o <<Raw(0, px)>>) = px
<1>1. px \in Seq(Nat)
  BY RowFacts
<1>2. Raw(0, px) \in Rects
  BY <1>1, RectFacts
<1>3. r \o <<Raw(0, px)>> \in Seq(Rects) /\ ReadUpdate(b, r \o <<Raw(0, px)>>) = Applied(ReadUpdate(b, r), Raw(0, px))
  <2> DEFINE x == Raw(0, px)
  <2>1. x \in Rects
    BY <1>2
  <2> HIDE DEF x
  <2>2. r \o <<x>> \in Seq(Rects) /\ ReadUpdate(b, r \o <<x>>) = Applied(ReadUpdate(b, r), x)
    BY <2>1, OneMore
  <2> QED BY <2>2 DEF x
<1>4. ReadUpdate(b, r) \in Rows => ReadUpdate(b, r) \in Seq(Nat)
  BY RowFacts
<1> QED BY <1>1, <1>3, <1>4, RawIsAll

(***************************************************************************)
(* The RFB client, action by action.                                       *)
(***************************************************************************)
\* Numbers of the constants.
LEMMA Ticks ==
  /\ Keepalive \in Nat /\ DeadAfter \in Nat /\ AnswersWithin \in Nat /\ Keepalive > 0
  /\ Keepalive + AnswersWithin <= DeadAfter
<1>1. {Buffers, Keepalive, DeadAfter, AnswersWithin} \subseteq Nat \ {0} /\ Keepalive + AnswersWithin <= DeadAfter
  BY SourceAssumption
<1> QED BY <1>1

\* A scene that changes, when what is read ahead changes with it.
LEMMA SceneKeeps ==
  ASSUME RfbInv, NEW q \in Rows, NEW rs \in Seq(Rects),
         server' = [[[server EXCEPT !.px = q] EXCEPT !.scenes = @ + 1] EXCEPT !.rects = rs],
         worker.at = "live" /\ server.up =>
           /\ Ahead(worker.fb, wire, rs) \in Rows /\ Len(Ahead(worker.fb, wire, rs)) = Len(q)
           /\ Ahead(worker.fb, wire, server.rects) = server.px => Ahead(worker.fb, wire, rs) = q,
         UNCHANGED <<wire, worker, shared>>
  PROVE  RfbInv'
<1>1. server \in [px : Rows, up : BOOLEAN, owes : {"none", "inc", "full"}, late : Nat, rects : Seq(Rects), scenes : Nat]
  BY DEF RfbInv, RfbTypes
<1> DEFINE s1 == [server EXCEPT !.px = q]
           s2 == [s1 EXCEPT !.scenes = @ + 1]
<1>2. /\ s1 \in [px : Rows, up : BOOLEAN, owes : {"none", "inc", "full"}, late : Nat, rects : Seq(Rects), scenes : Nat]
      /\ s1.px = q /\ s1.up = server.up /\ s1.owes = server.owes /\ s1.late = server.late
  BY <1>1
<1> HIDE DEF s1
<1>3. /\ s2 \in [px : Rows, up : BOOLEAN, owes : {"none", "inc", "full"}, late : Nat, rects : Seq(Rects), scenes : Nat]
      /\ s2.px = q /\ s2.up = server.up /\ s2.owes = server.owes /\ s2.late = server.late
  BY <1>2
<1>4. server' = [s2 EXCEPT !.rects = rs]
  BY DEF s1
<1> HIDE DEF s2
<1>5. /\ server' \in [px : Rows, up : BOOLEAN, owes : {"none", "inc", "full"}, late : Nat, rects : Seq(Rects), scenes : Nat]
      /\ server'.px = q /\ server'.up = server.up /\ server'.owes = server.owes /\ server'.late = server.late
      /\ server'.rects = rs
  BY <1>3, <1>4
<1>6. wire' = wire /\ worker' = worker /\ shared' = shared
  OBVIOUS
<1>7. RfbTypes' /\ StartIsQuiet' /\ TimeIsKept' /\ ComposedIsTheServers' /\ AliveIsNotGivenUp'
  BY <1>5, <1>6 DEF RfbInv, RfbTypes, StartIsQuiet, TimeIsKept, ComposedIsTheServers, AliveIsNotGivenUp
<1>8. ScreenIsKept'
  BY <1>5, <1>6 DEF RfbInv, ScreenIsKept
<1> QED BY <1>7, <1>8 DEF RfbInv

\* A changed scene.
LEMMA SceneChangesKeeps ==
  ASSUME RfbInv, SceneChanges
  PROVE  RfbInv'
<1> DEFINE r == server.rects
           px == server.px
           b == IF wire = NoUpdate THEN worker.fb ELSE wire[2]
           R == ReadUpdate(b, r)
<1>1. server \in [px : Rows, up : BOOLEAN, owes : {"none", "inc", "full"}, late : Nat, rects : Seq(Rects), scenes : Nat]
  BY DEF RfbInv, RfbTypes
<1>2. r \in Seq(Rects) /\ px \in Rows /\ 7 \in Nat
  BY <1>1
<1>3. \A rs : Ahead(worker.fb, wire, rs) = ReadUpdate(b, rs)
  BY DEF Ahead
<1>4. worker.at = "live" /\ server.up => R \in Rows /\ Len(R) = Len(px)
  BY <1>3 DEF RfbInv, ScreenIsKept
<1>9. Len(px) - 1 \in Nat
  BY <1>2, RowFacts
<1>5. UNCHANGED <<wire, worker, shared>>
  BY DEF SceneChanges
<1>6. CASE server' = [server EXCEPT !.px = SceneScrolls(@, 7), !.scenes = @ + 1,
                                    !.rects = @ \o <<Copy(1, Len(server.px) - 1, 0), Raw(0, <<7>>)>>]
  <2> DEFINE q == SceneScrolls(px, 7)
             rs == r \o <<Copy(1, Len(px) - 1, 0), Raw(0, <<7>>)>>
  <2>1. server' = [[[server EXCEPT !.px = q] EXCEPT !.scenes = @ + 1] EXCEPT !.rects = rs]
    BY <1>1, <1>6
  <2>2. q \in Rows /\ Len(q) = Len(px) /\ rs \in Seq(Rects)
    BY <1>2, <1>9, CopyScrolls, AheadScrolls
  <2>3. ASSUME worker.at = "live" /\ server.up
        PROVE  Ahead(worker.fb, wire, rs) \in Rows /\ Len(Ahead(worker.fb, wire, rs)) = Len(q) /\ (R = px => Ahead(worker.fb, wire, rs) = q)
    <3>1. ReadUpdate(b, rs) = SceneScrolls(R, 7)
      BY <1>2, <1>4, <1>9, <2>3, AheadScrolls
    <3>2. SceneScrolls(R, 7) \in Rows /\ Len(SceneScrolls(R, 7)) = Len(R)
      BY <1>2, <1>4, <2>3, CopyScrolls
    <3> HIDE DEF rs, b, R
    <3> QED BY <1>3, <1>4, <2>2, <2>3, <3>1, <3>2
  <2> HIDE DEF q, rs
  <2> QED BY <1>3, <1>5, <2>1, <2>2, <2>3, SceneKeeps
<1>7. CASE server' = [server EXCEPT !.px = [@ EXCEPT ![2] = 7], !.scenes = @ + 1, !.rects = @ \o <<Raw(1, <<7>>)>>]
  <2> DEFINE q == [px EXCEPT ![2] = 7]
             rs == r \o <<Raw(1, <<7>>)>>
  <2>1. server' = [[[server EXCEPT !.px = q] EXCEPT !.scenes = @ + 1] EXCEPT !.rects = rs]
    BY <1>1, <1>7
  <2>2. q \in Rows /\ Len(q) = Len(px) /\ rs \in Seq(Rects)
    BY <1>2, RawIsOne, AheadDots
  <2>3. ASSUME worker.at = "live" /\ server.up
        PROVE  Ahead(worker.fb, wire, rs) \in Rows /\ Len(Ahead(worker.fb, wire, rs)) = Len(q) /\ (R = px => Ahead(worker.fb, wire, rs) = q)
    <3>1. ReadUpdate(b, rs) = [R EXCEPT ![2] = 7]
      BY <1>2, <1>4, <2>3, AheadDots
    <3>2. [R EXCEPT ![2] = 7] \in Rows /\ Len([R EXCEPT ![2] = 7]) = Len(R)
      BY <1>2, <1>4, <2>3, RawIsOne
    <3> HIDE DEF rs, b, R
    <3> QED BY <1>3, <1>4, <2>2, <2>3, <3>1, <3>2
  <2> HIDE DEF q, rs
  <2> QED BY <1>3, <1>5, <2>1, <2>2, <2>3, SceneKeeps
<1>8. ASSUME NEW q, q = IF Len(server.px) = 3 THEN <<7, 7>> ELSE <<7, 7, 7>>,
             server' = [server EXCEPT !.px = q, !.scenes = @ + 1, !.rects = @ \o <<Size(Len(q)), Raw(0, q)>>]
      PROVE  RfbInv'
  <2> DEFINE rs == r \o <<Size(Len(q)), Raw(0, q)>>
  <2>1. server' = [[[server EXCEPT !.px = q] EXCEPT !.scenes = @ + 1] EXCEPT !.rects = rs]
    BY <1>1, <1>8
  <2>2. q \in Rows
    BY <1>8 DEF Rows
  <2>4. rs \in Seq(Rects)
    BY <1>2, <2>2, AheadSizes
  <2>3. ASSUME worker.at = "live" /\ server.up PROVE Ahead(worker.fb, wire, rs) = q
    <3>1. ReadUpdate(b, rs) = q
      BY <1>2, <2>2, AheadSizes
    <3> HIDE DEF rs, b
    <3> QED BY <1>3, <3>1
  <2> HIDE DEF rs
  <2> QED BY <1>5, <2>1, <2>2, <2>3, <2>4, SceneKeeps
<1> QED BY <1>6, <1>7, <1>8 DEF SceneChanges

Servers == [px : Rows, up : BOOLEAN, owes : {"none", "inc", "full"}, late : Nat, rects : Seq(Rects), scenes : Nat]
Workers == [at : {"start", "live", "ended"}, fb : Seq(Nat), rx : 0..(DeadAfter + 1), req : 0..(DeadAfter + 1)]
Shares ==
  [fresh : BOOLEAN, frame : Seq(Nat), err : {"none", "connect", "stalled", "silent"}, stop : BOOLEAN, as : Seq(Nat)]

\* A request: what is owed, and for how long it has been.
LEMMA AsksForFacts ==
  ASSUME NEW s \in Servers, NEW what \in {"inc", "full"}
  PROVE  /\ AsksFor(s, what) \in Servers
         /\ AsksFor(s, what).px = s.px /\ AsksFor(s, what).up = s.up /\ AsksFor(s, what).rects = s.rects
         /\ AsksFor(s, what).owes = IF s.owes = "full" THEN "full" ELSE what
         /\ AsksFor(s, what).late = IF s.owes = "none" THEN 0 ELSE s.late
<1> DEFINE d == [s EXCEPT !.owes = IF @ = "full" THEN @ ELSE what]
<1>1. AsksFor(s, what) = [d EXCEPT !.late = IF s.owes = "none" THEN 0 ELSE @]
  BY DEF AsksFor
<1>2. /\ d \in Servers /\ d.px = s.px /\ d.up = s.up /\ d.rects = s.rects /\ d.late = s.late
      /\ d.owes = IF s.owes = "full" THEN "full" ELSE what
  BY DEF Servers
<1> HIDE DEF d
<1> QED BY <1>1, <1>2 DEF Servers

\* The server answers.
LEMMA AnswerKeeps ==
  ASSUME RfbInv, Answer
  PROVE  RfbInv'
<1> DEFINE r == server.rects
           px == server.px
           fb == worker.fb
<1>1. /\ server \in Servers /\ server.up /\ wire = NoUpdate /\ worker' = worker /\ shared' = shared
      /\ worker \in Workers /\ shared \in Shares /\ (worker.at = "live" => worker.rx <= DeadAfter)
  BY DEF RfbInv, RfbTypes, Answer, Servers, Workers, Shares
<1>2. r \in Seq(Rects) /\ px \in Rows /\ worker.rx \in Nat /\ worker.req \in Nat /\ server.late \in Nat
  BY <1>1, Ticks DEF Servers, Workers
<1>3. /\ server' \in Servers /\ server'.px = px /\ server'.up /\ server'.owes = "none" /\ server'.late = 0
      /\ server'.rects = NoUpdate
  <2> DEFINE s1 == [server EXCEPT !.owes = "none"]
             s2 == [s1 EXCEPT !.late = 0]
  <2>1. server' = [s2 EXCEPT !.rects = NoUpdate]
    BY DEF Answer
  <2>2. s1 \in Servers /\ s1.px = px /\ s1.up = server.up /\ s1.owes = "none"
    BY <1>1 DEF Servers
  <2> HIDE DEF s1
  <2>3. s2 \in Servers /\ s2.px = px /\ s2.up = server.up /\ s2.owes = "none" /\ s2.late = 0
    BY <2>2 DEF Servers
  <2> HIDE DEF s2
  <2>4. NoUpdate \in Seq(Rects)
    BY DEF NoUpdate
  <2>5. /\ server' \in Servers /\ server'.px = px /\ server'.up = server.up /\ server'.owes = "none" /\ server'.late = 0
        /\ server'.rects = NoUpdate
    BY <2>1, <2>3, <2>4 DEF Servers
  <2> QED BY <1>1, <2>5
<1>4. worker.at = "live" =>
        /\ ReadUpdate(fb, r) \in Rows /\ Len(ReadUpdate(fb, r)) = Len(px)
        /\ server.owes = "full" \/ ReadUpdate(fb, r) = px
  BY <1>1 DEF RfbInv, ScreenIsKept, Ahead
<1>5. \E s \in Seq(Rects) :
        wire' = <<s, px>> /\ server.owes # "none" /\ (worker.at = "live" => ReadUpdate(fb, s) = px)
  <2>1. CASE server.owes = "inc" /\ wire' = <<r, px>>
    BY <1>2, <1>4, <2>1
  <2>2. CASE server.owes = "full" /\ wire' = <<r \o <<Raw(0, px)>>, px>>
    <3> DEFINE s == r \o <<Raw(0, px)>>
    <3>1. s \in Seq(Rects) /\ (worker.at = "live" => ReadUpdate(fb, s) = px)
      BY <1>2, <1>4, AheadIsAll
    <3> HIDE DEF s
    <3> QED BY <2>2, <3>1 DEF s
  <2> QED BY <2>1, <2>2 DEF Answer
<1>6. PICK s \in Seq(Rects) :
        wire' = <<s, px>> /\ server.owes # "none" /\ (worker.at = "live" => ReadUpdate(fb, s) = px)
  BY <1>5
<1>7. wire' \in Seq(Rects) \X Rows /\ wire'[1] = s /\ wire'[2] = px /\ wire' # NoUpdate
  BY <1>2, <1>6 DEF NoUpdate
<1>8. RfbTypes'
  BY <1>1, <1>3, <1>7 DEF RfbTypes, Servers, Workers, Shares
<1>9. worker.at # "start"
  BY <1>6 DEF RfbInv, StartIsQuiet
<1>10. StartIsQuiet' /\ ComposedIsTheServers' /\ AliveIsNotGivenUp'
  BY <1>1, <1>3, <1>9 DEF RfbInv, StartIsQuiet, ComposedIsTheServers, AliveIsNotGivenUp
<1>11. ScreenIsKept'
  <2>1. Ahead(fb, wire', server'.rects) = px
    BY <1>3, <1>7, ReadUpdateEmpty DEF Ahead, NoUpdate
  <2> QED BY <1>1, <1>2, <1>3, <1>6, <1>7, <2>1 DEF ScreenIsKept
<1>12. TimeIsKept'
  <2>1. worker.at = "live" => worker.rx <= Keepalive + AnswersWithin
    BY <1>1, <1>2, <1>6, Ticks DEF RfbInv, TimeIsKept
  <2> QED BY <1>1, <1>3, <1>7, <2>1 DEF TimeIsKept
<1> QED BY <1>8, <1>10, <1>11, <1>12 DEF RfbInv

\* The server goes away.
LEMMA ServerDiesKeeps ==
  ASSUME RfbInv, ServerDies
  PROVE  RfbInv'
<1>1. server \in Servers /\ wire' = wire /\ worker' = worker /\ shared' = shared
  BY DEF RfbInv, RfbTypes, ServerDies, Servers
<1>2. /\ server' \in Servers /\ ~server'.up /\ server'.owes = "none" /\ server'.late = server.late
  <2> DEFINE s1 == [server EXCEPT !.up = FALSE]
  <2>1. server' = [s1 EXCEPT !.owes = "none"]
    BY DEF ServerDies
  <2>2. s1 \in Servers /\ ~s1.up /\ s1.late = server.late
    BY <1>1 DEF Servers
  <2> HIDE DEF s1
  <2> QED BY <2>1, <2>2 DEF Servers
<1>3. RfbTypes'
  BY <1>1, <1>2 DEF RfbInv, RfbTypes, Servers
<1> QED BY <1>1, <1>2, <1>3
        DEF RfbInv, StartIsQuiet, ScreenIsKept, TimeIsKept, ComposedIsTheServers, AliveIsNotGivenUp

\* The session ends, for a reason that is the server's.
LEMMA FailsKeeps ==
  ASSUME RfbInv, NEW why \in {"connect", "stalled"}, Fails(why), ~server.up, server' = server, wire' \in {wire, NoUpdate}
  PROVE  RfbInv'
<1>1. worker \in Workers /\ shared \in Shares
  BY DEF RfbInv, RfbTypes, Workers, Shares
<1>2. worker' \in Workers /\ worker'.at = "ended"
  BY <1>1 DEF Fails, Workers
<1>3. shared' \in Shares /\ shared'.frame = shared.frame /\ shared'.as = shared.as
  BY <1>1 DEF Fails, Shares
<1>4. RfbTypes'
  BY <1>2, <1>3 DEF RfbInv, RfbTypes, Workers, Shares
<1> QED BY <1>2, <1>3, <1>4
        DEF RfbInv, StartIsQuiet, ScreenIsKept, TimeIsKept, ComposedIsTheServers, AliveIsNotGivenUp

\* A session starts with everything asked for.
LEMMA ConnectKeeps ==
  ASSUME RfbInv, Connect
  PROVE  RfbInv'
<1>1. CASE ~server.up /\ Fails("connect") /\ UNCHANGED server
  BY <1>1, FailsKeeps DEF Connect
<1>2. CASE /\ server.up
           /\ worker' = [worker EXCEPT !.at = "live", !.fb = Blank(Len(server.px))]
           /\ server' = [AsksFor(server, "full") EXCEPT !.rects = NoUpdate] /\ UNCHANGED shared
  <2>1. /\ server \in Servers /\ worker \in Workers /\ shared' = shared /\ server.up /\ worker.at = "start"
        /\ wire = NoUpdate /\ wire' = NoUpdate /\ server.owes = "none" /\ worker.rx = 0
    BY <1>2 DEF RfbInv, RfbTypes, StartIsQuiet, Connect, Servers, Workers
  <2> DEFINE b == Blank(Len(server.px))
             a == AsksFor(server, "full")
  <2>2. b \in Rows /\ Len(b) = Len(server.px) /\ b \in Seq(Nat)
    <3>1. server.px \in Rows
      BY <2>1 DEF Servers
    <3>2. Len(server.px) \in Nat /\ Len(server.px) \in {2, 3}
      BY <3>1, RowFacts DEF Rows
    <3> QED BY <3>2, BlankRow DEF Rows
  <2>3. a \in Servers /\ a.px = server.px /\ a.up = server.up /\ a.owes = "full" /\ a.late = 0
    BY <2>1, AsksForFacts
  <2> HIDE DEF b, a
  <2>4. server' = [a EXCEPT !.rects = NoUpdate] /\ NoUpdate \in Seq(Rects)
    BY <1>2 DEF a, NoUpdate
  <2>5. /\ server' \in Servers /\ server'.px = server.px /\ server'.up = server.up /\ server'.owes = "full" /\ server'.late = 0
        /\ server'.rects = NoUpdate
    BY <2>3, <2>4 DEF Servers
  <2>6. worker' = [[worker EXCEPT !.at = "live"] EXCEPT !.fb = b]
    BY <1>2 DEF b
  <2>7. worker' \in Workers /\ worker'.at = "live" /\ worker'.fb = b /\ worker'.rx = 0
    BY <2>1, <2>2, <2>6 DEF Workers
  <2>8. RfbTypes'
    BY <2>1, <2>5, <2>7, Ticks DEF RfbInv, RfbTypes, Servers, Workers
  <2>9. Ahead(worker'.fb, wire', server'.rects) = b
    BY <2>1, <2>5, <2>7, ReadUpdateEmpty DEF Ahead, NoUpdate
  <2>10. ScreenIsKept'
    BY <2>1, <2>2, <2>5, <2>7, <2>9 DEF ScreenIsKept
  <2>11. StartIsQuiet' /\ TimeIsKept' /\ ComposedIsTheServers' /\ AliveIsNotGivenUp'
    BY <2>1, <2>5, <2>7, Ticks DEF RfbInv, StartIsQuiet, TimeIsKept, ComposedIsTheServers, AliveIsNotGivenUp
  <2> QED BY <2>8, <2>10, <2>11 DEF RfbInv
<1> QED BY <1>1, <1>2 DEF Connect

\* An update is read, published and answered.
LEMMA ReceiveKeeps ==
  ASSUME RfbInv, Receive
  PROVE  RfbInv'
<1>1. /\ server \in Servers /\ worker \in Workers /\ shared \in Shares /\ worker.at = "live" /\ wire # NoUpdate
      /\ wire \in Seq(Rects) \X Rows /\ wire' = NoUpdate
  BY DEF RfbInv, RfbTypes, Receive, Servers, Workers, Shares
<1> DEFINE px == wire[2]
<1>2. px \in Rows /\ px \in Seq(Nat) /\ ReadUpdate(worker.fb, wire[1]) = px
  BY <1>1, RowFacts DEF RfbInv, ScreenIsKept
<1> HIDE DEF px
<1>3. worker' \in Workers /\ worker'.at = "live" /\ worker'.fb = px /\ worker'.rx = 0 /\ worker'.req = 0
  <2> DEFINE w1 == [worker EXCEPT !.fb = px]
             w2 == [w1 EXCEPT !.rx = 0]
  <2>1. worker' = [w2 EXCEPT !.req = 0]
    BY <1>2 DEF Receive
  <2>2. w1 \in Workers /\ w1.at = "live" /\ w1.fb = px
    BY <1>1, <1>2 DEF Workers
  <2> HIDE DEF w1
  <2>3. 0 \in 0..(DeadAfter + 1)
    BY Ticks
  <2>4. w2 \in Workers /\ w2.at = "live" /\ w2.fb = px /\ w2.rx = 0
    BY <2>2, <2>3 DEF Workers
  <2> HIDE DEF w2
  <2> QED BY <2>1, <2>3, <2>4 DEF Workers
<1>4. shared' \in Shares /\ shared'.frame = px /\ shared'.as = px /\ shared'.err = shared.err
  <2> DEFINE s1 == [shared EXCEPT !.fresh = TRUE]
             s2 == [s1 EXCEPT !.frame = px]
  <2>1. shared' = [s2 EXCEPT !.as = px]
    BY <1>3 DEF Receive, px
  <2>2. s1 \in Shares /\ s1.err = shared.err
    BY <1>1 DEF Shares
  <2> HIDE DEF s1
  <2>3. s2 \in Shares /\ s2.err = shared.err /\ s2.frame = px
    BY <1>2, <2>2 DEF Shares
  <2> HIDE DEF s2
  <2> QED BY <1>2, <2>1, <2>3 DEF Shares
<1>5. /\ server' \in Servers /\ server'.px = server.px /\ server'.up = server.up /\ server'.rects = server.rects
      /\ server.up => server'.owes = "inc" /\ server'.late = 0
  <2>1. CASE server.up
    <3>1. server' = AsksFor(server, "inc") /\ server.owes = "none"
      BY <1>1, <2>1 DEF Receive, RfbInv, TimeIsKept
    <3> QED BY <1>1, <3>1, AsksForFacts
  <2>2. CASE ~server.up
    BY <1>1, <2>2 DEF Receive
  <2> QED BY <2>1, <2>2
<1>6. RfbTypes'
  BY <1>1, <1>3, <1>4, <1>5, Ticks DEF RfbTypes, Servers, Workers, Shares
<1>7. server.up => Ahead(worker'.fb, wire', server'.rects) = server.px
  <2>1. server.up => ReadUpdate(px, server.rects) = server.px
    BY <1>1 DEF RfbInv, ScreenIsKept, Ahead, px
  <2> QED BY <1>1, <1>3, <1>5, <2>1 DEF Ahead
<1>8. ScreenIsKept'
  <2>1. server.px \in Rows
    BY <1>1 DEF Servers
  <2> QED BY <1>1, <1>3, <1>5, <1>7, <2>1 DEF ScreenIsKept
<1>9. StartIsQuiet' /\ TimeIsKept' /\ ComposedIsTheServers' /\ AliveIsNotGivenUp'
  BY <1>1, <1>3, <1>4, <1>5, Ticks DEF RfbInv, StartIsQuiet, TimeIsKept, ComposedIsTheServers, AliveIsNotGivenUp
<1> QED BY <1>6, <1>8, <1>9 DEF RfbInv

\* One that never ends.
LEMMA TruncatedKeeps ==
  ASSUME RfbInv, Truncated
  PROVE  RfbInv'
  BY FailsKeeps DEF Truncated

\* The capture thread's side.
LEMMA TakesKeep ==
  ASSUME RfbInv, TakeFrame \/ DropBackend
  PROVE  RfbInv'
<1>1. shared \in Shares /\ server' = server /\ wire' = wire /\ worker' = worker
  BY DEF RfbInv, RfbTypes, TakeFrame, DropBackend, Shares
<1>2. shared' \in Shares /\ shared'.frame = shared.frame /\ shared'.as = shared.as /\ shared'.err = shared.err
  BY <1>1 DEF TakeFrame, DropBackend, Shares
<1>3. RfbTypes'
  BY <1>1, <1>2 DEF RfbInv, RfbTypes, Shares
<1> QED BY <1>1, <1>2, <1>3
        DEF RfbInv, StartIsQuiet, ScreenIsKept, TimeIsKept, ComposedIsTheServers, AliveIsNotGivenUp

\* The worker's tick.
LEMMA WorkerTickKeeps ==
  ASSUME RfbInv, WorkerTick
  PROVE  RfbInv'
<1> DEFINE w == [worker EXCEPT !.rx = Capped(@), !.req = Capped(@)]
           s == [server EXCEPT !.late = IF server.owes = "full" THEN @ + 1 ELSE @]
<1>1. /\ server \in Servers /\ worker \in Workers /\ shared \in Shares /\ worker.at = "live" /\ wire' = wire
      /\ worker.rx <= DeadAfter
      /\ server.up => ~(server.owes = "full" /\ server.late >= AnswersWithin) /\ wire = NoUpdate
  BY DEF RfbInv, RfbTypes, WorkerTick, Servers, Workers, Shares
<1>2. worker.rx \in 0..DeadAfter /\ worker.req \in 0..(DeadAfter + 1) /\ server.late \in Nat /\ server.px \in Rows
  BY <1>1, Ticks DEF Workers, Servers
<1>3. /\ w \in Workers /\ w.at = "live" /\ w.fb = worker.fb /\ w.rx = worker.rx + 1 /\ w.req \in 0..(DeadAfter + 1)
      /\ worker.req <= DeadAfter => w.req = worker.req + 1
  <2> DEFINE w1 == [worker EXCEPT !.rx = Capped(@)]
  <2>1. Capped(worker.rx) = worker.rx + 1 /\ worker.rx + 1 \in 0..(DeadAfter + 1)
    BY <1>2, Ticks DEF Capped
  <2>2. /\ Capped(worker.req) \in 0..(DeadAfter + 1)
        /\ worker.req <= DeadAfter => Capped(worker.req) = worker.req + 1
    BY <1>2, Ticks DEF Capped
  <2>3. w1 \in Workers /\ w1.at = "live" /\ w1.fb = worker.fb /\ w1.rx = worker.rx + 1 /\ w1.req = worker.req
    BY <1>1, <2>1 DEF Workers
  <2>4. w = [w1 EXCEPT !.req = Capped(@)]
    OBVIOUS
  <2> HIDE DEF w1, w
  <2>5. w \in Workers /\ w.at = "live" /\ w.fb = worker.fb /\ w.rx = worker.rx + 1 /\ w.req = Capped(worker.req)
    BY <2>2, <2>3, <2>4 DEF Workers
  <2> QED BY <2>2, <2>5
<1>4. /\ s \in Servers /\ s.px = server.px /\ s.up = server.up /\ s.owes = server.owes /\ s.rects = server.rects
      /\ s.late = IF server.owes = "full" THEN server.late + 1 ELSE server.late
  BY <1>1, <1>2 DEF Servers
<1>5. server.up => w.rx <= DeadAfter
  <2> HIDE DEF w
  <2> QED BY <1>1, <1>2, <1>3, Ticks DEF RfbInv, TimeIsKept
<1>6. \/ StopSeen /\ worker' = [w EXCEPT !.at = "ended"] /\ shared' = shared /\ server' = s
      \/ ~StopSeen /\ Silent(w) /\ server' = s /\ worker' = [w EXCEPT !.at = "ended"] /\ shared' = [shared EXCEPT !.err = "silent"]
      \/ /\ ~StopSeen /\ ~Silent(w) /\ shared' = shared
         /\ IF w.req >= Keepalive
            THEN worker' = [w EXCEPT !.req = 0] /\ server' = (IF s.up THEN KeepaliveAsks(s) ELSE s)
            ELSE worker' = w /\ server' = s
  BY DEF WorkerTick
<1> HIDE DEF w, s
<1>7. ASSUME worker' = [w EXCEPT !.at = "ended"], server' = s, shared' \in Shares,
             shared'.frame = shared.frame, shared'.as = shared.as, shared'.err # "none" => ~server.up
      PROVE  RfbInv'
  <2>1. worker' \in Workers /\ worker'.at = "ended"
    BY <1>3, <1>7 DEF Workers
  <2>2. server' \in Servers /\ server'.up = server.up
    BY <1>4, <1>7
  <2>3. RfbTypes'
    BY <1>1, <1>7, <2>1, <2>2 DEF RfbInv, RfbTypes, Servers, Workers, Shares
  <2> QED BY <1>7, <2>1, <2>2, <2>3
          DEF RfbInv, StartIsQuiet, ScreenIsKept, TimeIsKept, ComposedIsTheServers, AliveIsNotGivenUp
<1>8. ASSUME worker' \in Workers, worker'.at = "live", worker'.fb = worker.fb, worker'.rx = worker.rx + 1,
             worker'.rx <= DeadAfter, server' \in Servers, server'.px = server.px, server'.up = server.up,
             server'.rects = server.rects, server'.owes = server.owes \/ server'.owes = "full", shared' = shared,
             TimeIsKept'
      PROVE  RfbInv'
  <2>1. RfbTypes'
    BY <1>1, <1>8 DEF RfbInv, RfbTypes, Servers, Workers, Shares
  <2>2. ScreenIsKept'
    BY <1>1, <1>8 DEF RfbInv, ScreenIsKept
  <2> QED BY <1>1, <1>8, <2>1, <2>2
          DEF RfbInv, StartIsQuiet, ComposedIsTheServers, AliveIsNotGivenUp
<1>9. CASE StopSeen /\ worker' = [w EXCEPT !.at = "ended"] /\ shared' = shared /\ server' = s
  BY <1>1, <1>7, <1>9 DEF RfbInv, AliveIsNotGivenUp
<1>10. CASE Silent(w) /\ server' = s /\ worker' = [w EXCEPT !.at = "ended"] /\ shared' = [shared EXCEPT !.err = "silent"]
  <2>1. ~server.up
    BY <1>2, <1>3, <1>5, <1>10, Ticks DEF Silent
  <2>2. shared' \in Shares /\ shared'.frame = shared.frame /\ shared'.as = shared.as
    BY <1>1, <1>10 DEF Shares
  <2> QED BY <1>7, <1>10, <2>1, <2>2
<1>11. CASE ~Silent(w) /\ shared' = shared /\ w.req >= Keepalive
            /\ worker' = [w EXCEPT !.req = 0] /\ server' = (IF s.up THEN KeepaliveAsks(s) ELSE s)
  <2>1. worker' \in Workers /\ worker'.at = "live" /\ worker'.fb = worker.fb /\ worker'.rx = worker.rx + 1
    <3>1. 0 \in 0..(DeadAfter + 1)
      BY Ticks
    <3>2. worker' = [w EXCEPT !.req = 0]
      BY <1>11
    <3>3. worker' \in Workers /\ worker'.at = w.at /\ worker'.fb = w.fb /\ worker'.rx = w.rx
      BY <1>3, <3>1, <3>2 DEF Workers
    <3> QED BY <1>3, <3>3
  <2>2. worker'.rx <= DeadAfter
    BY <1>2, <1>3, <1>11, <2>1, Ticks DEF Silent
  <2>3. CASE s.up
    <3>1. server' = AsksFor(s, "full")
      BY <1>11, <2>3 DEF KeepaliveAsks
    <3>2. /\ server' \in Servers /\ server'.px = server.px /\ server'.up = server.up /\ server'.rects = server.rects
          /\ server'.owes = "full" /\ server'.late = IF server.owes = "none" THEN 0 ELSE s.late
      BY <1>4, <3>1, AsksForFacts
    <3>3. TimeIsKept'
      BY <1>1, <1>2, <1>4, <2>1, <2>3, <3>2, Ticks DEF RfbInv, TimeIsKept
    <3> QED BY <1>8, <1>11, <2>1, <2>2, <3>2, <3>3
  <2>4. CASE ~s.up
    <3>1. server' = s
      BY <1>11, <2>4
    <3>2. TimeIsKept'
      BY <2>4, <3>1 DEF TimeIsKept
    <3> QED BY <1>4, <1>8, <1>11, <2>1, <2>2, <3>1, <3>2
  <2> QED BY <2>3, <2>4
<1>12. CASE ~Silent(w) /\ shared' = shared /\ ~(w.req >= Keepalive) /\ worker' = w /\ server' = s
  <2>1. worker'.rx <= DeadAfter
    BY <1>2, <1>3, <1>12, Ticks DEF Silent
  <2>2. TimeIsKept'
    BY <1>1, <1>2, <1>3, <1>4, <1>12, Ticks DEF RfbInv, TimeIsKept
  <2> QED BY <1>3, <1>4, <1>8, <1>12, <2>1, <2>2
<1> QED BY <1>6, <1>9, <1>10, <1>11, <1>12

\* Every step of the client and its server.
LEMMA RfbStep ==
  ASSUME RfbInv, RfbNext
  PROVE  RfbInv'
  BY SceneChangesKeeps, AnswerKeeps, ServerDiesKeeps, ConnectKeeps, ReceiveKeeps, TruncatedKeeps, WorkerTickKeeps,
     TakesKeep DEF RfbNext

(***************************************************************************)
(* The sources together.                                                   *)
(***************************************************************************)
SourceInv == pick.devices \in Devices /\ ProbeInv /\ DrainInv /\ RfbInv

\* Where they begin.
LEMMA SourceStarts ==
  ASSUME SourceInit
  PROVE  SourceInv
<1>1. pick.devices \in Devices
  BY DEF SourceInit, PickInit
<1>2. ProbeInv
  <2>1. /\ probe \in [bench : Benches, at : {1}, tried : {{}}, allocated : {0}, opened : {"none"}, waits : {0}, done : {FALSE}]
        /\ Len(Ladder) \in Nat
    BY SourceAssumption DEF SourceInit, ProbeInit
  <2>2. /\ probe.bench \in Benches /\ probe.at = 1 /\ probe.tried = {} /\ probe.allocated = 0 /\ probe.waits = 0
        /\ probe.done = FALSE
        /\ probe \in [bench : {probe.bench}, at : {probe.at}, tried : {probe.tried}, allocated : {probe.allocated},
                      opened : {probe.opened}, waits : {probe.waits}, done : {probe.done}]
    BY <2>1
  <2> DEFINE b == probe.bench
  <2>3. b.sets \subseteq 1..Len(Ladder) /\ Rungs(b) \subseteq b.sets /\ Good(b) \subseteq Rungs(b)
    BY <2>2, BenchFacts
  <2> HIDE DEF b
  <2>4. \A i \in b.sets : ~(i < 1) /\ 1 <= i
    BY <2>1, <2>3
  <2>5. Below(b, b.sets, 1) = {} /\ Below(b, Rungs(b), 1) = {}
    BY <2>3, <2>4 DEF Below
  <2>6. Walked(b, probe)
    BY <2>2, <2>3, <2>4, <2>5 DEF Walked
  <2>7. Cardinality(Waited(b, 1)) = 0
    BY <2>5, FS_EmptySet DEF Waited
  <2>8. probe.at \in 1..(Len(Ladder) + 1)
    BY <2>1, <2>2
  <2>9. probe.done \in BOOLEAN /\ ~probe.done
    BY <2>2
  <2>10. Walked(probe.bench, probe)
    BY <2>6 DEF b
  <2>11. probe.waits = Cardinality(Waited(probe.bench, probe.at))
    BY <2>2, <2>7 DEF b
  <2> QED BY <2>2, <2>8, <2>9, <2>10, <2>11 DEF ProbeInv
<1>3. DrainInv
  <2>1. drain \in [stale : 0..Buffers, skipped : {0}, stamps : BOOLEAN, served : {"none"}] /\ Buffers \in Nat
    BY SourceAssumption DEF SourceInit, DrainInit
  <2> QED BY <2>1 DEF DrainInv
<1>4. RfbInv
  <2>1. RfbInit
    BY DEF SourceInit
  <2>2. <<1, 2, 3>> \in Rows /\ NoUpdate \in Seq(Rects) /\ << >> \in Seq(Nat)
    BY DEF Rows, NoUpdate
  <2>3. RfbTypes
    BY <2>1, <2>2, Ticks DEF RfbInit, RfbTypes
  <2> QED BY <2>1, <2>3
          DEF RfbInit, RfbInv, StartIsQuiet, ScreenIsKept, TimeIsKept, ComposedIsTheServers, AliveIsNotGivenUp
<1> QED BY <1>1, <1>2, <1>3, <1>4 DEF SourceInv

\* Every step keeps it.
LEMMA SourceStep ==
  ASSUME SourceInv, [SourceNext]_<<pick, probe, drain, rfbVars>>
  PROVE  SourceInv'
<1>1. ASSUME UNCHANGED pick PROVE (pick.devices \in Devices)'
  BY <1>1 DEF SourceInv
<1>2. ASSUME UNCHANGED probe PROVE ProbeInv'
  BY <1>2 DEF SourceInv, ProbeInv
<1>3. ASSUME UNCHANGED drain PROVE DrainInv'
  BY <1>3 DEF SourceInv, DrainInv
<1>4. ASSUME UNCHANGED rfbVars PROVE RfbInv'
  BY <1>4 DEF SourceInv, RfbInv, RfbTypes, StartIsQuiet, ScreenIsKept, TimeIsKept, ComposedIsTheServers, AliveIsNotGivenUp,
       rfbVars
<1>5. CASE ProbeNext /\ UNCHANGED <<pick, drain, rfbVars>>
  BY <1>1, <1>3, <1>4, <1>5, ProbeStep DEF SourceInv
<1>6. CASE DrainNext /\ UNCHANGED <<pick, probe, rfbVars>>
  BY <1>1, <1>2, <1>4, <1>6, DrainStep DEF SourceInv
<1>7. CASE RfbNext /\ UNCHANGED <<pick, probe, drain>>
  BY <1>1, <1>2, <1>3, <1>7, RfbStep DEF SourceInv
<1>8. CASE UNCHANGED <<pick, probe, drain, rfbVars>>
  BY <1>1, <1>2, <1>3, <1>4, <1>8 DEF SourceInv
<1> QED BY <1>5, <1>6, <1>7, <1>8 DEF SourceNext

\* What they keep is what is asked of them.
LEMMA SourceInvIsTrue ==
  ASSUME SourceInv
  PROVE  SourceIsTrue
<1>1. NamedIsNotSwapped
  BY NameIsKept DEF SourceInv
<1>2. OpensTheBest /\ probe.at \in 1..(Len(Ladder) + 1)
  BY ProbeIsBest DEF SourceInv
<1>3. ServesFresh /\ drain.skipped \in 0..Buffers
  BY DEF SourceInv, DrainInv, ServesFresh
<1>4. RfbTypes /\ ComposedIsTheServers /\ AliveIsNotGivenUp
  BY DEF SourceInv, RfbInv
<1>5. SourceTypeOK
  BY <1>2, <1>3, <1>4, Ticks DEF RfbTypes, SourceTypeOK
<1> QED BY <1>1, <1>2, <1>3, <1>4, <1>5 DEF SourceIsTrue

\* The walk over the ladder has tried what lies above it and nothing better streams; a queue
\* holds no more stale buffers than may be skipped; what the RFB worker reads is the server's
\* screen; and a server that is up has not been silent longer than it may be.
THEOREM SourceInvariant == SourceSpec => []SourceInv
<1>1. SourceInit => SourceInv
  BY SourceStarts
<1>2. SourceInv /\ [SourceNext]_<<pick, probe, drain, rfbVars>> => SourceInv'
  BY SourceStep
<1> QED BY <1>1, <1>2, PTL DEF SourceSpec

\* SourceIsTrue holds for any devices, names, ladder and bench, any number of buffers and any
\* timeouts that leave a server the time to answer (resolve_in, open, next_frame, session).
THEOREM SourceAlwaysTrue == SourceSpec => []SourceIsTrue
<1>1. SourceInv => SourceIsTrue
  BY SourceInvIsTrue
<1> QED BY <1>1, SourceInvariant, PTL

-----------------------------------------------------------------------------
(***************************************************************************)
(* What one RFB viewer has been sent, and the slots viewers take.          *)
(*                                                                         *)
(* LastIsHeld: a frame key is remembered only when all of that frame was   *)
(* compared, so the viewer holds the whole of a picture that has this key; *)
(* an incremental request may wait on the key alone.  AskedInv: an update  *)
(* is owed to a request of its own.                                        *)
(***************************************************************************)
IsFb(fb) ==
  /\ fb \in [w : Nat, sent : {fb.sent}, known : {fb.known}]
  /\ DOMAIN fb.sent = 1..fb.w /\ fb.known \in [Tiles(fb.w) -> BOOLEAN]
ViewRec(v) ==
  /\ v \in [fb : {v.fb}, pending : Asks \cup {NoReq}, last : {v.last}, seen : Nat, desktop : BOOLEAN, open : BOOLEAN,
            asks : Nat, answers : Nat]
  /\ IsFb(v.fb)
IsShown(f) == f.id \in Nat /\ \E s \in Screens : f.px = s.px /\ f.hash = s.hash

\* What a session knows its viewer to hold, e, in its framebuffer fb.
KnownIs(fb, e) == \A t \in DOMAIN fb.known : fb.known[t] => \A i \in CellsOf(t, fb.w) : e[i] = fb.sent[i]
LastIsHeld(v, e) ==
  \/ v.last = << >>
  \/ \E h : v.last = <<h, 0>>
  \/ \E s \in Screens : s.px = e /\ v.last = FrameKey(s)
AskedInv(v) == v.answers <= v.asks /\ v.asks <= MaxAsks /\ (v.pending # NoReq => v.answers < v.asks)
Waits(v, f) == v.open /\ v.pending.inc /\ v.seen = f.id /\ f.px # << >> /\ Clip(v.fb, v.pending) = 1..v.fb.w
IsCurrent(e, f) == \E s \in Screens : s.px = e /\ s.hash = f.hash

\* A session v whose viewer holds e while f is shown.
SessionInv(v, e, f) ==
  /\ ViewRec(v) /\ v.seen <= f.id
  /\ e \in Seq(Int) /\ Len(e) = v.fb.w
  /\ KnownIs(v.fb, e)
  /\ LastIsHeld(v, e)
  /\ AskedInv(v)
ViewInv ==
  /\ IsShown(shown)
  /\ SessionInv(view, eye, shown)
  /\ Waits(view, shown) => IsCurrent(eye, shown)

LEMMA ViewTypes ==
  /\ Tile \in Nat \ {0} /\ MaxClients \in Nat \ {0} /\ MaxAsks \in Nat /\ IsFiniteSet(Watchers)
  /\ \A s \in Screens : s.px \in Seq(Nat)
  /\ Asks \subseteq [inc : BOOLEAN, x : Nat, w : Nat]
BY ViewAssumption

-----------------------------------------------------------------------------
\* Every pixel lies in one of the tiles.
LEMMA TileOfCell ==
  ASSUME NEW w \in Nat, NEW i \in 1..w
  PROVE  (i - 1) \div Tile \in Tiles(w) /\ i \in CellsOf((i - 1) \div Tile, w)
<1> DEFINE T == Tile
           a == i - 1
           q == a \div T
           p == (w + T - 1) \div T
<1>1. T \in Nat \ {0} /\ a \in Nat /\ a <= w - 1 /\ w + T - 1 \in Nat
  BY ViewTypes
<1>2. q \in Nat /\ T * q <= a /\ p \in Int
  <2> HIDE DEF a, T
  <2> QED BY <1>1
<1>3. w + T - 1 < T * (p + 1) /\ p \in Int
  <2> DEFINE b == w + T - 1
  <2>1. b \in Nat BY <1>1
  <2> HIDE DEF b, T
  <2>2. b < T * ((b \div T) + 1)
    BY <1>1, <2>1
  <2> QED BY <2>2, <1>2 DEF b
<1>4. T * q < T * p
  <2>1. T * (p + 1) = T * p + T
    <3> HIDE DEF p, T
    <3> QED BY <1>1, <1>2
  <2>2. T * p \in Int /\ T * q \in Int
    <3> HIDE DEF p, q, T
    <3> QED BY <1>1, <1>2
  <2> HIDE DEF a, T, p, q
  <2> QED BY <1>1, <1>2, <1>3, <2>1, <2>2
<1>5. q < p
  <2> HIDE DEF p, q, T
  <2>1. CASE q >= p
    <3>1. T * q >= T * p BY <1>1, <1>2, <2>1
    <3>2. T * p \in Int /\ T * q \in Int BY <1>1, <1>2
    <3> QED BY <3>1, <3>2, <1>4
  <2> QED BY <2>1, <1>2
<1>6. q \in 0..(p - 1)
  <2> HIDE DEF p, q
  <2> QED BY <1>2, <1>5
<1> QED BY <1>6 DEF Tiles, CellsOf

\* What is compared and sent keeps the session's knowledge of the viewer right.
Sent(fb, px, cells, e) == [i \in 1..fb.w |-> IF i \in cells THEN px[i] ELSE e[i]]
LEMMA CommitKnows ==
  ASSUME NEW fb, IsFb(fb), NEW px, NEW cells, NEW e, KnownIs(fb, e)
  PROVE  /\ IsFb(Commit(fb, px, cells)) /\ Commit(fb, px, cells).w = fb.w
         /\ KnownIs(Commit(fb, px, cells), Sent(fb, px, cells, e))
<1> DEFINE s == [i \in 1..fb.w |-> IF i \in cells THEN px[i] ELSE fb.sent[i]]
           k == [t \in Tiles(fb.w) |-> fb.known[t] \/ CellsOf(t, fb.w) \subseteq cells]
           c == Commit(fb, px, cells)
<1>1. c = [w |-> fb.w, sent |-> s, known |-> k]
  <2> DEFINE d == [fb EXCEPT !.sent = s]
  <2> HIDE DEF s, k
  <2>1. d = [w |-> fb.w, sent |-> s, known |-> fb.known]
    BY DEF IsFb
  <2>2. [fb EXCEPT !.sent = s, !.known = k] = [d EXCEPT !.known = k]
    OBVIOUS
  <2> HIDE DEF d
  <2>3. [d EXCEPT !.known = k] = [w |-> fb.w, sent |-> s, known |-> k]
    BY <2>1
  <2> QED BY <2>2, <2>3 DEF Commit, s, k
<1>2. c.w = fb.w /\ c.sent = s /\ c.known = k
  BY <1>1
<1>3. fb.w \in Nat /\ fb.known \in [Tiles(fb.w) -> BOOLEAN]
  BY DEF IsFb
<1>4. k \in [Tiles(fb.w) -> BOOLEAN] /\ DOMAIN s = 1..fb.w
  BY <1>3
<1>5. IsFb(c)
  <2> HIDE DEF s, k
  <2> QED BY <1>1, <1>3, <1>4 DEF IsFb
<1>6. ASSUME NEW t \in Tiles(fb.w), k[t], NEW i \in CellsOf(t, fb.w)
      PROVE  Sent(fb, px, cells, e)[i] = s[i]
  <2>1. i \in 1..fb.w BY DEF CellsOf
  <2>2. fb.known[t] \/ i \in cells BY <1>6
  <2>3. fb.known[t] => e[i] = fb.sent[i]
    BY <1>3 DEF KnownIs
  <2> QED BY <2>1, <2>2, <2>3 DEF Sent
<1>7. KnownIs(c, Sent(fb, px, cells, e))
  <2> HIDE DEF s, c
  <2>1. DOMAIN c.known = Tiles(fb.w) BY <1>2
  <2> HIDE DEF k
  <2> QED BY <1>2, <1>6, <2>1 DEF KnownIs
<1> QED BY <1>2, <1>5, <1>7

LEMMA IsSeq ==
  ASSUME NEW n \in Nat, NEW S, NEW g \in [1..n -> S]
  PROVE  g \in Seq(S) /\ Len(g) = n
<1>1. g \in Seq(S)
  BY SeqDef
<1> QED BY <1>1, LenProperties

\* When everything was compared, the viewer holds all of it.
LEMMA CoversAll ==
  ASSUME NEW fb, IsFb(fb), NEW px, px \in Seq(Nat), Len(px) = fb.w, NEW e, KnownIs(fb, e), NEW ev \in BOOLEAN
  PROVE  Sent(fb, px, Dirty(fb, px, 1..fb.w, ev), e) = px
<1> DEFINE cells == Dirty(fb, px, 1..fb.w, ev)
           D == { u \in Tiles(fb.w) : ev \/ ~fb.known[u] \/ \E i \in Region(fb, u, 1..fb.w) : px[i] # fb.sent[i] }
<1>1. fb.w \in Nat /\ fb.known \in [Tiles(fb.w) -> BOOLEAN]
  BY DEF IsFb
<1>2. cells = UNION { Region(fb, t, 1..fb.w) : t \in D }
  BY DEF Dirty
<1>3. ASSUME NEW i \in 1..fb.w, i \notin cells PROVE e[i] = px[i]
  <2> DEFINE t == (i - 1) \div Tile
  <2>1. t \in Tiles(fb.w) /\ i \in CellsOf(t, fb.w)
    BY TileOfCell, <1>1
  <2> HIDE DEF t
  <2>2. i \in Region(fb, t, 1..fb.w)
    BY <2>1 DEF Region
  <2> HIDE DEF D, cells
  <2>3. t \notin D
    BY <1>2, <1>3, <2>2
  <2>4. fb.known[t] /\ px[i] = fb.sent[i]
    BY <2>1, <2>2, <2>3 DEF D
  <2> QED BY <2>1, <2>4, <1>1 DEF KnownIs
<1>4. Sent(fb, px, cells, e) = [i \in 1..fb.w |-> px[i]]
  <2> HIDE DEF cells
  <2> QED BY <1>3 DEF Sent
<1>5. px = [i \in 1..fb.w |-> px[i]]
  BY <1>1
<1> QED BY <1>4, <1>5
-----------------------------------------------------------------------------
\* Fields of a session that an update sets.
LEMMA UpdateFields ==
  ASSUME NEW v, ViewRec(v), NEW a, NEW b, NEW c, NEW d
  PROVE  [v EXCEPT !.fb = a, !.last = b, !.pending = c, !.answers = d] =
         [fb |-> a, pending |-> c, last |-> b, seen |-> v.seen, desktop |-> v.desktop, open |-> v.open,
          asks |-> v.asks, answers |-> d]
<1> DEFINE v1 == [v EXCEPT !.fb = a]
           v2 == [v1 EXCEPT !.last = b]
           v3 == [v2 EXCEPT !.pending = c]
           R(x, y, z) == [fb |-> a, pending |-> x, last |-> y, seen |-> v.seen, desktop |-> v.desktop,
                          open |-> v.open, asks |-> v.asks, answers |-> z]
<1>1. v1 = R(v.pending, v.last, v.answers)
  BY DEF ViewRec
<1> HIDE DEF v1
<1>2. v2 = R(v.pending, b, v.answers)
  BY <1>1
<1> HIDE DEF v2
<1>3. v3 = R(c, b, v.answers)
  BY <1>2
<1> HIDE DEF v3
<1>4. [v3 EXCEPT !.answers = d] = R(c, b, d)
  BY <1>3
<1> HIDE DEF R
<1>5. [v EXCEPT !.fb = a, !.last = b, !.pending = c, !.answers = d] = [v3 EXCEPT !.answers = d]
  BY DEF v1, v2, v3
<1> QED BY <1>4, <1>5 DEF R

LEMMA SeenFields ==
  ASSUME NEW v, ViewRec(v), NEW n
  PROVE  [v EXCEPT !.seen = n] =
         [fb |-> v.fb, pending |-> v.pending, last |-> v.last, seen |-> n, desktop |-> v.desktop, open |-> v.open,
          asks |-> v.asks, answers |-> v.answers]
BY DEF ViewRec

LEMMA ClosedFields ==
  ASSUME NEW v, ViewRec(v), NEW b
  PROVE  [v EXCEPT !.open = b] =
         [fb |-> v.fb, pending |-> v.pending, last |-> v.last, seen |-> v.seen, desktop |-> v.desktop, open |-> b,
          asks |-> v.asks, answers |-> v.answers]
BY DEF ViewRec

LEMMA AskFields ==
  ASSUME NEW v, ViewRec(v), NEW r
  PROVE  [v EXCEPT !.pending = r, !.asks = @ + 1] =
         [fb |-> v.fb, pending |-> r, last |-> v.last, seen |-> v.seen, desktop |-> v.desktop, open |-> v.open,
          asks |-> v.asks + 1, answers |-> v.answers]
<1> DEFINE v1 == [v EXCEPT !.pending = r]
           R(n) == [fb |-> v.fb, pending |-> r, last |-> v.last, seen |-> v.seen, desktop |-> v.desktop,
                    open |-> v.open, asks |-> n, answers |-> v.answers]
<1>1. v1 = R(v.asks)
  BY DEF ViewRec
<1>2. [v EXCEPT !.pending = r, !.asks = @ + 1] = [v1 EXCEPT !.asks = v.asks + 1]
  OBVIOUS
<1> HIDE DEF v1
<1>3. [v1 EXCEPT !.asks = v.asks + 1] = R(v.asks + 1)
  BY <1>1
<1> QED BY <1>2, <1>3

\* The framebuffer an update works on, and what the viewer holds of it.
LEMMA FbForIs ==
  ASSUME NEW v, NEW e, NEW f, SessionInv(v, e, f), NEW px, px \in Seq(Nat)
  PROVE  LET fb == FbFor(v, px)
             held == [i \in 1..fb.w |-> IF Resized(v, px) THEN -1 ELSE e[i]]
         IN IsFb(fb) /\ fb.w = Len(px) /\ KnownIs(fb, held)
<1> DEFINE fb == FbFor(v, px)
           held == [i \in 1..fb.w |-> IF Resized(v, px) THEN -1 ELSE e[i]]
           n == Len(px)
<1>1. n \in Nat
  OBVIOUS
<1>2. CASE Resized(v, px)
  <2>1. fb = [w |-> n, sent |-> Black(n), known |-> [t \in Tiles(n) |-> FALSE]]
    BY <1>2 DEF FbFor, ClientFb
  <2>2. DOMAIN Black(n) = 1..n
    BY DEF Black
  <2>3. [t \in Tiles(n) |-> FALSE] \in [Tiles(n) -> BOOLEAN]
    OBVIOUS
  <2>4. fb.w = n /\ fb.sent = Black(n) /\ fb.known = [t \in Tiles(n) |-> FALSE]
    BY <2>1
  <2> HIDE DEF fb, n, held
  <2>5. IsFb(fb)
    BY <1>1, <2>1, <2>2, <2>3, <2>4 DEF IsFb
  <2>6. KnownIs(fb, held)
    BY <2>4 DEF KnownIs
  <2> QED BY <2>4, <2>5, <2>6 DEF fb, held, n
<1>3. CASE ~Resized(v, px)
  <2>1. fb = v.fb /\ fb.w = n
    BY <1>3 DEF FbFor, Resized
  <2>2. IsFb(fb) /\ KnownIs(fb, e)
    BY <2>1 DEF SessionInv, ViewRec
  <2>3. held = [i \in 1..fb.w |-> e[i]]
    BY <1>3
  <2> HIDE DEF fb, n, held
  <2>4. KnownIs(fb, held)
    BY <2>2, <2>3 DEF KnownIs, CellsOf
  <2> QED BY <2>1, <2>2, <2>4 DEF fb, held, n
<1> QED BY <1>2, <1>3

\* An update keeps the session right; what remains of its request waits only on what is held.
LEMMA UpdateKeeps ==
  ASSUME NEW v, IsShown(shown), SessionInv(v, eye, shown), v.seen = shown.id, v.pending \in Asks,
         NEW px, px \in Seq(Nat), shown.px = << >> \/ px = shown.px, Update(v, px)
  PROVE  SessionInv(view', eye', shown) /\ (Waits(view', shown) => IsCurrent(eye', shown))
<1> DEFINE fb == FbFor(v, px)
           held == [i \in 1..fb.w |-> IF Resized(v, px) THEN -1 ELSE eye[i]]
           rq == Refill(v, px)
           clip == Clip(fb, rq)
           cells == Dirty(fb, px, clip, ~rq.inc)
           sends == cells # {} \/ Resized(v, px)
           last == LastDiffed(shown, clip = 1..fb.w)
           pending == AfterSend(v.pending, sends)
           answers == v.answers + (IF sends THEN 1 ELSE 0)
           c == Commit(fb, px, cells)
<1>1. IsFb(fb) /\ fb.w = Len(px) /\ KnownIs(fb, held)
  BY FbForIs
<1>2. view' = [fb |-> c, pending |-> pending, last |-> last, seen |-> v.seen, desktop |-> v.desktop,
               open |-> v.open, asks |-> v.asks, answers |-> answers]
  <2>1. view' = [v EXCEPT !.fb = c, !.last = last, !.pending = pending, !.answers = answers]
    BY DEF Update
  <2>2. ViewRec(v) BY DEF SessionInv
  <2> HIDE DEF c, last, pending, answers
  <2> QED BY <2>1, <2>2, UpdateFields
<1>3. eye' = Sent(fb, px, cells, held)
  <2>1. eye' = [i \in 1..fb.w |-> IF i \in cells THEN px[i] ELSE IF Resized(v, px) THEN -1 ELSE eye[i]]
    BY DEF Update
  <2> HIDE DEF fb, cells
  <2> QED BY <2>1 DEF Sent
<1>4. IsFb(c) /\ c.w = fb.w /\ KnownIs(c, eye')
  <2> HIDE DEF fb, held, cells
  <2> QED BY <1>1, <1>3, CommitKnows
<1>5. rq.inc \in BOOLEAN /\ pending \in Asks \cup {NoReq} /\ (sends => pending = NoReq) /\ (~sends => pending = v.pending)
  BY ViewTypes DEF Refill, AfterSend
<1>6. eye' \in Seq(Int) /\ Len(eye') = fb.w
  <2>1. \A i \in 1..fb.w : px[i] \in Int
    BY <1>1
  <2>2. \A i \in 1..fb.w : held[i] \in Int
    <3>1. CASE Resized(v, px) BY <3>1
    <3>2. CASE ~Resized(v, px)
      <4>1. fb.w = Len(eye) /\ eye \in Seq(Int)
        BY <3>2 DEF FbFor, SessionInv
      <4> QED BY <3>2, <4>1
    <3> QED BY <3>1, <3>2
  <2>3. fb.w \in Nat BY <1>1
  <2> HIDE DEF fb, held, cells
  <2>4. eye' = [i \in 1..fb.w |-> IF i \in cells THEN px[i] ELSE held[i]]
    BY <1>3 DEF Sent
  <2>5. eye' \in [1..fb.w -> Int]
    BY <2>1, <2>2, <2>4
  <2> QED BY ONLY <2>3, <2>5, IsSeq
<1>7. clip = 1..fb.w => eye' = px
  <2> HIDE DEF fb, held, clip
  <2> SUFFICES ASSUME clip = 1..fb.w PROVE eye' = px
    OBVIOUS
  <2>1. cells = Dirty(fb, px, 1..fb.w, ~rq.inc) /\ (~rq.inc) \in BOOLEAN
    BY <1>5
  <2> DEFINE ev == ~rq.inc
  <2>2. Sent(fb, px, Dirty(fb, px, 1..fb.w, ev), held) = px
    <3>1. ev \in BOOLEAN BY <2>1
    <3> HIDE DEF ev
    <3> QED BY <1>1, <3>1, CoversAll
  <2>3. cells = Dirty(fb, px, 1..fb.w, ev) BY <2>1
  <2> HIDE DEF cells, ev
  <2> QED BY <1>3, <2>2, <2>3
<1>8. LastIsHeld(view', eye')
  <2>1. view'.last = last BY <1>2
  <2>2. CASE clip # 1..fb.w
    BY <2>1, <2>2 DEF LastDiffed, LastIsHeld
  <2>3. CASE clip = 1..fb.w /\ shown.px = << >>
    <3>1. last = <<shown.hash, 0>>
      BY <2>3 DEF LastDiffed, FrameKey
    <3> QED BY <2>1, <3>1 DEF LastIsHeld
  <2>4. CASE clip = 1..fb.w /\ shown.px # << >>
    <3>1. last = <<shown.hash, Len(shown.px)>> /\ eye' = shown.px
      BY <1>7, <2>4 DEF LastDiffed, FrameKey
    <3>2. PICK s \in Screens : shown.px = s.px /\ shown.hash = s.hash
      BY DEF IsShown
    <3>3. s.px = eye' /\ view'.last = FrameKey(s)
      BY <2>1, <3>1, <3>2 DEF FrameKey
    <3> QED BY <3>3 DEF LastIsHeld
  <2> QED BY <2>2, <2>3, <2>4
<1>9. AskedInv(view')
  <2>1. v.pending # NoReq
    BY ViewTypes DEF NoReq
  <2>2. v.answers \in Nat /\ v.asks \in Nat /\ v.answers < v.asks /\ v.asks <= MaxAsks
    BY <2>1 DEF SessionInv, ViewRec, AskedInv
  <2>3. view'.answers = answers /\ view'.asks = v.asks /\ view'.pending = pending
    BY <1>2
  <2> HIDE DEF sends, pending
  <2> QED BY <1>5, <2>2, <2>3, ViewTypes DEF AskedInv
<1>10. ViewRec(view')
  <2>1. v.seen \in Nat /\ v.desktop \in BOOLEAN /\ v.open \in BOOLEAN /\ v.asks \in Nat /\ v.answers \in Nat
    BY DEF SessionInv, ViewRec
  <2>2. answers \in Nat
    <3> HIDE DEF sends
    <3> QED BY <2>1
  <2>3. view'.fb = c /\ view'.last = last
    BY <1>2
  <2> HIDE DEF c, last, pending, answers
  <2> QED BY <1>2, <1>4, <1>5, <2>1, <2>2, <2>3 DEF ViewRec
<1>11. Waits(view', shown) => IsCurrent(eye', shown)
  <2> SUFFICES ASSUME Waits(view', shown) PROVE IsCurrent(eye', shown)
    OBVIOUS
  <2>1. view'.pending = pending /\ view'.fb = c
    BY <1>2
  <2>2. pending.inc /\ shown.px # << >> /\ Clip(c, pending) = 1..c.w
    <3> HIDE DEF c, pending
    <3> QED BY <2>1 DEF Waits
  <2>3. ~sends /\ pending = v.pending
    <3> HIDE DEF sends, pending
    <3> QED BY <1>5, <2>2 DEF NoReq
  <2>4. ~Resized(v, px) /\ rq = v.pending
    BY <2>3 DEF Refill
  <2>5. clip = 1..fb.w
    <3> HIDE DEF c, fb, pending, rq
    <3> QED BY <1>4, <2>2, <2>3, <2>4 DEF Clip
  <2>6. eye' = shown.px
    BY <1>7, <2>5, <2>2
  <2> QED BY <2>6 DEF IsShown, IsCurrent
<1>12. view'.seen = v.seen /\ view'.fb = c
  BY <1>2
<1> HIDE DEF c, fb
<1> QED BY <1>4, <1>6, <1>8, <1>9, <1>10, <1>11, <1>12 DEF SessionInv

\* A request tried against the warm frame.
LEMMA TryKeeps ==
  ASSUME NEW v, IsShown(shown), SessionInv(v, eye, shown), v.pending \in Asks, TryUpdate(v)
  PROVE  SessionInv(view', eye', shown) /\ (Waits(view', shown) => IsCurrent(eye', shown))
<1> DEFINE w == [v EXCEPT !.seen = shown.id]
           unmoved == v.pending.inc /\ v.last = FrameKey(shown)
           px == IF shown.px = << >> THEN Black(v.fb.w) ELSE shown.px
<1>1. w = [fb |-> v.fb, pending |-> v.pending, last |-> v.last, seen |-> shown.id, desktop |-> v.desktop,
           open |-> v.open, asks |-> v.asks, answers |-> v.answers]
  BY SeenFields DEF SessionInv
<1>2. /\ w.fb = v.fb /\ w.pending = v.pending /\ w.last = v.last /\ w.seen = shown.id /\ w.open = v.open
      /\ w.asks = v.asks /\ w.answers = v.answers /\ w.desktop = v.desktop
  BY <1>1
<1>3. shown.id \in Nat
  BY DEF IsShown
<1>4. SessionInv(w, eye, shown)
  <2>1. ViewRec(v) /\ KnownIs(v.fb, eye) /\ LastIsHeld(v, eye) /\ AskedInv(v) /\ eye \in Seq(Int) /\ Len(eye) = v.fb.w
    BY DEF SessionInv
  <2>2. w \in [fb : {w.fb}, pending : Asks \cup {NoReq}, last : {w.last}, seen : Nat, desktop : BOOLEAN,
                open : BOOLEAN, asks : Nat, answers : Nat]
    <3> HIDE DEF w
    <3> QED BY <1>1, <1>2, <1>3, <2>1 DEF ViewRec
  <2> HIDE DEF w
  <2>3. ViewRec(w)
    BY <1>2, <2>1, <2>2 DEF ViewRec
  <2>4. KnownIs(w.fb, eye) /\ LastIsHeld(w, eye) /\ AskedInv(w)
    BY <1>2, <2>1 DEF LastIsHeld, AskedInv
  <2> QED BY <1>2, <1>3, <2>1, <2>3, <2>4 DEF SessionInv
<1>5. CASE unmoved \/ (v.pending.inc /\ shown.px = << >>)
  <2>1. view' = w /\ eye' = eye
    BY <1>5 DEF TryUpdate
  <2>2. Waits(w, shown) => IsCurrent(eye, shown)
    <3> SUFFICES ASSUME Waits(w, shown) PROVE IsCurrent(eye, shown)
      OBVIOUS
    <3>1. shown.px # << >> /\ v.last = <<shown.hash, Len(shown.px)>>
      BY <1>5 DEF Waits, FrameKey
    <3>2. shown.px \in Seq(Nat)
      BY ViewTypes DEF IsShown
    <3>3. Len(shown.px) # 0
      BY <3>1, <3>2
    <3>4. v.last # << >> /\ \A h : v.last # <<h, 0>>
      BY <3>1, <3>3
    <3>5. PICK s \in Screens : s.px = eye /\ v.last = FrameKey(s)
      BY <3>4 DEF SessionInv, LastIsHeld
    <3>6. s.hash = shown.hash
      BY <3>1, <3>5 DEF FrameKey
    <3> QED BY <3>5, <3>6 DEF IsCurrent
  <2> HIDE DEF w
  <2> QED BY <1>4, <2>1, <2>2
<1>6. CASE ~(unmoved \/ (v.pending.inc /\ shown.px = << >>)) /\ Resized(v, px) /\ ~v.desktop
  <2> DEFINE x == [w EXCEPT !.open = FALSE]
  <2>1. view' = x /\ eye' = eye
    BY <1>6 DEF TryUpdate
  <2>2. x = [fb |-> v.fb, pending |-> v.pending, last |-> v.last, seen |-> shown.id, desktop |-> v.desktop,
             open |-> FALSE, asks |-> v.asks, answers |-> v.answers]
    <3>1. ViewRec(w) BY <1>4 DEF SessionInv
    <3> HIDE DEF w
    <3>2. x = [fb |-> w.fb, pending |-> w.pending, last |-> w.last, seen |-> w.seen, desktop |-> w.desktop,
               open |-> FALSE, asks |-> w.asks, answers |-> w.answers]
      BY ONLY <3>1, ClosedFields
    <3> QED BY <1>2, <3>2
  <2>3. /\ x.fb = v.fb /\ x.pending = v.pending /\ x.last = v.last /\ x.seen = shown.id /\ x.open = FALSE
        /\ x.asks = v.asks /\ x.answers = v.answers /\ x.desktop = v.desktop
    BY <2>2
  <2> HIDE DEF x, w
  <2>4. ViewRec(v) /\ KnownIs(v.fb, eye) /\ LastIsHeld(v, eye) /\ AskedInv(v) /\ eye \in Seq(Int) /\ Len(eye) = v.fb.w
    BY DEF SessionInv
  <2>5. x \in [fb : {x.fb}, pending : Asks \cup {NoReq}, last : {x.last}, seen : Nat, desktop : BOOLEAN,
                open : BOOLEAN, asks : Nat, answers : Nat]
    BY <1>3, <2>2, <2>3, <2>4 DEF ViewRec
  <2>6. ViewRec(x)
    BY <2>3, <2>4, <2>5 DEF ViewRec
  <2>7. KnownIs(x.fb, eye) /\ LastIsHeld(x, eye) /\ AskedInv(x)
    BY <2>3, <2>4 DEF LastIsHeld, AskedInv
  <2>8. SessionInv(x, eye, shown)
    BY <1>3, <2>3, <2>4, <2>6, <2>7 DEF SessionInv
  <2>9. ~Waits(x, shown)
    BY <2>3 DEF Waits
  <2> QED BY <2>1, <2>8, <2>9
<1>7. CASE ~(unmoved \/ (v.pending.inc /\ shown.px = << >>)) /\ ~(Resized(v, px) /\ ~v.desktop)
  <2>1. Update(w, px)
    BY <1>7 DEF TryUpdate
  <2>2. px \in Seq(Nat)
    <3>1. v.fb.w \in Nat
      BY DEF SessionInv, ViewRec, IsFb
    <3>2. Black(v.fb.w) \in [1..v.fb.w -> Nat]
      BY DEF Black
    <3>3. Black(v.fb.w) \in Seq(Nat)
      BY ONLY <3>1, <3>2, IsSeq
    <3>4. shown.px \in Seq(Nat)
      BY ViewTypes DEF IsShown
    <3> QED BY <3>3, <3>4
  <2>3. shown.px = << >> \/ px = shown.px
    OBVIOUS
  <2> HIDE DEF w, px
  <2> QED BY <1>2, <1>4, <2>1, <2>2, <2>3, UpdateKeeps
<1> QED BY <1>5, <1>6, <1>7

-----------------------------------------------------------------------------
LEMMA ViewInitInv == ViewInit => ViewInv
<1> SUFFICES ASSUME ViewInit PROVE ViewInv
  OBVIOUS
<1>1. PICK s \in Screens : shown = [id |-> 1, px |-> s.px, hash |-> s.hash]
  BY DEF ViewInit
<1>2. IsShown(shown) /\ shown.id = 1 /\ shown.px \in Seq(Nat)
  BY <1>1, ViewTypes DEF IsShown
<1> DEFINE w == IF shown.px = << >> THEN 2 ELSE Len(shown.px)
<1>3. w \in Nat
  BY <1>2
<1>4. PICK d \in BOOLEAN :
        view = [fb |-> ClientFb(w), pending |-> NoReq, last |-> << >>, seen |-> 1, desktop |-> d,
                open |-> TRUE, asks |-> 0, answers |-> 0]
  BY DEF ViewInit
<1>5. eye = [i \in 1..w |-> -1]
  BY DEF ViewInit
<1> HIDE DEF w
<1>6. eye \in Seq(Int) /\ Len(eye) = w
  <2>1. eye \in [1..w -> Int] BY <1>5
  <2> QED BY ONLY <1>3, <2>1, IsSeq
<1> DEFINE fb == ClientFb(w)
<1>7. fb = [w |-> w, sent |-> Black(w), known |-> [t \in Tiles(w) |-> FALSE]]
  BY DEF ClientFb
<1>8. fb.w = w /\ fb.sent = Black(w) /\ fb.known = [t \in Tiles(w) |-> FALSE]
  BY <1>7
<1>9. /\ view.fb = fb /\ view.pending = NoReq /\ view.last = << >> /\ view.seen = 1 /\ view.asks = 0
      /\ view.answers = 0
  BY <1>4
<1> HIDE DEF fb
<1>10. IsFb(fb)
  <2>1. DOMAIN Black(w) = 1..w
    BY DEF Black
  <2>2. [t \in Tiles(w) |-> FALSE] \in [Tiles(w) -> BOOLEAN]
    OBVIOUS
  <2> QED BY <1>3, <1>7, <1>8, <2>1, <2>2 DEF IsFb
<1>11. view \in [fb : {view.fb}, pending : Asks \cup {NoReq}, last : {view.last}, seen : Nat, desktop : BOOLEAN,
                 open : BOOLEAN, asks : Nat, answers : Nat]
  BY <1>4, <1>9 DEF fb
<1>12. ViewRec(view)
  BY <1>9, <1>10, <1>11 DEF ViewRec
<1>13. KnownIs(view.fb, eye)
  BY <1>8, <1>9 DEF KnownIs
<1>14. LastIsHeld(view, eye) /\ AskedInv(view)
  BY <1>9, ViewTypes DEF LastIsHeld, AskedInv
<1>15. ~Waits(view, shown)
  BY <1>9 DEF Waits, NoReq
<1>16. Len(eye) = view.fb.w /\ view.seen <= shown.id
  BY <1>2, <1>6, <1>8, <1>9
<1> QED BY <1>2, <1>6, <1>12, <1>13, <1>14, <1>15, <1>16 DEF ViewInv, SessionInv

LEMMA ShowKeeps == ASSUME ViewInv, Show PROVE ViewInv'
<1>1. PICK s \in Screens : shown' = [id |-> shown.id + 1, px |-> s.px, hash |-> s.hash]
  BY DEF Show
<1>2. shown.id \in Nat /\ view.seen \in Nat /\ view.seen <= shown.id
  BY DEF ViewInv, IsShown, SessionInv, ViewRec
<1>3. shown'.id = shown.id + 1 /\ shown'.px = s.px /\ shown'.hash = s.hash
  BY <1>1
<1>4. IsShown(shown')
  BY <1>2, <1>3 DEF IsShown
<1>5. SessionInv(view, eye, shown')
  BY <1>2, <1>3 DEF ViewInv, SessionInv
<1>6. ~Waits(view, shown')
  BY <1>2, <1>3 DEF Waits
<1>7. view' = view /\ eye' = eye
  BY DEF Show
<1> QED BY <1>4, <1>5, <1>6, <1>7 DEF ViewInv

LEMMA RequestKeeps == ASSUME ViewInv, AskUpdate PROVE ViewInv'
<1>1. PICK r \in Asks : TryUpdate([view EXCEPT !.pending = r, !.asks = @ + 1])
  BY DEF AskUpdate
<1> DEFINE v == [view EXCEPT !.pending = r, !.asks = @ + 1]
<1>2. SessionInv(view, eye, shown) /\ ViewRec(view) /\ IsShown(shown) /\ view.asks < MaxAsks /\ shown' = shown
  BY DEF ViewInv, SessionInv, AskUpdate
<1>3. v = [fb |-> view.fb, pending |-> r, last |-> view.last, seen |-> view.seen, desktop |-> view.desktop,
           open |-> view.open, asks |-> view.asks + 1, answers |-> view.answers]
  BY <1>2, AskFields
<1>4. TryUpdate(v) BY <1>1
<1> HIDE DEF v
<1>5. /\ v.fb = view.fb /\ v.pending = r /\ v.last = view.last /\ v.seen = view.seen /\ v.asks = view.asks + 1
      /\ v.answers = view.answers
  BY <1>3
<1>6. view.asks \in Nat /\ view.answers \in Nat /\ view.answers <= view.asks
  BY <1>2 DEF SessionInv, ViewRec, AskedInv
<1>7. v \in [fb : {v.fb}, pending : Asks \cup {NoReq}, last : {v.last}, seen : Nat, desktop : BOOLEAN,
             open : BOOLEAN, asks : Nat, answers : Nat]
  BY <1>2, <1>3, <1>5, <1>6 DEF ViewRec
<1>8. ViewRec(v)
  BY <1>2, <1>5, <1>7 DEF ViewRec
<1>9. LastIsHeld(v, eye) /\ AskedInv(v)
  BY <1>2, <1>5, <1>6, ViewTypes DEF SessionInv, LastIsHeld, AskedInv
<1>10. SessionInv(v, eye, shown)
  BY <1>2, <1>5, <1>8, <1>9 DEF SessionInv
<1>11. SessionInv(view', eye', shown) /\ (Waits(view', shown) => IsCurrent(eye', shown))
  BY <1>2, <1>4, <1>5, <1>10, TryKeeps
<1> QED BY <1>2, <1>11 DEF ViewInv

LEMMA FrameKeeps == ASSUME ViewInv, FrameChanged PROVE ViewInv'
<1>1. SessionInv(view, eye, shown) /\ IsShown(shown) /\ TryUpdate(view) /\ shown' = shown
  BY DEF ViewInv, FrameChanged
<1>2. view.pending \in Asks
  BY <1>1 DEF FrameChanged, SessionInv, ViewRec
<1>3. SessionInv(view', eye', shown) /\ (Waits(view', shown) => IsCurrent(eye', shown))
  BY <1>1, <1>2, TryKeeps
<1> QED BY <1>1, <1>3 DEF ViewInv

-----------------------------------------------------------------------------
\* TakenBy up first: whoever is refused is counted until it leaves, so the count is never less
\* than the sessions there are.
SlotsInv ==
  /\ slots \in [count : Nat, at : [Watchers -> {"out", "in", "refused"}]]
  /\ SlotsAreKept

Inside(at) == { c \in Watchers : at[c] = "in" }
TakenBy(at) == { c \in Watchers : at[c] # "out" }
LEMMA SlotSets ==
  ASSUME NEW at
  PROVE  /\ IsFiniteSet(Inside(at)) /\ IsFiniteSet(TakenBy(at))
         /\ Cardinality(Inside(at)) \in Nat /\ Cardinality(TakenBy(at)) \in Nat
         /\ Cardinality(Inside(at)) <= Cardinality(TakenBy(at))
<1>1. Inside(at) \subseteq TakenBy(at) /\ TakenBy(at) \subseteq Watchers
  BY DEF Inside, TakenBy
<1>2. IsFiniteSet(TakenBy(at))
  BY <1>1, ViewTypes, FS_Subset
<1> QED BY <1>1, <1>2, FS_Subset, FS_CardinalityType

LEMMA SlotsInitInv == SlotsInit => SlotsInv
<1> SUFFICES ASSUME SlotsInit PROVE SlotsInv
  OBVIOUS
<1>1. slots.count = 0 /\ slots.at = [c \in Watchers |-> "out"] /\ slots = [count |-> slots.count, at |-> slots.at]
  BY DEF SlotsInit
<1>2. Inside(slots.at) = {} /\ TakenBy(slots.at) = {}
  BY <1>1 DEF Inside, TakenBy
<1>3. Cardinality({}) = 0
  BY FS_EmptySet
<1>4. SlotsAreKept
  <2>1. Cardinality(Inside(slots.at)) = 0 /\ Cardinality(TakenBy(slots.at)) = 0
    BY <1>2, <1>3
  <2> QED BY <1>1, <2>1, ViewTypes DEF SlotsAreKept, Inside, TakenBy
<1> QED BY <1>1, <1>4 DEF SlotsInv, SlotsInit

LEMMA SlotAddKeeps == ASSUME SlotsInv, NEW c \in Watchers, SlotAdd(c) PROVE SlotsInv'
<1> DEFINE at == slots.at
           to == IF slots.count >= MaxClients THEN "refused" ELSE "in"
           next == [at EXCEPT ![c] = to]
<1>1. slots.count \in Nat /\ at \in [Watchers -> {"out", "in", "refused"}] /\ at[c] = "out"
  BY DEF SlotsInv, SlotAdd
<1>2. slots' = [count |-> slots.count + 1, at |-> next]
  BY DEF SlotAdd
<1>3. slots'.count = slots.count + 1 /\ slots'.at = next
  BY <1>2
<1>4. to \in {"in", "refused"} /\ next \in [Watchers -> {"out", "in", "refused"}]
  BY <1>1
<1>5. Cardinality(Inside(at)) <= MaxClients /\ slots.count = Cardinality(TakenBy(at))
  BY DEF SlotsInv, SlotsAreKept, Inside, TakenBy
<1>6. TakenBy(next) = TakenBy(at) \cup {c} /\ c \notin TakenBy(at)
  <2> HIDE DEF to, at
  <2> QED BY <1>1, <1>4 DEF TakenBy
<1>7. Cardinality(TakenBy(next)) = slots.count + 1
  <2> HIDE DEF next, at
  <2> QED BY <1>5, <1>6, SlotSets, FS_AddElement
<1>8. Cardinality(Inside(next)) <= MaxClients
  <2>1. CASE to = "refused"
    <3>1. Inside(next) = Inside(at)
      <4> HIDE DEF to, at
      <4> QED BY <1>1, <2>1 DEF Inside
    <3> QED BY <1>5, <3>1
  <2>2. CASE to = "in"
    <3>1. Inside(next) = Inside(at) \cup {c} /\ c \notin Inside(at)
      <4> HIDE DEF to, at
      <4> QED BY <1>1, <2>2 DEF Inside
    <3>2. slots.count < MaxClients
      BY <2>2, <1>1, ViewTypes
    <3> HIDE DEF next, at
    <3>3. Cardinality(Inside(next)) = Cardinality(Inside(at)) + 1
      BY <3>1, SlotSets, FS_AddElement
    <3>4. Cardinality(Inside(at)) <= slots.count /\ Cardinality(Inside(at)) \in Nat
      BY <1>5, SlotSets
    <3> QED BY <1>1, <3>2, <3>3, <3>4, ViewTypes
  <2> QED BY <1>4, <2>1, <2>2
<1> HIDE DEF next, at
<1>9. SlotsAreKept'
  BY <1>3, <1>7, <1>8 DEF SlotsAreKept, Inside, TakenBy
<1> QED BY <1>1, <1>2, <1>4, <1>9 DEF SlotsInv

LEMMA SlotLeaveKeeps == ASSUME SlotsInv, NEW c \in Watchers, SlotLeave(c) PROVE SlotsInv'
<1> DEFINE at == slots.at
           next == [at EXCEPT ![c] = "out"]
<1>1. slots.count \in Nat /\ at \in [Watchers -> {"out", "in", "refused"}] /\ at[c] # "out"
  BY DEF SlotsInv, SlotLeave
<1>2. slots' = [count |-> slots.count - 1, at |-> next]
  BY DEF SlotLeave
<1>3. slots'.count = slots.count - 1 /\ slots'.at = next
  BY <1>2
<1>4. next \in [Watchers -> {"out", "in", "refused"}]
  BY <1>1
<1>5. Cardinality(Inside(at)) <= MaxClients /\ slots.count = Cardinality(TakenBy(at))
  BY DEF SlotsInv, SlotsAreKept, Inside, TakenBy
<1>6. /\ TakenBy(next) = TakenBy(at) \ {c} /\ c \in TakenBy(at)
      /\ Inside(next) \subseteq Inside(at)
  <2> HIDE DEF at
  <2> QED BY <1>1 DEF TakenBy, Inside
<1> HIDE DEF next, at
<1>7. Cardinality(TakenBy(next)) = slots.count - 1
  BY <1>5, <1>6, SlotSets, FS_RemoveElement
<1>8. Cardinality(Inside(next)) <= MaxClients
  <2>1. Cardinality(Inside(next)) <= Cardinality(Inside(at))
    BY <1>6, SlotSets, FS_Subset
  <2> QED BY <1>5, <2>1, SlotSets, ViewTypes
<1>9. slots.count - 1 \in Nat
  BY <1>7, SlotSets
<1>10. SlotsAreKept'
  BY <1>3, <1>7, <1>8 DEF SlotsAreKept, Inside, TakenBy
<1> QED BY <1>2, <1>4, <1>9, <1>10 DEF SlotsInv

-----------------------------------------------------------------------------
\* For any screens, tiles, requests and viewers, what a session remembers of its viewer is so
\* after every request and every frame (rfb_serve.rs), and the slots are counted right.
THEOREM ViewInvariant == ViewSpec => [](ViewInv /\ SlotsInv)
<1>1. ViewInit /\ SlotsInit => ViewInv /\ SlotsInv
  BY ViewInitInv, SlotsInitInv
<1>2. ASSUME ViewInv, SlotsInv,
             [(ViewNext /\ UNCHANGED slots) \/ (SlotsNext /\ UNCHANGED viewVars)]_<<viewVars, slots>>
      PROVE  ViewInv' /\ SlotsInv'
  <2>1. ASSUME UNCHANGED slots PROVE SlotsInv'
    BY <1>2, <2>1 DEF SlotsInv, SlotsAreKept
  <2>2. ASSUME UNCHANGED viewVars PROVE ViewInv'
    BY <1>2, <2>2 DEF ViewInv, viewVars
  <2>3. CASE ViewNext /\ UNCHANGED slots
    BY <1>2, <2>1, <2>3, ShowKeeps, RequestKeeps, FrameKeeps DEF ViewNext
  <2>4. CASE SlotsNext /\ UNCHANGED viewVars
    BY <1>2, <2>2, <2>4, SlotAddKeeps, SlotLeaveKeeps DEF SlotsNext
  <2>5. CASE UNCHANGED <<viewVars, slots>>
    BY <2>1, <2>2, <2>5
  <2> QED BY <1>2, <2>3, <2>4, <2>5
<1> QED BY <1>1, <1>2, PTL DEF ViewSpec

\* A viewer holds what its session thinks it holds, one kept waiting for a change has the whole
\* settled picture, none is sent what it did not ask for, and no more are let in than there are
\* slots (rfb_serve.rs): however requests, frames, resizes and arrivals follow each other.
THEOREM ViewersAlwaysKept == ViewSpec => []ViewersAreKept
<1>1. ViewInv /\ SlotsInv => ViewersAreKept
  <2> SUFFICES ASSUME ViewInv, SlotsInv PROVE ViewersAreKept
    OBVIOUS
  <2>1. SessionInv(view, eye, shown) /\ ViewRec(view) /\ IsFb(view.fb) /\ AskedInv(view) /\ KnownIs(view.fb, eye)
    BY DEF ViewInv, SessionInv, ViewRec
  <2>2. view.asks \in Nat /\ view.answers \in Nat
    BY <2>1 DEF ViewRec
  <2>3. ViewTypeOK
    BY <2>1, <2>2, ViewTypes DEF ViewTypeOK, SessionInv, IsFb, AskedInv
  <2>4. EyeIsAsSent
    BY <2>1 DEF KnownIs, EyeIsAsSent
  <2>5. WaitingViewerIsCurrent
    BY DEF ViewInv, Waits, IsCurrent, WaitingViewerIsCurrent
  <2>6. AnswersAreAsked
    BY <2>1 DEF AskedInv, AnswersAreAsked
  <2> QED BY <2>3, <2>4, <2>5, <2>6 DEF ViewersAreKept, SlotsInv
<1> QED BY <1>1, ViewInvariant, PTL
=============================================================================
