------------------------------ MODULE Hid_proofs ------------------------------
(***************************************************************************)
(* Proofs about the HID daemons.                                           *)
(*                                                                         *)
(* hidrig: the composer and the board agree, a control command gets its    *)
(* own reply, a written shutdown release leaves nothing down.              *)
(*                                                                         *)
(* ch9329: what the session believes held is what the chip holds down, a   *)
(* fault in the middle of a command leaves no key pressed, and a reopen    *)
(* probes the rate the chip stores.                                        *)
(***************************************************************************)
EXTENDS Ch9329, Hidrig, SequenceTheorems, FiniteSetTheorems, TLAPS

RigStates == {"queued", "awaits", "ok", "err", "skipped"}
RigReq == [cmd : RigCommands, state : RigStates, client : {"waits", "left"}, answer : Nat]

IsComposer(c) == c \in [mods : SUBSET RigMods, keys : {c.keys}, btn : SUBSET RigButtons]
IsBoard(b) == b \in [there : BOOLEAN, kb : {b.kb}, ms : SUBSET RigButtons]

\* What the variables are made of.
RigShape ==
  /\ IsComposer(composer) /\ IsBoard(board)
  /\ late \in Seq(Nat) /\ rigQueue \in Seq(Nat) /\ rigReqs \in Seq(RigReq)
  /\ \A i \in DOMAIN rigQueue : rigQueue[i] \in 0..Len(rigReqs)

\* While no link was lost, the board owes the reply that is awaited, and no other.
OnlyOneIsOwed ==
  upsets = 0 => late = IF waiting = 0 THEN << >> ELSE << waiting >>

RigInv ==
  /\ RigShape
  /\ RigTypeOK
  /\ BoardIsAsComposed
  /\ OnlyOneIsOwed
  /\ ReplyIsItsOwn
  /\ RigReleaseClears

USE RigAssumption

-----------------------------------------------------------------------------
(***************************************************************************)
(* The frames of a command.                                                *)
(***************************************************************************)

Nothing(c) == Report(c, {}, << >>)
Same(c, d) == d.mods = c.mods /\ d.keys = c.keys

LEMMA SameReport == ASSUME NEW c, NEW d, Same(c, d) PROVE Nothing(d) = Nothing(c)
BY DEF Same, Nothing, Report

\* A command makes one or two frames of one device, the last of which is what
\* the composer holds of that device after it; or one control frame.
Makes(c, d, fs) ==
  \/ d.btn = c.btn /\ fs = << KbdFrame(Nothing(d)) >>
  \/ d.btn = c.btn /\ \E x : fs = << KbdFrame(x), KbdFrame(Nothing(d)) >>
  \/ Same(c, d) /\ fs = << MouseFrame(d) >>
  \/ Same(c, d) /\ \E x \in SUBSET RigButtons : fs = << [dev |-> "ms", rep |-> x], MouseFrame(d) >>
  \/ d = c /\ fs = << CtrlFrame >>


LEMMA KeyboardFields ==
  ASSUME NEW c, IsComposer(c), NEW m, NEW k
  PROVE  [c EXCEPT !.mods = m, !.keys = k] = [mods |-> m, keys |-> k, btn |-> c.btn]
<1> DEFINE d == [c EXCEPT !.mods = m]
<1>1. d = [mods |-> m, keys |-> c.keys, btn |-> c.btn]
  BY DEF IsComposer
<1>2. [c EXCEPT !.mods = m, !.keys = k] = [d EXCEPT !.keys = k]
  OBVIOUS
<1> HIDE DEF d
<1> QED BY <1>1, <1>2

LEMMA DownFields ==
  ASSUME NEW c, IsComposer(c), NEW keys
  PROVE  IsComposer(ComposeDown(c, keys)) /\ ComposeDown(c, keys).btn = c.btn
<1> DEFINE k == c.keys \o SelectSeq(KeysOf(keys), LAMBDA x : x \notin Range(c.keys))
<1>1. ComposeDown(c, keys) = [mods |-> c.mods \cup ModsOf(keys), keys |-> k, btn |-> c.btn]
  <2> HIDE DEF k
  <2>1. [c EXCEPT !.mods = @ \cup ModsOf(keys), !.keys = k]
          = [mods |-> c.mods \cup ModsOf(keys), keys |-> k, btn |-> c.btn]
    BY KeyboardFields
  <2> QED BY <2>1 DEF ComposeDown, k
<1>2. ModsOf(keys) \subseteq RigMods
  BY DEF ModsOf
<1> HIDE DEF k
<1> QED BY <1>1, <1>2 DEF IsComposer

LEMMA UpFields ==
  ASSUME NEW c, IsComposer(c), NEW keys
  PROVE  IsComposer(ComposeUp(c, keys)) /\ ComposeUp(c, keys).btn = c.btn
<1> DEFINE k == SelectSeq(c.keys, LAMBDA x : x \notin Range(keys))
<1>1. ComposeUp(c, keys) = [mods |-> c.mods \ ModsOf(keys), keys |-> k, btn |-> c.btn]
  <2> HIDE DEF k
  <2>1. [c EXCEPT !.mods = @ \ ModsOf(keys), !.keys = k]
          = [mods |-> c.mods \ ModsOf(keys), keys |-> k, btn |-> c.btn]
    BY KeyboardFields
  <2> QED BY <2>1 DEF ComposeUp, k
<1> HIDE DEF k
<1> QED BY <1>1 DEF IsComposer

LEMMA ButtonFields ==
  ASSUME NEW c, IsComposer(c), NEW b \in SUBSET RigButtons
  PROVE  IsComposer([c EXCEPT !.btn = b]) /\ Same(c, [c EXCEPT !.btn = b]) /\ [c EXCEPT !.btn = b].btn = b
BY DEF IsComposer, Same

LEMMA CommandMakes ==
  ASSUME NEW c, IsComposer(c), NEW cmd \in RigCommands
  PROVE  /\ IsComposer(Composed(c, cmd))
         /\ Makes(c, Composed(c, cmd), Frames(c, cmd))
<1> DEFINE d == Composed(c, cmd)
<1>1. CASE cmd.verb = "down"
  <2>1. d = ComposeDown(c, cmd.keys) /\ Frames(c, cmd) = << KbdFrame(Nothing(d)) >>
    BY <1>1 DEF Composed, Frames, Nothing
  <2> QED BY <2>1, DownFields DEF Makes
<1>2. CASE cmd.verb = "up"
  <2>1. d = ComposeUp(c, cmd.keys) /\ Frames(c, cmd) = << KbdFrame(Nothing(d)) >>
    BY <1>2 DEF Composed, Frames, Nothing
  <2> QED BY <2>1, UpFields DEF Makes
<1>3. CASE cmd.verb = "releaseall"
  <2>1. d = [c EXCEPT !.mods = {}, !.keys = << >>] /\ Frames(c, cmd) = << KbdFrame(Nothing(d)) >>
    BY <1>3 DEF Composed, Frames, Nothing
  <2>2. IsComposer(d) /\ d.btn = c.btn
    BY <2>1 DEF IsComposer
  <2> QED BY <2>1, <2>2 DEF Makes
<1>4. CASE cmd.verb = "mdown"
  <2>1. d = [c EXCEPT !.btn = c.btn \cup Range(cmd.keys)] /\ Frames(c, cmd) = << MouseFrame(d) >>
    BY <1>4 DEF Composed, Frames
  <2>2. c.btn \cup Range(cmd.keys) \in SUBSET RigButtons
    BY <1>4 DEF IsComposer
  <2> QED BY <2>1, <2>2, ButtonFields DEF Makes
<1>5. CASE cmd.verb = "mup"
  <2>1. d = [c EXCEPT !.btn = c.btn \ Range(cmd.keys)] /\ Frames(c, cmd) = << MouseFrame(d) >>
    BY <1>5 DEF Composed, Frames
  <2>2. c.btn \ Range(cmd.keys) \in SUBSET RigButtons
    BY DEF IsComposer
  <2> QED BY <2>1, <2>2, ButtonFields DEF Makes
<1>6. CASE cmd.verb = "click"
  <2>1. d = [c EXCEPT !.btn = c.btn \ Range(cmd.keys)]
    BY <1>6 DEF Composed
  <2>2. /\ c.btn \ Range(cmd.keys) \in SUBSET RigButtons
        /\ c.btn \cup Range(cmd.keys) \in SUBSET RigButtons
    BY <1>6 DEF IsComposer
  <2>3. Same(c, d) /\ IsComposer(d) /\ d.btn = c.btn \ Range(cmd.keys)
    BY <2>1, <2>2, ButtonFields
  <2>4. Frames(c, cmd) = << [dev |-> "ms", rep |-> c.btn \cup Range(cmd.keys)], MouseFrame(d) >>
    BY <1>6, <2>3 DEF Frames, MouseFrame
  <2> QED BY <2>2, <2>3, <2>4 DEF Makes
<1>7. CASE cmd.verb \in {"key", "combo", "type"}
  <2>1. d = c
    BY <1>7 DEF Composed
  <2>2. Frames(c, cmd) = << KbdFrame(Report(c, ModsOf(cmd.keys), KeysOf(cmd.keys))), KbdFrame(Nothing(d)) >>
    BY <1>7, <2>1 DEF Frames, ComboFrames, Nothing
  <2> QED BY <2>1, <2>2 DEF Makes
<1>8. CASE cmd.verb \in {"ping", "version", "power"}
  <2>1. d = c
    BY <1>8 DEF Composed
  <2>2. Frames(c, cmd) = << CtrlFrame >>
    BY <1>8 DEF Frames
  <2> QED BY <2>1, <2>2 DEF Makes
<1>9. CASE cmd.verb \notin {"down", "up", "releaseall", "mdown", "mup", "click", "key", "combo", "type", "ping", "version", "power"}
  <2>1. d = c
    BY <1>9 DEF Composed
  <2>2. Frames(c, cmd) = << MouseFrame(d) >>
    BY <1>9 DEF Frames
  <2> QED BY <2>1, <2>2 DEF Makes, Same
<1> QED BY <1>1, <1>2, <1>3, <1>4, <1>5, <1>6, <1>7, <1>8, <1>9

-----------------------------------------------------------------------------
(***************************************************************************)
(* The board after one, two or none of them.                               *)
(***************************************************************************)

LEMMA NoneReported == ASSUME NEW dev, NEW was PROVE LastReport(<< >>, dev, was) = was
BY DEF LastReport

LEMMA OneReported ==
  ASSUME NEW f, NEW dev, NEW was
  PROVE  LastReport(<< f >>, dev, was) = IF f.dev = dev THEN f.rep ELSE was
<1> DEFINE of == { i \in DOMAIN << f >> : << f >>[i].dev = dev }
<1>1. CASE f.dev = dev
  <2>1. of = {1}
    BY <1>1
  <2>2. (CHOOSE i \in of : \A j \in of : j <= i) = 1
    BY <2>1
  <2> QED BY <1>1, <2>1, <2>2 DEF LastReport
<1>2. CASE f.dev # dev
  <2>1. of = {}
    BY <1>2
  <2> QED BY <1>2, <2>1 DEF LastReport
<1> QED BY <1>1, <1>2

\* Two frames of one device.
LEMMA TwoReported ==
  ASSUME NEW f, NEW g, f.dev = g.dev, NEW dev, NEW was
  PROVE  LastReport(<< f, g >>, dev, was) = IF g.dev = dev THEN g.rep ELSE was
<1> DEFINE of == { i \in DOMAIN << f, g >> : << f, g >>[i].dev = dev }
<1>1. CASE g.dev = dev
  <2>1. of = {1, 2}
    BY <1>1
  <2>2. (CHOOSE i \in of : \A j \in of : j <= i) = 2
    BY <2>1
  <2> QED BY <1>1, <2>1, <2>2 DEF LastReport
<1>2. CASE g.dev # dev
  <2>1. of = {}
    BY <1>2
  <2> QED BY <1>2, <2>1 DEF LastReport
<1> QED BY <1>1, <1>2

\* A frame of each.
LEMMA BothReported ==
  ASSUME NEW f, NEW g, f.dev = "kb", g.dev = "ms", NEW was
  PROVE  LastReport(<< f, g >>, "kb", was) = f.rep /\ LastReport(<< f, g >>, "ms", was) = g.rep
<1> DEFINE of(dev) == { i \in DOMAIN << f, g >> : << f, g >>[i].dev = dev }
<1>1. of("kb") = {1} /\ of("ms") = {2}
  OBVIOUS
<1>2. (CHOOSE i \in of("kb") : \A j \in of("kb") : j <= i) = 1
  BY <1>1
<1>3. (CHOOSE i \in of("ms") : \A j \in of("ms") : j <= i) = 2
  BY <1>1
<1> QED BY <1>1, <1>2, <1>3 DEF LastReport

Showing(b, k, m) == [b EXCEPT !.kb = k, !.ms = m]

LEMMA BoardFields ==
  ASSUME NEW b, IsBoard(b), NEW k, NEW m \in SUBSET RigButtons
  PROVE  /\ Showing(b, k, m).kb = k /\ Showing(b, k, m).ms = m
         /\ Showing(b, k, m).there = b.there
         /\ IsBoard(Showing(b, k, m))
<1> DEFINE d == [b EXCEPT !.kb = k]
<1>1. d = [there |-> b.there, kb |-> k, ms |-> b.ms]
  BY DEF IsBoard
<1>2. Showing(b, k, m) = [d EXCEPT !.ms = m]
  BY DEF Showing
<1> HIDE DEF d
<1>3. [d EXCEPT !.ms = m] = [there |-> b.there, kb |-> k, ms |-> m]
  BY <1>1
<1>4. b.there \in BOOLEAN
  BY DEF IsBoard
<1> QED BY <1>2, <1>3, <1>4 DEF IsBoard, Showing

\* All the frames of a command: the board's other device keeps its report.
Agrees(c, d, fs, b, e) ==
  \/ /\ fs[1].dev = "kb" /\ ~\E i \in DOMAIN fs : fs[i].dev = "ctrl"
     /\ d.btn = c.btn /\ e.kb = Nothing(d) /\ e.ms = b.ms
  \/ /\ fs[1].dev = "ms" /\ ~\E i \in DOMAIN fs : fs[i].dev = "ctrl"
     /\ Same(c, d) /\ e.kb = b.kb /\ e.ms = d.btn
  \/ /\ \E i \in DOMAIN fs : fs[i].dev = "ctrl"
     /\ d = c /\ e.kb = b.kb /\ e.ms = b.ms

LEMMA WholeCommand ==
  ASSUME NEW c, NEW d, IsComposer(d), NEW fs, Makes(c, d, fs), NEW b, IsBoard(b)
  PROVE  /\ IsBoard(Boarded(b, fs))
         /\ Agrees(c, d, fs, b, Boarded(b, fs))
<1> DEFINE k == LastReport(fs, "kb", b.kb)
           m == LastReport(fs, "ms", b.ms)
<1>a. b.ms \in SUBSET RigButtons /\ d.btn \in SUBSET RigButtons
  BY DEF IsBoard, IsComposer
<1>b. m \in SUBSET RigButtons => IsBoard(Boarded(b, fs)) /\ Boarded(b, fs).kb = k /\ Boarded(b, fs).ms = m
  <2> HIDE DEF k, m
  <2> HAVE m \in SUBSET RigButtons
  <2>1. IsBoard(Showing(b, k, m)) /\ Showing(b, k, m).kb = k /\ Showing(b, k, m).ms = m
    BY BoardFields
  <2> QED BY <2>1 DEF Boarded, Showing, k, m
<1>1. CASE d.btn = c.btn /\ fs = << KbdFrame(Nothing(d)) >>
  <2>1. KbdFrame(Nothing(d)).dev = "kb" /\ KbdFrame(Nothing(d)).rep = Nothing(d)
    BY DEF KbdFrame
  <2>2. k = Nothing(d) /\ m = b.ms
    BY <1>1, <2>1, OneReported
  <2>3. fs[1].dev = "kb" /\ ~\E i \in DOMAIN fs : fs[i].dev = "ctrl"
    BY <1>1, <2>1
  <2> HIDE DEF k, m
  <2> QED BY <1>a, <1>b, <1>1, <2>2, <2>3 DEF Agrees
<1>2. CASE d.btn = c.btn /\ \E x : fs = << KbdFrame(x), KbdFrame(Nothing(d)) >>
  <2> PICK x : fs = << KbdFrame(x), KbdFrame(Nothing(d)) >>
    BY <1>2
  <2>1. KbdFrame(Nothing(d)).dev = "kb" /\ KbdFrame(Nothing(d)).rep = Nothing(d) /\ KbdFrame(x).dev = "kb"
    BY DEF KbdFrame
  <2>2. k = Nothing(d) /\ m = b.ms
    BY <2>1, TwoReported
  <2>3. fs[1].dev = "kb" /\ ~\E i \in DOMAIN fs : fs[i].dev = "ctrl"
    BY <2>1
  <2> HIDE DEF k, m
  <2> QED BY <1>a, <1>b, <1>2, <2>2, <2>3 DEF Agrees
<1>3. CASE Same(c, d) /\ fs = << MouseFrame(d) >>
  <2>1. MouseFrame(d).dev = "ms" /\ MouseFrame(d).rep = d.btn
    BY DEF MouseFrame
  <2>2. k = b.kb /\ m = d.btn
    BY <1>3, <2>1, OneReported
  <2>3. fs[1].dev = "ms" /\ ~\E i \in DOMAIN fs : fs[i].dev = "ctrl"
    BY <1>3, <2>1
  <2> HIDE DEF k, m
  <2> QED BY <1>a, <1>b, <1>3, <2>2, <2>3 DEF Agrees
<1>4. CASE Same(c, d) /\ \E x \in SUBSET RigButtons : fs = << [dev |-> "ms", rep |-> x], MouseFrame(d) >>
  <2> PICK x \in SUBSET RigButtons : fs = << [dev |-> "ms", rep |-> x], MouseFrame(d) >>
    BY <1>4
  <2> DEFINE f == [dev |-> "ms", rep |-> x]
  <2>1. MouseFrame(d).dev = "ms" /\ MouseFrame(d).rep = d.btn /\ f.dev = "ms"
    BY DEF MouseFrame
  <2> HIDE DEF f
  <2>x. fs = << f, MouseFrame(d) >>
    BY DEF f
  <2>2. k = b.kb /\ m = d.btn
    BY <2>1, <2>x, TwoReported
  <2>3. fs[1].dev = "ms" /\ ~\E i \in DOMAIN fs : fs[i].dev = "ctrl"
    BY <2>1, <2>x
  <2> HIDE DEF k, m
  <2> QED BY <1>a, <1>b, <1>4, <2>2, <2>3 DEF Agrees
<1>5. CASE d = c /\ fs = << CtrlFrame >>
  <2>1. CtrlFrame.dev = "ctrl"
    BY DEF CtrlFrame
  <2>2. k = b.kb /\ m = b.ms
    BY <1>5, <2>1, OneReported
  <2>3. \E i \in DOMAIN fs : fs[i].dev = "ctrl"
    BY <1>5, <2>1
  <2> HIDE DEF k, m
  <2> QED BY <1>a, <1>b, <1>5, <2>2, <2>3 DEF Agrees
<1> QED BY <1>1, <1>2, <1>3, <1>4, <1>5 DEF Makes

LEMMA Beginnings ==
  ASSUME NEW f, NEW g
  PROVE  /\ SubSeq(<< f >>, 1, 0) = << >> /\ SubSeq(<< f >>, 1, 1) = << f >>
         /\ SubSeq(<< f, g >>, 1, 0) = << >> /\ SubSeq(<< f, g >>, 1, 1) = << f >>
         /\ SubSeq(<< f, g >>, 1, 2) = << f, g >>
<1> DEFINE S == {f, g}
<1>1. << f >> \in Seq(S) /\ << f, g >> \in Seq(S) /\ Len(<< f >>) = 1 /\ Len(<< f, g >>) = 2
  OBVIOUS
<1>2. SubSeq(<< f >>, 1, 1) = << f >> /\ SubSeq(<< f, g >>, 1, 2) = << f, g >>
  BY <1>1, SubSeqFull
<1>3. SubSeq(<< f, g >>, 1, 1) = << << f, g >>[1] >> \o SubSeq(<< f, g >>, 2, 1)
  BY <1>1, SubSeqRecursiveFirst
<1>4. SubSeq(<< f, g >>, 2, 1) = << >>
  BY <1>1, SubSeqEmpty
<1>5. << f >> \o << >> = << f >>
  BY <1>1
<1>6. SubSeq(<< f >>, 1, 0) = << >> /\ SubSeq(<< f, g >>, 1, 0) = << >>
  BY <1>1, SubSeqEmpty
<1>7. << f, g >>[1] = f
  OBVIOUS
<1>8. SubSeq(<< f, g >>, 1, 1) = << f >>
  BY <1>3, <1>4, <1>5, <1>7
<1> QED BY <1>2, <1>6, <1>8

\* Some of them: the board's buttons are still buttons.
LEMMA PartOfCommand ==
  ASSUME NEW c, NEW d, IsComposer(d), NEW fs, Makes(c, d, fs), NEW b, IsBoard(b), NEW n \in 0..Len(fs)
  PROVE  IsBoard(Boarded(b, SubSeq(fs, 1, n)))
<1> DEFINE k == LastReport(SubSeq(fs, 1, n), "kb", b.kb)
           m == LastReport(SubSeq(fs, 1, n), "ms", b.ms)
<1>a. b.ms \in SUBSET RigButtons /\ d.btn \in SUBSET RigButtons
  BY DEF IsBoard, IsComposer
<1>b. m \in SUBSET RigButtons => IsBoard(Boarded(b, SubSeq(fs, 1, n)))
  <2> HIDE DEF k, m
  <2> HAVE m \in SUBSET RigButtons
  <2>1. IsBoard(Showing(b, k, m))
    BY BoardFields
  <2> QED BY <2>1 DEF Boarded, Showing, k, m
<1>0. /\ \A x : KbdFrame(x).dev = "kb" /\ CtrlFrame.dev = "ctrl"
      /\ MouseFrame(d).dev = "ms" /\ MouseFrame(d).rep = d.btn
  BY DEF KbdFrame, CtrlFrame, MouseFrame
<1>1. CASE \E f : fs = << f >> /\ (f.dev = "ms" => f.rep \in SUBSET RigButtons)
  <2> PICK f : fs = << f >> /\ (f.dev = "ms" => f.rep \in SUBSET RigButtons)
    BY <1>1
  <2>0. n = 0 \/ n = 1
    OBVIOUS
  <2>1. SubSeq(fs, 1, n) = << >> \/ SubSeq(fs, 1, n) = << f >>
    BY <2>0, Beginnings
  <2>2. m \in SUBSET RigButtons
    <3>1. CASE SubSeq(fs, 1, n) = << >>
      BY <1>a, <3>1, NoneReported
    <3>2. CASE SubSeq(fs, 1, n) = << f >>
      <4>0. m = LastReport(<< f >>, "ms", b.ms)
        BY <3>2
      <4> HIDE DEF m
      <4>1. m = IF f.dev = "ms" THEN f.rep ELSE b.ms
        BY <4>0, OneReported
      <4> QED BY <1>a, <4>1
    <3> QED BY <2>1, <3>1, <3>2
  <2> QED BY <1>b, <2>2
<1>2. CASE \E f, g : fs = << f, g >> /\ f.dev = g.dev
                      /\ (f.dev = "ms" => f.rep \in SUBSET RigButtons /\ g.rep \in SUBSET RigButtons)
  <2> PICK f, g : fs = << f, g >> /\ f.dev = g.dev
                   /\ (f.dev = "ms" => f.rep \in SUBSET RigButtons /\ g.rep \in SUBSET RigButtons)
    BY <1>2
  <2>0. n = 0 \/ n = 1 \/ n = 2
    OBVIOUS
  <2>1. SubSeq(fs, 1, n) = << >> \/ SubSeq(fs, 1, n) = << f >> \/ SubSeq(fs, 1, n) = << f, g >>
    BY <2>0, Beginnings
  <2>2. m \in SUBSET RigButtons
    <3>1. CASE SubSeq(fs, 1, n) = << >>
      BY <1>a, <3>1, NoneReported
    <3>2. CASE SubSeq(fs, 1, n) = << f >>
      <4>0. m = LastReport(<< f >>, "ms", b.ms)
        BY <3>2
      <4> HIDE DEF m
      <4>1. m = IF f.dev = "ms" THEN f.rep ELSE b.ms
        BY <4>0, OneReported
      <4> QED BY <1>a, <4>1
    <3>3. CASE SubSeq(fs, 1, n) = << f, g >>
      <4>0. m = LastReport(<< f, g >>, "ms", b.ms)
        BY <3>3
      <4> HIDE DEF m
      <4>1. m = IF g.dev = "ms" THEN g.rep ELSE b.ms
        BY <4>0, TwoReported
      <4> QED BY <1>a, <4>1
    <3> QED BY <2>1, <3>1, <3>2, <3>3
  <2> QED BY <1>b, <2>2
<1>3. CASE \E x \in SUBSET RigButtons : fs = << [dev |-> "ms", rep |-> x], MouseFrame(d) >>
  BY <1>0, <1>a, <1>2, <1>3
<1> QED BY <1>0, <1>a, <1>1, <1>2, <1>3 DEF Makes

-----------------------------------------------------------------------------
(***************************************************************************)
(* The requests.                                                           *)
(***************************************************************************)

\* Other states, the same requests and the same answers.
Kept(rs, now) ==
  /\ now \in Seq(RigReq) /\ Len(now) = Len(rs)
  /\ \A r \in 1..Len(rs) : now[r].answer = rs[r].answer

LEMMA SettleKeeps ==
  ASSUME NEW rs \in Seq(RigReq), NEW r \in 1..Len(rs), NEW st \in RigStates
  PROVE  Kept(rs, [rs EXCEPT ![r].state = st])
<1>1. rs[r] \in RigReq
  OBVIOUS
<1> DEFINE q == [rs[r] EXCEPT !.state = st]
<1>2. q \in RigReq /\ q.answer = rs[r].answer
  BY <1>1 DEF RigReq
<1>3. [rs EXCEPT ![r].state = st] = [rs EXCEPT ![r] = q]
  OBVIOUS
<1> HIDE DEF q
<1>4. [rs EXCEPT ![r] = q] \in Seq(RigReq) /\ Len([rs EXCEPT ![r] = q]) = Len(rs)
  BY <1>2, ExceptSeq
<1>5. \A i \in 1..Len(rs) : [rs EXCEPT ![r] = q][i] = IF i = r THEN q ELSE rs[i]
  OBVIOUS
<1> QED BY <1>2, <1>3, <1>4, <1>5 DEF Kept

LEMMA KeptTwice ==
  ASSUME NEW a, NEW b, NEW c, Kept(a, b), Kept(b, c)
  PROVE  Kept(a, c)
BY DEF Kept

LEMMA LoseKeeps ==
  ASSUME RigInv, NEW rs, Kept(rigReqs, rs), Lose(rs)
  PROVE  Kept(rigReqs, rigReqs') /\ waiting' = 0
<1>1. CASE waiting = 0
  BY <1>1 DEF Lose
<1>2. CASE waiting # 0
  <2>1. waiting \in 1..Len(rs) /\ rs \in Seq(RigReq)
    BY <1>2 DEF RigInv, RigTypeOK, Kept, RigShape
  <2>2. Kept(rs, [rs EXCEPT ![waiting].state = "err"])
    BY <2>1, SettleKeeps DEF RigStates
  <2> QED BY <1>2, <2>2, KeptTwice DEF Lose
<1> QED BY <1>1, <1>2

LEMMA KeptItself == RigInv => Kept(rigReqs, rigReqs)
BY DEF RigInv, RigShape, Kept

\* A shorter queue, and the same requests, are still a queue of requests.
LEMMA QueueKept ==
  ASSUME RigInv, Kept(rigReqs, rigReqs'), rigQueue' \in {rigQueue, << >>} \/ (rigQueue # << >> /\ rigQueue' = Tail(rigQueue))
  PROVE  rigQueue' \in Seq(Nat) /\ \A i \in DOMAIN rigQueue' : rigQueue'[i] \in 0..Len(rigReqs')
<1>0. Len(rigReqs') = Len(rigReqs) /\ rigQueue \in Seq(Nat) /\ \A i \in DOMAIN rigQueue : rigQueue[i] \in 0..Len(rigReqs)
  BY DEF RigInv, RigShape, Kept
<1>1. CASE rigQueue' = rigQueue
  BY <1>0, <1>1
<1>2. CASE rigQueue' = << >>
  BY <1>2
<1>3. CASE rigQueue # << >> /\ rigQueue' = Tail(rigQueue)
  <2>1. \A i \in DOMAIN Tail(rigQueue) : i + 1 \in DOMAIN rigQueue /\ Tail(rigQueue)[i] = rigQueue[i + 1]
    BY <1>0, <1>3
  <2> QED BY <1>0, <1>3, <2>1
<1> QED BY <1>1, <1>2, <1>3

LEMMA HeadOfQueue ==
  ASSUME RigInv, rigQueue # << >>
  PROVE  Head(rigQueue) \in 0..Len(rigReqs)
BY DEF RigInv, RigShape

\* A step that leaves the answers alone keeps the invariant when what it does
\* to the composer and the board agrees, and it takes nothing from the board
\* unless a link is lost.
LEMMA StepKeeps ==
  ASSUME RigInv, IsComposer(composer'), IsBoard(board'), BoardIsAsComposed',
         Kept(rigReqs, rigReqs'), late' \in Seq(Nat), waiting' \in 0..Len(rigReqs'),
         doubt' \subseteq {"kb", "ms"}, upsets' \in 0..RigMaxEvents, OnlyOneIsOwed',
         upsets' = 0 => upsets = 0,
         rigQueue' \in {rigQueue, << >>} \/ (rigQueue # << >> /\ rigQueue' = Tail(rigQueue)),
         RigReleaseClears'
  PROVE  RigInv'
<1>1. RigShape'
  BY QueueKept DEF RigShape, Kept
<1>2. RigTypeOK'
  BY DEF RigTypeOK, IsComposer, IsBoard
<1>3. ReplyIsItsOwn'
  <2> SUFFICES ASSUME upsets' = 0, NEW r \in DOMAIN rigReqs' PROVE rigReqs'[r].answer \in {0, r}
    BY DEF ReplyIsItsOwn
  <2>1. r \in 1..Len(rigReqs) /\ r \in DOMAIN rigReqs
    BY DEF Kept, RigInv, RigShape
  <2>2. rigReqs[r].answer \in {0, r}
    BY <2>1 DEF RigInv, ReplyIsItsOwn
  <2> QED BY <2>1, <2>2 DEF Kept
<1> QED BY <1>1, <1>2, <1>3 DEF RigInv

LEMMA RigKnows ==
  ASSUME RigInv
  PROVE  /\ IsComposer(composer) /\ IsBoard(board) /\ late \in Seq(Nat) /\ waiting \in 0..Len(rigReqs)
         /\ doubt \subseteq {"kb", "ms"} /\ upsets \in 0..RigMaxEvents /\ OnlyOneIsOwed /\ BoardIsAsComposed
         /\ RigReleaseClears /\ rigReqs \in Seq(RigReq) /\ Len(rigReqs) \in Nat /\ Kept(rigReqs, rigReqs)
BY KeptItself DEF RigInv, RigShape, RigTypeOK

\* A loss: what was composed and written may differ, nothing else is said.
LEMMA LossKeeps ==
  ASSUME RigInv, NEW rs, Kept(rigReqs, rs), Lose(rs), IsComposer(composer'), IsBoard(board'),
         late' \in Seq(Nat), doubt' \subseteq {"kb", "ms"}, upsets' \in 1..RigMaxEvents, BoardIsAsComposed',
         rigQueue' \in {rigQueue, << >>} \/ (rigQueue # << >> /\ rigQueue' = Tail(rigQueue)), RigReleaseClears'
  PROVE  RigInv'
<1>1. Kept(rigReqs, rigReqs') /\ waiting' = 0
  BY LoseKeeps
<1>2. waiting' \in 0..Len(rigReqs')
  BY <1>1, RigKnows DEF Kept
<1>3. OnlyOneIsOwed' /\ (upsets' = 0 => upsets = 0) /\ upsets' \in 0..RigMaxEvents
  BY DEF OnlyOneIsOwed
<1> QED BY <1>1, <1>2, <1>3, StepKeeps

-----------------------------------------------------------------------------
(***************************************************************************)
(* The steps.                                                              *)
(***************************************************************************)

LEMMA OpenPortKeeps == ASSUME RigInv, OpenPort PROVE RigInv'
<1>1. UNCHANGED <<composer, board, late, waiting, rigQueue, rigReqs, doubt, freed, upsets>>
  BY DEF OpenPort
<1>2. BoardIsAsComposed' /\ OnlyOneIsOwed' /\ RigReleaseClears'
  BY <1>1, RigKnows DEF BoardIsAsComposed, OnlyOneIsOwed, RigReleaseClears, Report
<1> QED BY <1>1, <1>2, RigKnows, StepKeeps

LEMMA DrainKeeps == ASSUME RigInv, DrainFailing PROVE RigInv'
<1>1. UNCHANGED <<composer, board, late, waiting, doubt, upsets>> /\ rigQueue' = << >>
  BY DEF DrainFailing
<1>2. BoardIsAsComposed' /\ OnlyOneIsOwed'
  BY <1>1, RigKnows DEF BoardIsAsComposed, OnlyOneIsOwed, Report
<1>3. RigReleaseClears'
  BY <1>1, RigKnows DEF DrainFailing, RigReleaseClears
<1>4. Kept(rigReqs, rigReqs')
  <2> DEFINE Q == Range(rigQueue)
  <2>0. rigReqs' = [r \in DOMAIN rigReqs |-> IF r \in Q THEN [rigReqs[r] EXCEPT !.state = "err"] ELSE rigReqs[r]]
    BY DEF DrainFailing
  <2> HIDE DEF Q
  <2>1. \A r \in DOMAIN rigReqs :
          [rigReqs[r] EXCEPT !.state = "err"] \in RigReq /\ [rigReqs[r] EXCEPT !.state = "err"].answer = rigReqs[r].answer
    <3> TAKE r \in DOMAIN rigReqs
    <3>1. rigReqs[r] \in RigReq
      BY RigKnows
    <3> QED BY <3>1 DEF RigReq, RigStates
  <2>2. DOMAIN rigReqs = 1..Len(rigReqs) /\ \A r \in 1..Len(rigReqs) : rigReqs[r] \in RigReq
    BY RigKnows
  <2>3. \A r \in 1..Len(rigReqs) : rigReqs'[r] \in RigReq /\ rigReqs'[r].answer = rigReqs[r].answer
    BY <2>0, <2>1, <2>2
  <2>4. rigReqs' \in Seq(RigReq) /\ Len(rigReqs') = Len(rigReqs)
    BY <2>0, <2>2, <2>3, RigKnows
  <2> QED BY <2>3, <2>4 DEF Kept
<1>5. waiting' \in 0..Len(rigReqs')
  BY <1>1, <1>4, RigKnows DEF Kept
<1> QED BY <1>1, <1>2, <1>3, <1>4, <1>5, RigKnows, StepKeeps

LEMMA ServiceKeeps == ASSUME RigInv, ServiceRequest PROVE RigInv'
<1> DEFINE r == Head(rigQueue)
           cmd == rigReqs[r].cmd
           fs == Frames(composer, cmd)
           ctrl == \E i \in DOMAIN fs : fs[i].dev = "ctrl"
<1>0. /\ rigQueue # << >> /\ rigQueue' = Tail(rigQueue) /\ waiting = 0
      /\ r \in 1..Len(rigReqs) /\ rigReqs[r] \in RigReq /\ cmd \in RigCommands
      /\ RigReleaseClears'
  <2>1. rigQueue # << >> /\ rigQueue' = Tail(rigQueue) /\ waiting = 0 /\ r # 0
    BY DEF ServiceRequest, Draining
  <2>2. r \in 1..Len(rigReqs)
    BY <2>1, HeadOfQueue
  <2>3. rigReqs[r] \in RigReq
    BY <2>2, RigKnows
  <2>4. freed' # "written"
    BY DEF ServiceRequest
  <2> QED BY <2>1, <2>2, <2>3, <2>4 DEF RigReq, RigReleaseClears
<1>1. /\ IsComposer(Composed(composer, cmd))
      /\ Makes(composer, Composed(composer, cmd), fs)
  BY <1>0, RigKnows, CommandMakes
<1>2. \A st \in RigStates : Kept(rigReqs, Settle(r, st))
  BY <1>0, RigKnows, SettleKeeps DEF Settle
<1>3. CASE /\ rigReqs' \in {Settle(r, "skipped"), Settle(r, "err")}
           /\ UNCHANGED <<composer, board, late, rigOpen, waiting, doubt, upsets>>
  <2>1. Kept(rigReqs, rigReqs')
    BY <1>2, <1>3 DEF RigStates
  <2>2. BoardIsAsComposed' /\ OnlyOneIsOwed'
    BY <1>3, RigKnows DEF BoardIsAsComposed, OnlyOneIsOwed, Report
  <2>3. waiting' \in 0..Len(rigReqs')
    BY <1>3, <2>1, RigKnows DEF Kept
  <2> QED BY <1>0, <1>3, <2>1, <2>2, <2>3, RigKnows, StepKeeps
<1>4. CASE /\ composer' = Composed(composer, cmd)
           /\ board' = Boarded(board, fs)
           /\ doubt' = IF ctrl THEN doubt ELSE doubt \ {fs[1].dev}
           /\ waiting' = IF ctrl THEN r ELSE waiting
           /\ late' = IF ctrl THEN Append(late, r) ELSE late
           /\ rigReqs' = Settle(r, IF ctrl THEN "awaits" ELSE "ok")
           /\ UNCHANGED <<rigOpen, upsets>>
  <2>1. Kept(rigReqs, rigReqs')
    BY <1>2, <1>4 DEF RigStates
  <2>2. IsBoard(board') /\ Agrees(composer, composer', fs, board, board')
    <3> HIDE DEF fs
    <3>1. IsComposer(composer') /\ Makes(composer, composer', fs) /\ IsBoard(board) /\ board' = Boarded(board, fs)
      BY <1>1, <1>4, RigKnows
    <3> QED BY <3>1, WholeCommand
  <2>3. BoardIsAsComposed'
    <3>1. ("kb" \notin doubt => board.kb = Nothing(composer)) /\ ("ms" \notin doubt => board.ms = composer.btn)
      BY RigKnows DEF BoardIsAsComposed, Nothing
    <3>2. ("kb" \notin doubt' => board'.kb = Nothing(composer')) /\ ("ms" \notin doubt' => board'.ms = composer'.btn)
      <4> HIDE DEF fs
      <4>1. CASE fs[1].dev = "kb" /\ ~ctrl /\ composer'.btn = composer.btn /\ board'.kb = Nothing(composer') /\ board'.ms = board.ms
        BY <1>4, <3>1, <4>1
      <4>2. CASE fs[1].dev = "ms" /\ ~ctrl /\ Same(composer, composer') /\ board'.kb = board.kb /\ board'.ms = composer'.btn
        BY <1>4, <3>1, <4>2, SameReport
      <4>3. CASE ctrl /\ composer' = composer /\ board'.kb = board.kb /\ board'.ms = board.ms
        BY <1>4, <3>1, <4>3
      <4> QED BY <2>2, <4>1, <4>2, <4>3 DEF Agrees
    <3> QED BY <3>2 DEF BoardIsAsComposed, Nothing
  <2>4. waiting' \in 0..Len(rigReqs') /\ late' \in Seq(Nat) /\ doubt' \subseteq {"kb", "ms"}
    <3> HIDE DEF ctrl, fs
    <3>1. waiting' \in {0, r} /\ Len(rigReqs') = Len(rigReqs)
      BY <1>0, <1>4, <2>1 DEF Kept
    <3>2. late' \in Seq(Nat)
      BY <1>0, <1>4, RigKnows
    <3>3. doubt' \subseteq doubt
      BY <1>4
    <3> HIDE DEF r
    <3> QED BY <1>0, <3>1, <3>2, <3>3, RigKnows
  <2>5. OnlyOneIsOwed'
    <3> HIDE DEF ctrl, fs
    <3>1. upsets = 0 => late = << >>
      BY <1>0, RigKnows DEF OnlyOneIsOwed
    <3>2. CASE ctrl
      BY <1>0, <1>4, <3>1, <3>2 DEF OnlyOneIsOwed
    <3>3. CASE ~ctrl
      BY <1>0, <1>4, <3>1, <3>3 DEF OnlyOneIsOwed
    <3> QED BY <3>2, <3>3
  <2>6. IsComposer(composer') /\ upsets' \in 0..RigMaxEvents /\ (upsets' = 0 => upsets = 0)
    BY <1>1, <1>4, RigKnows
  <2> QED BY <1>0, <2>1, <2>2, <2>3, <2>4, <2>5, <2>6, StepKeeps
<1>5. CASE /\ upsets < RigMaxEvents /\ upsets' = upsets + 1
           /\ composer' = Composed(composer, cmd)
           /\ \E n \in 0..Len(fs) : board' = Boarded(board, SubSeq(fs, 1, n))
           /\ doubt' = {"kb", "ms"}
           /\ Lose(Settle(r, "err"))
           /\ UNCHANGED late
  <2>1. IsBoard(board')
    <3> HIDE DEF fs
    <3> PICK n \in 0..Len(fs) : board' = Boarded(board, SubSeq(fs, 1, n))
      BY <1>5
    <3> QED BY <1>1, RigKnows, PartOfCommand
  <2>2. Kept(rigReqs, Settle(r, "err"))
    BY <1>2 DEF RigStates
  <2>3. BoardIsAsComposed' /\ upsets' \in 1..RigMaxEvents /\ late' \in Seq(Nat)
    BY <1>5, RigKnows DEF BoardIsAsComposed
  <2> QED BY <1>0, <1>1, <1>5, <2>1, <2>2, <2>3, LossKeeps
<1> QED BY <1>3, <1>4, <1>5 DEF ServiceRequest

LEMMA ReleaseIsNothing ==
  /\ IsComposer(ReleaseEverything(composer))
  /\ Nothing(ReleaseEverything(composer)) = {} /\ ReleaseEverything(composer).btn = {}
<1> DEFINE c == ReleaseEverything(composer)
<1>1. c = [mods |-> {}, keys |-> << >>, btn |-> {}]
  BY DEF ReleaseEverything
<1>2. IsComposer(c) /\ c.mods = {} /\ c.keys = << >> /\ c.btn = {}
  BY <1>1 DEF IsComposer
<1> HIDE DEF c
<1>3. << >> \o << >> = << >> /\ Len(<< >>) = 0 /\ Len(<< >>) < RigSlots /\ SubSeq(<< >>, 1, 0) = << >> /\ Range(<< >>) = {}
  <2>1. << >> \in Seq(Nat)
    OBVIOUS
  <2>2. SubSeq(<< >>, 1, 0) = << >>
    BY <2>1, SubSeqEmpty
  <2> QED BY <2>2 DEF Range
<1>4. Nothing(c) = {}
  BY <1>2, <1>3 DEF Nothing, Report
<1> QED BY <1>2, <1>4 DEF c

LEMMA ReleaseKeeps == ASSUME RigInv, ServiceRelease PROVE RigInv'
<1>0. /\ rigQueue # << >> /\ rigQueue' = Tail(rigQueue) /\ UNCHANGED late
      /\ IsComposer(composer') /\ Nothing(composer') = {} /\ composer'.btn = {}
  BY ReleaseIsNothing DEF ServiceRelease
<1>1. CASE /\ freed' = "written" /\ doubt' = {}
           /\ board' = Boarded(board, << KbdFrame(Report(composer', {}, << >>)), MouseFrame(composer') >>)
           /\ UNCHANGED <<rigOpen, waiting, rigReqs, upsets>>
  <2> DEFINE f == KbdFrame(Nothing(composer'))
             g == MouseFrame(composer')
  <2>1. f.dev = "kb" /\ f.rep = {} /\ g.dev = "ms" /\ g.rep = {} /\ board' = Boarded(board, << f, g >>)
    BY <1>0, <1>1 DEF KbdFrame, MouseFrame, Nothing
  <2> HIDE DEF f, g
  <2>2. LastReport(<< f, g >>, "kb", board.kb) = {} /\ LastReport(<< f, g >>, "ms", board.ms) = {}
    BY <2>1, BothReported
  <2>3. board' = Showing(board, {}, {})
    BY <2>1, <2>2 DEF Boarded, Showing
  <2>4. IsBoard(board') /\ board'.kb = {} /\ board'.ms = {}
    BY <2>3, RigKnows, BoardFields
  <2>5. BoardIsAsComposed' /\ RigReleaseClears'
    BY <1>0, <2>4 DEF BoardIsAsComposed, RigReleaseClears, Nothing
  <2>6. OnlyOneIsOwed' /\ waiting' \in 0..Len(rigReqs') /\ late' \in Seq(Nat) /\ Kept(rigReqs, rigReqs')
    BY <1>0, <1>1, RigKnows DEF OnlyOneIsOwed
  <2>7. upsets' \in 0..RigMaxEvents /\ (upsets' = 0 => upsets = 0) /\ doubt' \subseteq {"kb", "ms"}
    BY <1>1, RigKnows
  <2> QED BY <1>0, <2>4, <2>5, <2>6, <2>7, StepKeeps
<1>2. CASE /\ upsets < RigMaxEvents /\ upsets' = upsets + 1
           /\ freed' = "unwritten" /\ doubt' = {"kb", "ms"} /\ Lose(rigReqs)
           /\ UNCHANGED board
  <2>1. BoardIsAsComposed' /\ RigReleaseClears' /\ upsets' \in 1..RigMaxEvents /\ late' \in Seq(Nat) /\ IsBoard(board')
    BY <1>0, <1>2, RigKnows DEF BoardIsAsComposed, RigReleaseClears
  <2> QED BY <1>0, <1>2, <2>1, RigKnows, LossKeeps
<1> QED BY <1>1, <1>2 DEF ServiceRelease

LEMMA DemuxKeeps == ASSUME RigInv, Demux PROVE RigInv'
<1>0. /\ UNCHANGED <<composer, board, rigOpen, rigQueue, doubt, freed, upsets>>
      /\ late # << >> /\ late' = Tail(late) /\ waiting' = 0
  BY DEF Demux
<1>1. BoardIsAsComposed' /\ RigReleaseClears' /\ late' \in Seq(Nat)
  BY <1>0, RigKnows DEF BoardIsAsComposed, RigReleaseClears, Report
<1>2. upsets = 0 => waiting # 0 /\ late = << waiting >> /\ Head(late) = waiting /\ late' = << >>
  BY <1>0, RigKnows DEF OnlyOneIsOwed
<1>3. OnlyOneIsOwed'
  BY <1>0, <1>2 DEF OnlyOneIsOwed
<1>4. CASE waiting = 0
  <2>1. rigReqs' = rigReqs
    BY <1>4 DEF Demux
  <2> QED BY <1>0, <1>1, <1>3, <2>1, RigKnows, StepKeeps
<1>5. CASE waiting # 0
  <2> DEFINE h == Head(late)
             q == [rigReqs[waiting] EXCEPT !.state = "ok", !.answer = h]
  <2>1. waiting \in 1..Len(rigReqs) /\ rigReqs[waiting] \in RigReq /\ h \in Nat
    BY <1>0, <1>5, RigKnows
  <2>2. rigReqs' = [rigReqs EXCEPT ![waiting] = q]
    BY <1>5 DEF Demux
  <2>3. q \in RigReq /\ q.answer = h
    <3> HIDE DEF h
    <3> QED BY <2>1 DEF RigReq, RigStates
  <2> HIDE DEF q, h
  <2>4. rigReqs' \in Seq(RigReq) /\ Len(rigReqs') = Len(rigReqs)
        /\ \A j \in 1..Len(rigReqs) : rigReqs'[j] = IF j = waiting THEN q ELSE rigReqs[j]
    BY <2>1, <2>2, <2>3, RigKnows, ExceptSeq
  <2>5. ReplyIsItsOwn'
    <3> SUFFICES ASSUME upsets' = 0, NEW j \in DOMAIN rigReqs' PROVE rigReqs'[j].answer \in {0, j}
      BY DEF ReplyIsItsOwn
    <3>1. j \in 1..Len(rigReqs) /\ j \in DOMAIN rigReqs /\ upsets = 0
      BY <1>0, <2>4, RigKnows
    <3>2. rigReqs[j].answer \in {0, j}
      BY <3>1 DEF RigInv, ReplyIsItsOwn
    <3>3. h = waiting
      BY <1>2, <3>1 DEF h
    <3> QED BY <2>3, <2>4, <3>1, <3>2, <3>3
  <2>6. RigShape'
    BY <1>0, <1>1, <2>4, RigKnows DEF RigInv, RigShape
  <2>7. RigTypeOK'
    BY <1>0, <2>4, RigKnows DEF RigInv, RigTypeOK
  <2> QED BY <1>1, <1>3, <2>5, <2>6, <2>7 DEF RigInv
<1> QED BY <1>4, <1>5

LEMMA TimeoutKeeps == ASSUME RigInv, ReplyTimeout \/ LinkLost PROVE RigInv'
<1>0. UNCHANGED <<composer, board, late, rigQueue, doubt, freed>> /\ Lose(rigReqs)
  BY DEF ReplyTimeout, LinkLost
<1>1. upsets' \in 1..RigMaxEvents
  BY RigKnows DEF ReplyTimeout, LinkLost
<1>2. BoardIsAsComposed' /\ RigReleaseClears'
  BY <1>0, RigKnows DEF BoardIsAsComposed, RigReleaseClears, Report
<1> QED BY <1>0, <1>1, <1>2, RigKnows, LossKeeps

LEMMA BenchKeeps == ASSUME RigInv, RigBench PROVE RigInv'
<1>0. /\ UNCHANGED <<composer, rigQueue, freed>> /\ Lose(rigReqs)
      /\ upsets' \in 1..RigMaxEvents
  BY RigKnows DEF RigBench
<1>1. CASE board' = [board EXCEPT !.there = ~board.there] /\ UNCHANGED <<late, doubt>>
  <2>1. IsBoard(board') /\ board'.kb = board.kb /\ board'.ms = board.ms
    BY <1>1, RigKnows DEF IsBoard
  <2>2. BoardIsAsComposed' /\ RigReleaseClears'
    BY <1>0, <1>1, <2>1, RigKnows DEF BoardIsAsComposed, RigReleaseClears, Report
  <2> QED BY <1>0, <1>1, <2>1, <2>2, RigKnows, LossKeeps
<1>2. CASE board' = [board EXCEPT !.kb = {}, !.ms = {}] /\ late' = << >> /\ doubt' = {"kb", "ms"}
  <2>1. board' = Showing(board, {}, {})
    BY <1>2 DEF Showing
  <2>2. IsBoard(board') /\ board'.kb = {} /\ board'.ms = {}
    BY <2>1, RigKnows, BoardFields
  <2>3. BoardIsAsComposed' /\ RigReleaseClears' /\ late' \in Seq(Nat)
    BY <1>2, <2>2 DEF BoardIsAsComposed, RigReleaseClears
  <2> QED BY <1>0, <1>2, <2>2, <2>3, RigKnows, LossKeeps
<1> QED BY <1>1, <1>2 DEF RigBench

LEMMA GiveUpKeeps == ASSUME RigInv, NEW r \in DOMAIN rigReqs, RigGiveUp(r) PROVE RigInv'
<1>0. /\ UNCHANGED <<composer, board, late, rigOpen, waiting, rigQueue, doubt, freed, upsets>>
      /\ rigReqs' = [rigReqs EXCEPT ![r].client = "left"]
  BY DEF RigGiveUp
<1>1. Kept(rigReqs, rigReqs')
  <2> DEFINE q == [rigReqs[r] EXCEPT !.client = "left"]
  <2>1. rigReqs[r] \in RigReq /\ r \in 1..Len(rigReqs)
    BY RigKnows
  <2>2. q \in RigReq /\ q.answer = rigReqs[r].answer
    BY <2>1 DEF RigReq
  <2>3. rigReqs' = [rigReqs EXCEPT ![r] = q]
    BY <1>0
  <2> HIDE DEF q
  <2> QED BY <2>1, <2>2, <2>3, RigKnows, ExceptSeq DEF Kept
<1>2. BoardIsAsComposed' /\ OnlyOneIsOwed' /\ RigReleaseClears' /\ waiting' \in 0..Len(rigReqs')
  BY <1>0, <1>1, RigKnows DEF BoardIsAsComposed, OnlyOneIsOwed, RigReleaseClears, Report, Kept
<1> QED BY <1>0, <1>1, <1>2, RigKnows, StepKeeps

\* A longer queue.
LEMMA SendKeeps ==
  ASSUME RigInv, (\E cmd \in RigCommands : RigSend(cmd)) \/ RigShutdown
  PROVE  RigInv'
<1>0. UNCHANGED <<composer, board, late, rigOpen, waiting, doubt, upsets>> /\ (freed' = freed \/ freed' = "asked")
  BY DEF RigSend, RigShutdown
<1>1. BoardIsAsComposed' /\ OnlyOneIsOwed' /\ RigReleaseClears'
  BY <1>0, RigKnows DEF BoardIsAsComposed, OnlyOneIsOwed, RigReleaseClears, Report
<1>2. rigQueue \in Seq(Nat) /\ \A i \in DOMAIN rigQueue : rigQueue[i] \in 0..Len(rigReqs)
  BY DEF RigInv, RigShape
<1>3. CASE RigShutdown
  <2>1. rigQueue' = Append(rigQueue, 0) /\ rigReqs' = rigReqs
    BY <1>3 DEF RigShutdown
  <2>2. RigShape'
    BY <1>0, <1>2, <2>1, RigKnows DEF RigShape
  <2>3. RigTypeOK' /\ ReplyIsItsOwn'
    BY <1>0, <2>1 DEF RigInv, RigTypeOK, ReplyIsItsOwn
  <2> QED BY <1>1, <2>2, <2>3 DEF RigInv
<1>4. CASE \E cmd \in RigCommands : RigSend(cmd)
  <2> PICK cmd \in RigCommands : RigSend(cmd)
    BY <1>4
  <2> DEFINE q == [cmd |-> cmd, state |-> "queued", client |-> "waits", answer |-> 0]
  <2>1. q \in RigReq /\ q.answer = 0
    BY DEF RigReq, RigStates
  <2>2. rigReqs' = Append(rigReqs, q) /\ rigQueue' = Append(rigQueue, Len(rigReqs) + 1)
    BY DEF RigSend
  <2> HIDE DEF q
  <2>3. /\ rigReqs' \in Seq(RigReq) /\ Len(rigReqs') = Len(rigReqs) + 1
        /\ \A j \in 1..Len(rigReqs) : rigReqs'[j] = rigReqs[j]
        /\ rigReqs'[Len(rigReqs) + 1] = q
    BY <2>1, <2>2, RigKnows
  <2>4. rigQueue' \in Seq(Nat) /\ \A i \in DOMAIN rigQueue' : rigQueue'[i] \in 0..Len(rigReqs')
    BY <1>2, <2>2, <2>3, RigKnows
  <2>5. RigShape'
    BY <1>0, <2>3, <2>4, RigKnows DEF RigShape
  <2>6. RigTypeOK'
    BY <1>0, <2>3, RigKnows DEF RigInv, RigTypeOK
  <2>7. ReplyIsItsOwn'
    <3> SUFFICES ASSUME upsets' = 0, NEW j \in DOMAIN rigReqs' PROVE rigReqs'[j].answer \in {0, j}
      BY DEF ReplyIsItsOwn
    <3>1. CASE j = Len(rigReqs) + 1
      BY <2>1, <2>3, <3>1
    <3>2. CASE j # Len(rigReqs) + 1
      <4>1. j \in DOMAIN rigReqs /\ rigReqs'[j] = rigReqs[j]
        BY <2>3, <3>2, RigKnows
      <4> QED BY <1>0, <4>1 DEF RigInv, ReplyIsItsOwn
    <3> QED BY <3>1, <3>2
  <2> QED BY <1>1, <2>5, <2>6, <2>7 DEF RigInv
<1> QED BY <1>3, <1>4

LEMMA RigInitInv == RigInit => RigInv
<1> SUFFICES ASSUME RigInit PROVE RigInv
  OBVIOUS
<1>1. RigShape /\ RigTypeOK
  BY DEF RigInit, RigShape, RigTypeOK, IsComposer, IsBoard
<1>2. BoardIsAsComposed
  <2>1. composer = ReleaseEverything(composer)
    BY DEF RigInit, ReleaseEverything
  <2>2. Report(composer, {}, << >>) = {}
    BY <2>1, ReleaseIsNothing DEF Nothing
  <2> QED BY <2>2 DEF RigInit, BoardIsAsComposed
<1>3. OnlyOneIsOwed /\ ReplyIsItsOwn /\ RigReleaseClears
  BY DEF RigInit, OnlyOneIsOwed, ReplyIsItsOwn, RigReleaseClears
<1> QED BY <1>1, <1>2, <1>3 DEF RigInv

\* Of hidrig's owner: the variables have their types, the board holds what was
\* composed unless a write failed or it lost power, one reply is owed at a time.
THEOREM RigInvariant == RigSpec => []RigInv
<1>1. RigInv /\ [RigNext]_rigVars => RigInv'
  <2> SUFFICES ASSUME RigInv, [RigNext]_rigVars PROVE RigInv'
    OBVIOUS
  <2>1. CASE UNCHANGED rigVars
    <3>1. UNCHANGED <<composer, board, late, waiting, rigQueue, rigReqs, doubt, freed, upsets>>
      BY <2>1 DEF rigVars
    <3>2. BoardIsAsComposed' /\ OnlyOneIsOwed' /\ RigReleaseClears'
      BY <3>1, RigKnows DEF BoardIsAsComposed, OnlyOneIsOwed, RigReleaseClears, Report
    <3> QED BY <3>1, <3>2, RigKnows, StepKeeps
  <2>2. CASE RigNext
    BY <2>2, OpenPortKeeps, DrainKeeps, ServiceKeeps, ReleaseKeeps, DemuxKeeps, TimeoutKeeps, BenchKeeps,
       GiveUpKeeps, SendKeeps DEF RigNext, RigOwner
  <2> QED BY <2>1, <2>2
<1> QED BY <1>1, RigInitInv, PTL DEF RigSpec

\* Nothing composed is missing on the board or left on it, a control command never
\* gets an earlier one's reply, and a written shutdown release leaves nothing down.
THEOREM RigAlwaysKept == RigSpec => []RigIsKept
<1>1. RigInv => RigIsKept
  BY DEF RigInv, RigIsKept
<1> QED BY <1>1, RigInvariant, PTL

HIDE RigAssumption

-----------------------------------------------------------------------------
(***************************************************************************)
(* ch9329: what the owner has left to write, what it believes held and     *)
(* what the chip holds fit together at every step of a command.            *)
(***************************************************************************)

ChKeys == Usages \cup Modifiers
Chars == [usage : Usages, shift : SUBSET Modifiers]
ChReq == [cmd : Commands, state : {"queued", "running", "ok", "err", "skipped"},
          client : {"waits", "left"}]
ChipSet == [up : BOOLEAN, kb : SUBSET (Usages \cup Modifiers), ms : SUBSET Buttons,
            rate : Rates, flash : Rates, side : {"host", "target"}]
SessionSet == [open : BOOLEAN, held : SUBSET (Usages \cup Modifiers), btn : SUBSET Buttons,
               baud : Rates]

\* What the queue and the requests are made of, and the order of the queue.
ChQueueInv ==
  /\ reqs \in Seq(ChReq) /\ Len(reqs) <= MaxReqs /\ queue \in Seq(Nat)
  /\ \A i, j \in DOMAIN queue : i < j /\ queue[j] # 0 => queue[i] < queue[j]
  /\ \A i, j \in DOMAIN queue : queue[i] = 0 /\ queue[j] = 0 => i = j
  /\ \A r \in DOMAIN reqs : reqs[r].state = "queued" => \E i \in DOMAIN queue : queue[i] = r

\* The release is asked for once, and served after it was asked for.
Releasing == job.req = MaxReqs + 1
ReleaseInv ==
  /\ (\E i \in DOMAIN queue : queue[i] = 0) => released = "asked"
  /\ Releasing => released = "asked" /\ \A i \in DOMAIN queue : queue[i] # 0
  /\ released = "done" => Idle

\* A report the owner has no reason to doubt is what the session believes.
KbSure == session.open /\ "kb" \notin unsure => chip.kb = session.held
MsSure == session.open /\ "ms" \notin unsure => chip.ms = session.btn

\* The command at hand.
Serving == job.req \in DOMAIN reqs
Verb == reqs[job.req].cmd.verb
HoldVerbs == {"key", "combo", "type"}
Holds == Serving /\ Verb \in HoldVerbs

JobShape ==
  /\ job.err \in {"none", "timeout", "bad"} /\ job.faults \in 0..2 /\ job.text \in Seq(Chars)
  /\ job.was \subseteq ChKeys

\* What a command that holds keys and lets them go has left to write.
PressLeft(t, P) == t = << Kb(P, "press"), Kb(session.held, "release") >>
EdgeLeft(t, P, k) ==
  t = << Kb(session.held \ {k}, "only"), Kb(P, "press"), Kb(session.held, "release") >>
Pressing(t) ==
  \/ \E P \in SUBSET ChKeys : PressLeft(t, P) /\ (Verb = "type" /\ "kb" \notin unsure => P # chip.kb)
  \/ \E P \in SUBSET ChKeys : \E k \in P : EdgeLeft(t, P, k)
HoldInv(t) ==
  \/ /\ session.held \subseteq job.was /\ chip.kb \subseteq job.was
     /\ job.faults = 0 /\ job.err = "none" /\ Pressing(t)
  \/ /\ session.held \subseteq job.was
     /\ job.faults = 0 /\ job.err = "none" /\ t = << Kb(session.held, "release") >>
  \/ /\ session.held \subseteq job.was
     /\ job.faults >= 1 /\ job.err # "none" /\ t = << Kb(session.held, "only") >>
  \/ t = << >> /\ KbSure /\ (job.faults <= 1 => chip.kb \subseteq job.was)

\* What any other command has left to write.
Probes3 == << Ask("probe", {}), Ask("probe", {}), Ask("probe", {}) >>
Probes2 == << Ask("probe", {}), Ask("probe", {}) >>
Probes1 == << Ask("probe", {}) >>
Reset4(r) == << Ask("reset", r), Ask("probe", {}), Ask("probe", {}), Ask("probe", {}) >>
Persist5(r) ==
  << Ask("persist", r), Ask("reset", r), Ask("probe", {}), Ask("probe", {}), Ask("probe", {}) >>
AskLeft(t) ==
  \/ t = << Ask("query", {}) >>
  \/ \E a \in {"host", "target", "state"} : t = << Ask("mux", a) >>
  \/ t = Probes3 \/ t = Probes2 \/ t = Probes1
  \/ \E r \in Rates : t = SetBaud(r) \/ t = Persist5(r) \/ t = Reset4(r)
OtherInv(t) ==
  \/ t = << Kb(session.held, "only") >> /\ MsSure
  \/ (\E M \in SUBSET Buttons : t = << Ms(M), Ms(session.btn) >>) /\ KbSure
  \/ t = << Ms(session.btn) >> /\ KbSure
  \/ AskLeft(t) /\ KbSure /\ MsSure
  \/ t = << >> /\ KbSure /\ MsSure

\* What the shutdown release has left to write.
EndInv(t) ==
  \/ t = << Kb({}, "only"), Ms({}) >> /\ job.err = "none" /\ MsSure
  \/ t = << Ms({}) >> /\ KbSure /\ job.err = "none" /\ chip.kb = {}
  \/ t = << >> /\ KbSure /\ MsSure /\ (job.err = "none" => chip.kb = {} /\ chip.ms = {})

JobInv ==
  /\ JobShape
  /\ Idle => KbSure /\ MsSure
  /\ ~Idle => (Serving /\ reqs[job.req].state = "running") \/ Releasing
  /\ ~session.open => job.todo = << >>
  /\ Holds => (session.open => HoldInv(job.todo)) /\ MsSure /\ (Verb # "type" => job.text = << >>)
  /\ Serving /\ ~Holds => OtherInv(job.todo) /\ job.text = << >>
  /\ Releasing => EndInv(job.todo) /\ job.text = << >> /\ (session.open => session.held = {})

\* Between the stored rate and the reset that takes it up the chip talks at the old one.
Between == job.todo # << >> /\ Head(job.todo).role = "reset"
RateInv ==
  ~slipped =>
    /\ ~Between => chip.rate = chip.flash
    /\ session.open /\ ~Between => session.baud = chip.flash
    /\ Between => chip.flash = Head(job.todo).rep
    /\ (Idle \/ ~session.open \/ Releasing) => chip.flash \in ProbeOrder(lastBaud)

ChInv ==
  /\ ChTypeOK
  /\ ChQueueInv
  /\ AbandonedIsSkipped
  /\ ReleaseInv
  /\ ReleaseClears
  /\ JobInv
  /\ RateInv

USE ChAssumption

-----------------------------------------------------------------------------
(***************************************************************************)
(* The reports a command makes.                                            *)
(***************************************************************************)

LEMMA SubsetOfSize ==
  ASSUME NEW S, IsFiniteSet(S), NEW n \in Nat, n <= Cardinality(S)
  PROVE  \E t \in SUBSET S : Cardinality(t) = n
<1> DEFINE m == Cardinality(S)
<1>1. m \in Nat /\ ExistsBijection(1..m, S)
  BY FS_CardinalityType
<1>2. PICK f : f \in Bijection(1..m, S)
  BY <1>1 DEF ExistsBijection
<1> DEFINE t == { f[i] : i \in 1..n }
           g == [i \in 1..n |-> f[i]]
<1>3. n <= m
  OBVIOUS
<1> HIDE DEF m
<1>4. f \in [1..m -> S] /\ \A i, j \in 1..m : f[i] = f[j] => i = j
  BY <1>2 DEF Bijection, Injection, IsInjective
<1>5. \A i \in 1..n : i \in 1..m
  BY <1>1, <1>3
<1>6. t \in SUBSET S
  BY <1>4, <1>5
<1>7. g \in [1..n -> t]
  OBVIOUS
<1>8. g \in Injection(1..n, t)
  BY <1>4, <1>5, <1>7 DEF Injection, IsInjective
<1>9. g \in Surjection(1..n, t)
  BY <1>7 DEF Surjection
<1>10. ExistsBijection(1..n, t)
  BY <1>8, <1>9 DEF ExistsBijection, Bijection
<1>11. IsFiniteSet(1..n) /\ Cardinality(1..n) = n
  <2>1. 1 \in Int /\ n \in Int
    OBVIOUS
  <2>2. IsFiniteSet(1..n) /\ Cardinality(1..n) = IF 1 > n THEN 0 ELSE n - 1 + 1
    BY <2>1, FS_Interval
  <2> QED BY <2>2
<1>12. Cardinality(t) = n
  BY <1>10, <1>11, FS_Bijection
<1> QED BY <1>6, <1>12

LEMMA AtMostOf ==
  ASSUME NEW S, IsFiniteSet(S), NEW n \in Nat
  PROVE  AtMost(S, n) \subseteq S
<1>1. CASE Cardinality(S) <= n
  BY <1>1 DEF AtMost
<1>2. CASE ~(Cardinality(S) <= n)
  <2>1. Cardinality(S) \in Nat
    BY FS_CardinalityType
  <2>2. \E t \in SUBSET S : Cardinality(t) = n
    BY <1>2, <2>1, SubsetOfSize
  <2> QED BY <1>2, <2>2 DEF AtMost
<1> QED BY <1>1, <1>2

LEMMA DownIsOfKeys ==
  ASSUME NEW held \in SUBSET ChKeys, NEW keys \in SUBSET ChKeys
  PROVE  ApplyDown(held, keys) \subseteq ChKeys
<1>1. IsFiniteSet(held \cap Usages) /\ IsFiniteSet((keys \cap Usages) \ held)
  BY FS_Subset
<1>2. Used(held) \in Nat
  BY <1>1, FS_CardinalityType DEF Used
<1>3. Free(held) \in Nat
  BY <1>2 DEF Free
<1> QED BY <1>1, <1>3, AtMostOf DEF ApplyDown, ChKeys

LEMMA TypedIsOfKeys ==
  ASSUME NEW held \in SUBSET ChKeys, NEW ch \in Chars
  PROVE  (held \ Usages) \cup AtMost((held \cap Usages) \ {ch.usage}, KeySlots - 1)
           \cup ch.shift \cup {ch.usage} \in SUBSET ChKeys
<1>1. IsFiniteSet((held \cap Usages) \ {ch.usage})
  BY FS_Subset
<1>2. KeySlots - 1 \in Nat
  OBVIOUS
<1>3. AtMost((held \cap Usages) \ {ch.usage}, KeySlots - 1) \subseteq (held \cap Usages) \ {ch.usage}
  BY <1>1, <1>2, AtMostOf
<1>4. ch.usage \in Usages /\ ch.shift \subseteq Modifiers
  BY DEF Chars
<1> QED BY <1>3, <1>4 DEF ChKeys

\* A character is an edge the target sees: its key is up when its press is written.
LEMMA TypeCharLeft ==
  ASSUME NEW held \in SUBSET ChKeys, NEW ch \in Chars
  PROVE  \E P \in SUBSET ChKeys :
           \/ ch.usage \in P \ held
              /\ TypeChar(held, ch) = << Kb(P, "press"), Kb(held, "release") >>
           \/ ch.usage \in P
              /\ TypeChar(held, ch)
                   = << Kb(held \ {ch.usage}, "only"), Kb(P, "press"), Kb(held, "release") >>
<1> DEFINE k == ch.usage
           P == (held \ Usages) \cup AtMost((held \cap Usages) \ {k}, KeySlots - 1) \cup ch.shift \cup {k}
<1>1. P \in SUBSET ChKeys
  BY TypedIsOfKeys
<1>2. k \in P
  OBVIOUS
<1>3. TypeChar(held, ch)
        = IF k \in held THEN << Kb(held \ {k}, "only"), Kb(P, "press"), Kb(held, "release") >>
                        ELSE << Kb(P, "press"), Kb(held, "release") >>
  BY DEF TypeChar
<1> HIDE DEF P
<1> QED BY <1>1, <1>2, <1>3
-----------------------------------------------------------------------------
(***************************************************************************)
(* One write.                                                              *)
(***************************************************************************)

Results == {"ok", "timeout", "bad"}

\* What a write leaves of its command.
JobAfter(w, res) ==
  /\ job'.req = job.req /\ job'.was = job.was
  /\ job'.todo = After(w, res)
  /\ job'.text = IF TypesOn(res) THEN Tail(job.text) ELSE job.text
  /\ job'.err = Error(w, res)
  /\ job'.faults = IF res = "ok" \/ job.faults = 2 THEN job.faults ELSE job.faults + 1

\* What a write does to everything else, when the frame arrived and when not.
Wrote(w, c, res) ==
  /\ session' = AfterWrite(w, res)
  /\ chip' = c
  /\ unsure' = IF w.role = "reset" THEN IF res = "ok" THEN {} ELSE {"kb", "ms"}
               ELSE IF res = "ok" THEN unsure \ {w.dev} ELSE unsure \cup {w.dev}
  /\ JobAfter(w, res)

LEMMA WriteWrites ==
  ASSUME Write
  PROVE  \E res \in Results :
           \/ /\ Wrote(Head(job.todo), Applied(chip, Head(job.todo)), res)
              /\ Head(job.todo).role = "persist" /\ res # "ok" => slipped'
              /\ Head(job.todo).role # "persist" => (slipped' <=> slipped)
              /\ slipped => slipped'
           \/ /\ res # "ok" /\ Wrote(Head(job.todo), chip, res)
              /\ Head(job.todo).role = "reset" => slipped'
              /\ Head(job.todo).role # "reset" => (slipped' <=> slipped)
              /\ slipped => slipped'
<1> DEFINE w == Head(job.todo)
<1>1. PICK o \in Outcomes :
        /\ chip' = IF o[1] THEN Applied(chip, w) ELSE chip
        /\ session' = AfterWrite(w, o[2])
        /\ unsure' = IF w.role = "reset" THEN IF o[2] = "ok" THEN {} ELSE {"kb", "ms"}
                     ELSE IF o[2] = "ok" THEN unsure \ {w.dev} ELSE unsure \cup {w.dev}
        /\ slipped' = CASE w.role = "persist" -> slipped \/ (o[1] /\ o[2] # "ok")
                        [] w.role = "reset"   -> slipped \/ ~o[1]
                        [] OTHER              -> slipped
        /\ job' = [req    |-> job.req, was |-> job.was,
                   todo   |-> After(w, o[2]),
                   text   |-> IF TypesOn(o[2]) THEN Tail(job.text) ELSE job.text,
                   err    |-> Error(w, o[2]),
                   again  |-> job.again \/ Again(w, o[2]),
                   faults |-> IF o[2] = "ok" \/ job.faults = 2 THEN job.faults ELSE job.faults + 1]
  BY DEF Write
<1> HIDE DEF w
<1> DEFINE again == job.again \/ Again(w, o[2])
<1> HIDE DEF again
<1>2. job' = [req    |-> job.req, was |-> job.was,
              todo   |-> After(w, o[2]),
              text   |-> IF TypesOn(o[2]) THEN Tail(job.text) ELSE job.text,
              err    |-> Error(w, o[2]),
              again  |-> again,
              faults |-> IF o[2] = "ok" \/ job.faults = 2 THEN job.faults ELSE job.faults + 1]
  BY <1>1 DEF again
<1>3. JobAfter(w, o[2])
  BY <1>2 DEF JobAfter
<1> DEFINE yes == TRUE
           no == FALSE
<1> HIDE DEF yes, no
<1>4. o[2] \in Results /\ (o[2] = "ok" => o[1] = yes)
  <2>1. o \in {<<yes, "ok">>, <<yes, "timeout">>, <<yes, "bad">>, <<no, "timeout">>, <<no, "bad">>}
    BY Zenon DEF Outcomes, yes, no
  <2> QED BY <2>1 DEF Results
<1>0. o[2] = "ok" => o[1]
  BY <1>4 DEF yes
<1>5. CASE o[1]
  <2>1. o[2] \in Results
    BY <1>4
  <2>2. Wrote(w, Applied(chip, w), o[2])
    BY <1>1, <1>3, <1>5 DEF Wrote
  <2>3. w.role = "persist" /\ o[2] # "ok" => slipped'
    BY <1>1, <1>5
  <2>4. w.role # "persist" => (slipped' <=> slipped)
    BY <1>1, <1>5
  <2>5. slipped => slipped'
    BY <1>1, <1>5
  <2> QED BY <2>1, <2>2, <2>3, <2>4, <2>5 DEF w
<1>6. CASE ~o[1]
  <2>1. o[2] \in Results \ {"ok"}
    BY <1>0, <1>4, <1>6
  <2>2. Wrote(w, chip, o[2])
    BY <1>1, <1>3, <1>6 DEF Wrote
  <2>3. w.role = "reset" => slipped'
    BY <1>1, <1>6
  <2>4. w.role # "reset" => (slipped' <=> slipped)
    BY <1>1, <1>6
  <2>5. slipped => slipped'
    BY <1>1, <1>6
  <2> QED BY <2>1, <2>2, <2>3, <2>4, <2>5 DEF w
<1> QED BY <1>5, <1>6

\* A keyboard report.
KbWrote(X, role) ==
  /\ session' = session /\ (slipped' <=> slipped)
  /\ chip' \in ChipSet /\ chip'.ms = chip.ms /\ chip'.rate = chip.rate /\ chip'.flash = chip.flash
  /\ ("ms" \in unsure' <=> "ms" \in unsure) /\ unsure' \subseteq {"kb", "ms", "chip"}
  /\ \E res \in Results :
       /\ chip'.kb \in {X, chip.kb} /\ (res = "ok" => chip'.kb = X)
       /\ ("kb" \in unsure' <=> res # "ok")
       /\ JobAfter(Kb(X, role), res)

LEMMA KbWrites ==
  ASSUME ChTypeOK, Write, NEW X \in SUBSET ChKeys, NEW role \in {"press", "release", "only"},
         Head(job.todo) = Kb(X, role)
  PROVE  KbWrote(X, role)
<1> DEFINE w == Kb(X, role)
<1>1. w.dev = "kb" /\ w.rep = X /\ w.role = role /\ Head(job.todo) = w
  BY DEF Kb
<1> HIDE DEF w
<1>2. chip \in ChipSet /\ unsure \subseteq {"kb", "ms", "chip"}
  BY DEF ChTypeOK, ChipSet
<1>3. Applied(chip, w) = [chip EXCEPT !.kb = X]
  BY <1>1 DEF Applied
<1>4. /\ Applied(chip, w) \in ChipSet /\ Applied(chip, w).kb = X /\ Applied(chip, w).ms = chip.ms
      /\ Applied(chip, w).rate = chip.rate /\ Applied(chip, w).flash = chip.flash
  BY <1>2, <1>3 DEF ChipSet, ChKeys
<1>5. \A res : AfterWrite(w, res) = session
  BY <1>1 DEF AfterWrite
<1>6. PICK res \in Results :
           \/ Wrote(w, Applied(chip, w), res) /\ (slipped' <=> slipped)
           \/ res # "ok" /\ Wrote(w, chip, res) /\ (slipped' <=> slipped)
  BY <1>1, WriteWrites
<1>7. /\ session' = session /\ (slipped' <=> slipped) /\ JobAfter(w, res)
      /\ unsure' = IF res = "ok" THEN unsure \ {"kb"} ELSE unsure \cup {"kb"}
      /\ chip' = Applied(chip, w) \/ (res # "ok" /\ chip' = chip)
  BY <1>1, <1>5, <1>6 DEF Wrote
<1>8. /\ chip' \in ChipSet /\ chip'.ms = chip.ms /\ chip'.rate = chip.rate /\ chip'.flash = chip.flash
      /\ chip'.kb \in {X, chip.kb} /\ (res = "ok" => chip'.kb = X)
  BY <1>2, <1>4, <1>7
<1>9. /\ ("ms" \in unsure' <=> "ms" \in unsure) /\ unsure' \subseteq {"kb", "ms", "chip"}
      /\ ("kb" \in unsure' <=> res # "ok")
  BY <1>2, <1>7
<1> QED BY <1>7, <1>8, <1>9 DEF KbWrote, w

\* A mouse report.
MsWrote(M) ==
  /\ IF job.req > MaxReqs THEN session' = [session EXCEPT !.btn = {}] ELSE session' = session
  /\ slipped' <=> slipped
  /\ chip' \in ChipSet /\ chip'.kb = chip.kb /\ chip'.rate = chip.rate /\ chip'.flash = chip.flash
  /\ ("kb" \in unsure' <=> "kb" \in unsure) /\ unsure' \subseteq {"kb", "ms", "chip"}
  /\ \E res \in Results :
       /\ chip'.ms \in {M, chip.ms} /\ (res = "ok" => chip'.ms = M)
       /\ ("ms" \in unsure' <=> res # "ok")
       /\ JobAfter(Ms(M), res)

LEMMA MsWrites ==
  ASSUME ChTypeOK, Write, NEW M \in SUBSET Buttons, Head(job.todo) = Ms(M)
  PROVE  MsWrote(M)
<1> DEFINE w == Ms(M)
<1>1. w.dev = "ms" /\ w.rep = M /\ w.role = "only" /\ Head(job.todo) = w
  BY DEF Ms
<1> HIDE DEF w
<1>2. chip \in ChipSet /\ unsure \subseteq {"kb", "ms", "chip"}
  BY DEF ChTypeOK, ChipSet
<1>3. Applied(chip, w) = [chip EXCEPT !.ms = M]
  BY <1>1 DEF Applied
<1>4. /\ Applied(chip, w) \in ChipSet /\ Applied(chip, w).ms = M /\ Applied(chip, w).kb = chip.kb
      /\ Applied(chip, w).rate = chip.rate /\ Applied(chip, w).flash = chip.flash
  BY <1>2, <1>3 DEF ChipSet
<1>5. \A res : AfterWrite(w, res) = IF job.req > MaxReqs THEN [session EXCEPT !.btn = {}] ELSE session
  BY <1>1 DEF AfterWrite
<1>6. PICK res \in Results :
           \/ Wrote(w, Applied(chip, w), res) /\ (slipped' <=> slipped)
           \/ res # "ok" /\ Wrote(w, chip, res) /\ (slipped' <=> slipped)
  BY <1>1, WriteWrites
<1>7. /\ session' = AfterWrite(w, res) /\ (slipped' <=> slipped) /\ JobAfter(w, res)
      /\ unsure' = IF res = "ok" THEN unsure \ {"ms"} ELSE unsure \cup {"ms"}
      /\ chip' = Applied(chip, w) \/ (res # "ok" /\ chip' = chip)
  BY <1>1, <1>6 DEF Wrote
<1>8. /\ chip' \in ChipSet /\ chip'.kb = chip.kb /\ chip'.rate = chip.rate /\ chip'.flash = chip.flash
      /\ chip'.ms \in {M, chip.ms} /\ (res = "ok" => chip'.ms = M)
  BY <1>2, <1>4, <1>7
<1>9. /\ ("kb" \in unsure' <=> "kb" \in unsure) /\ unsure' \subseteq {"kb", "ms", "chip"}
      /\ ("ms" \in unsure' <=> res # "ok")
  BY <1>2, <1>7
<1>10. IF job.req > MaxReqs THEN session' = [session EXCEPT !.btn = {}] ELSE session' = session
  BY <1>5, <1>7
<1> QED BY <1>7, <1>8, <1>9, <1>10 DEF MsWrote, w

\* A question to the chip.
AskWrote(role, x) ==
  /\ session' = session /\ (slipped => slipped')
  /\ chip' \in ChipSet /\ chip'.kb = chip.kb /\ chip'.ms = chip.ms /\ chip'.rate = chip.rate
  /\ ("kb" \in unsure' <=> "kb" \in unsure) /\ ("ms" \in unsure' <=> "ms" \in unsure)
  /\ unsure' \subseteq {"kb", "ms", "chip"}
  /\ role # "persist" => chip'.flash = chip.flash
  /\ \E res \in Results :
       /\ JobAfter(Ask(role, x), res)
       /\ role = "persist" /\ res = "ok" => chip'.flash = x
       /\ role = "persist" /\ res # "ok" /\ ~slipped' => chip'.flash = chip.flash

LEMMA AskWrites ==
  ASSUME ChTypeOK, Write, NEW role \in {"only", "query", "mux", "probe", "persist"}, NEW x,
         role = "persist" => x \in Rates, role = "mux" => x \in {"host", "target", "state"},
         Head(job.todo) = Ask(role, x)
  PROVE  AskWrote(role, x)
<1> DEFINE w == Ask(role, x)
<1>1. w.dev = "chip" /\ w.rep = x /\ w.role = role /\ Head(job.todo) = w
  BY DEF Ask
<1> HIDE DEF w
<1>2. chip \in ChipSet /\ unsure \subseteq {"kb", "ms", "chip"}
  BY DEF ChTypeOK, ChipSet
<1>3. /\ Applied(chip, w) \in ChipSet /\ Applied(chip, w).ms = chip.ms /\ Applied(chip, w).kb = chip.kb
      /\ Applied(chip, w).rate = chip.rate
      /\ Applied(chip, w).flash = IF role = "persist" THEN x ELSE chip.flash
  <2>1. CASE role = "persist"
    <3>1. Applied(chip, w) = [chip EXCEPT !.flash = x]
      BY <1>1, <2>1 DEF Applied
    <3> QED BY <1>2, <2>1, <3>1 DEF ChipSet
  <2>2. CASE role = "mux"
    <3>1. Applied(chip, w) = [chip EXCEPT !.side = IF x = "state" THEN chip.side ELSE x]
      BY <1>1, <2>2 DEF Applied
    <3>2. (IF x = "state" THEN chip.side ELSE x) \in {"host", "target"}
      BY <1>2, <2>2 DEF ChipSet
    <3> DEFINE side == IF x = "state" THEN chip.side ELSE x
    <3> HIDE DEF side
    <3>3. Applied(chip, w) = [chip EXCEPT !.side = side] /\ side \in {"host", "target"}
      BY <3>1, <3>2 DEF side
    <3> QED BY <1>2, <2>2, <3>3 DEF ChipSet
  <2>3. CASE role \in {"only", "query", "probe"}
    <3>1. Applied(chip, w) = chip
      BY <1>1, <2>3 DEF Applied
    <3> QED BY <1>2, <2>3, <3>1
  <2> QED BY <2>1, <2>2, <2>3
<1>4. \A res : AfterWrite(w, res) = session
  BY <1>1 DEF AfterWrite
<1>5. PICK res \in Results :
           \/ Wrote(w, Applied(chip, w), res) /\ (slipped => slipped') /\ (role = "persist" /\ res # "ok" => slipped')
           \/ res # "ok" /\ Wrote(w, chip, res) /\ (slipped => slipped')
  BY <1>1, WriteWrites
<1>6. /\ session' = session /\ (slipped => slipped') /\ JobAfter(w, res)
      /\ unsure' = IF res = "ok" THEN unsure \ {"chip"} ELSE unsure \cup {"chip"}
      /\ \/ chip' = Applied(chip, w) /\ (role = "persist" /\ res # "ok" => slipped')
         \/ res # "ok" /\ chip' = chip
  BY <1>1, <1>4, <1>5 DEF Wrote
<1>7. /\ ("kb" \in unsure' <=> "kb" \in unsure) /\ ("ms" \in unsure' <=> "ms" \in unsure)
      /\ unsure' \subseteq {"kb", "ms", "chip"}
  BY <1>2, <1>6
<1>8. /\ chip' \in ChipSet /\ chip'.kb = chip.kb /\ chip'.ms = chip.ms /\ chip'.rate = chip.rate
      /\ role # "persist" => chip'.flash = chip.flash
      /\ role = "persist" /\ res = "ok" => chip'.flash = x
      /\ role = "persist" /\ res # "ok" /\ ~slipped' => chip'.flash = chip.flash
  BY <1>2, <1>3, <1>6
<1> QED BY <1>6, <1>7, <1>8 DEF AskWrote, w

\* What a reset leaves of the chip.
LEMMA ChipReset ==
  ASSUME NEW c \in ChipSet, NEW none
  PROVE  /\ [c EXCEPT !.rate = c.flash, !.kb = none, !.ms = none]
               = [up |-> c.up, kb |-> none, ms |-> none, rate |-> c.flash, flash |-> c.flash, side |-> c.side]
         /\ [c EXCEPT !.kb = none, !.ms = none]
               = [up |-> c.up, kb |-> none, ms |-> none, rate |-> c.rate, flash |-> c.flash, side |-> c.side]
         /\ [c EXCEPT !.kb = none]
               = [up |-> c.up, kb |-> none, ms |-> c.ms, rate |-> c.rate, flash |-> c.flash, side |-> c.side]
<1> DEFINE f == c.flash
           d == [c EXCEPT !.rate = f]
           e == [d EXCEPT !.kb = none]
           g == [c EXCEPT !.kb = none]
<1>1. d = [up |-> c.up, kb |-> c.kb, ms |-> c.ms, rate |-> f, flash |-> f, side |-> c.side]
  BY DEF ChipSet
<1>2. g = [up |-> c.up, kb |-> none, ms |-> c.ms, rate |-> c.rate, flash |-> c.flash, side |-> c.side]
  BY DEF ChipSet
<1>3. [c EXCEPT !.rate = f, !.kb = none, !.ms = none] = [e EXCEPT !.ms = none]
  OBVIOUS
<1>4. [c EXCEPT !.kb = none, !.ms = none] = [g EXCEPT !.ms = none]
  OBVIOUS
<1> HIDE DEF f, d
<1>5. e = [up |-> c.up, kb |-> none, ms |-> c.ms, rate |-> f, flash |-> f, side |-> c.side]
  BY <1>1
<1> HIDE DEF e, g
<1>6. [e EXCEPT !.ms = none] = [up |-> c.up, kb |-> none, ms |-> none, rate |-> f, flash |-> f, side |-> c.side]
  BY <1>5
<1>7. [g EXCEPT !.ms = none] = [up |-> c.up, kb |-> none, ms |-> none, rate |-> c.rate, flash |-> c.flash, side |-> c.side]
  BY <1>2
<1> QED BY <1>2, <1>3, <1>4, <1>6, <1>7 DEF f, g

LEMMA SessionReset ==
  ASSUME NEW s \in SessionSet, NEW r, NEW none
  PROVE  [s EXCEPT !.baud = r, !.held = none, !.btn = none]
           = [open |-> s.open, held |-> none, btn |-> none, baud |-> r]
<1> DEFINE d == [s EXCEPT !.baud = r]
           e == [d EXCEPT !.held = none]
<1>1. d = [open |-> s.open, held |-> s.held, btn |-> s.btn, baud |-> r]
  BY DEF SessionSet
<1>2. [s EXCEPT !.baud = r, !.held = none, !.btn = none] = [e EXCEPT !.btn = none]
  OBVIOUS
<1> HIDE DEF d
<1>3. e = [open |-> s.open, held |-> none, btn |-> s.btn, baud |-> r]
  BY <1>1
<1> HIDE DEF e
<1> QED BY <1>2, <1>3

\* The reset.
ResetWrote(r) ==
  /\ session' = [open |-> session.open, held |-> {}, btn |-> {}, baud |-> r]
  /\ slipped => slipped'
  /\ chip' \in ChipSet /\ chip'.flash = chip.flash
  /\ unsure' \in {{}, {"kb", "ms"}}
  /\ unsure' = {} => chip'.kb = {} /\ chip'.ms = {}
  /\ ~slipped' => chip'.rate = chip.flash
  /\ \E res \in Results : JobAfter(Ask("reset", r), res)

LEMMA ResetWrites ==
  ASSUME ChTypeOK, Write, NEW r \in Rates, Head(job.todo) = Ask("reset", r)
  PROVE  ResetWrote(r)
<1> DEFINE w == Ask("reset", r)
<1>1. w.dev = "chip" /\ w.rep = r /\ w.role = "reset" /\ Head(job.todo) = w
  BY DEF Ask
<1> HIDE DEF w
<1>2. chip \in ChipSet /\ session \in SessionSet
  BY DEF ChTypeOK, ChipSet, SessionSet
<1>3. Applied(chip, w)
        = [up |-> chip.up, kb |-> {}, ms |-> {}, rate |-> chip.flash, flash |-> chip.flash, side |-> chip.side]
  BY <1>1, <1>2, ChipReset DEF Applied
<1>4. /\ Applied(chip, w) \in ChipSet /\ Applied(chip, w).kb = {} /\ Applied(chip, w).ms = {}
      /\ Applied(chip, w).rate = chip.flash /\ Applied(chip, w).flash = chip.flash
  BY <1>2, <1>3 DEF ChipSet
<1>5. \A res : AfterWrite(w, res) = [open |-> session.open, held |-> {}, btn |-> {}, baud |-> r]
  BY <1>1, <1>2, SessionReset DEF AfterWrite
<1>6. PICK res \in Results :
           \/ Wrote(w, Applied(chip, w), res) /\ (slipped => slipped')
           \/ res # "ok" /\ Wrote(w, chip, res) /\ (slipped => slipped') /\ slipped'
  BY <1>1, WriteWrites
<1>7. /\ session' = AfterWrite(w, res) /\ (slipped => slipped') /\ JobAfter(w, res)
      /\ unsure' = IF res = "ok" THEN {} ELSE {"kb", "ms"}
      /\ chip' = Applied(chip, w) \/ (res # "ok" /\ chip' = chip /\ slipped')
  BY <1>1, <1>6 DEF Wrote
<1>8. unsure' \in {{}, {"kb", "ms"}} /\ (unsure' = {} => res = "ok")
  BY <1>7
<1>9. chip' \in ChipSet /\ chip'.flash = chip.flash /\ (~slipped' => chip'.rate = chip.flash)
  BY <1>2, <1>4, <1>7
<1>10. res = "ok" => chip'.kb = {} /\ chip'.ms = {}
  BY <1>4, <1>7
<1> QED BY <1>5, <1>7, <1>8, <1>9, <1>10 DEF ResetWrote, w
-----------------------------------------------------------------------------
(***************************************************************************)
(* A write leaves the invariant.                                           *)
(***************************************************************************)

LEMMA ShapeKept ==
  ASSUME JobShape, NEW w, NEW res \in Results, JobAfter(w, res)
  PROVE  JobShape'
<1>1. job'.err \in {"none", "timeout", "bad"}
  BY DEF JobShape, JobAfter, Error, Results
<1>2. job'.faults \in 0..2
  BY DEF JobShape, JobAfter
<1>3. job'.text \in Seq(Chars)
  <2>1. CASE TypesOn(res)
    <3>1. job.text # << >> /\ job.text \in Seq(Chars)
      BY <2>1 DEF TypesOn, JobShape
    <3>2. Tail(job.text) \in Seq(Chars)
      BY <3>1, HeadTailProperties
    <3> QED BY <2>1, <3>2 DEF JobAfter
  <2>2. CASE ~TypesOn(res)
    BY <2>2 DEF JobAfter, JobShape
  <2> QED BY <2>1, <2>2
<1> QED BY <1>1, <1>2, <1>3 DEF JobShape, JobAfter

\* What no write touches.
WriteFrame ==
  /\ lastBaud' = lastBaud /\ queue' = queue /\ reqs' = reqs /\ released' = released /\ events' = events
  /\ job'.req = job.req /\ job'.was = job.was
  /\ ~Idle /\ ~Idle' /\ session.open /\ (Serving \/ Releasing)
  /\ (Serving' <=> Serving) /\ (Releasing' <=> Releasing) /\ Verb' = Verb /\ (Holds' <=> Holds)
  /\ ~(Serving /\ Releasing)

LEMMA WriteFrames ==
  ASSUME ChInv, Write
  PROVE  WriteFrame
<1>1. /\ ~Idle /\ job.todo # << >>
      /\ lastBaud' = lastBaud /\ queue' = queue /\ reqs' = reqs /\ released' = released /\ events' = events
  BY DEF Write
<1>2. job'.req = job.req /\ job'.was = job.was
  BY WriteWrites DEF Wrote, JobAfter
<1>3. session.open /\ (Serving \/ Releasing)
  BY <1>1 DEF ChInv, JobInv
<1>4. reqs \in Seq(ChReq) /\ Len(reqs) \in Nat /\ Len(reqs) <= MaxReqs /\ DOMAIN reqs = 1..Len(reqs)
  BY LenProperties DEF ChInv, ChQueueInv
<1>5. ~(Serving /\ Releasing) /\ job.req # 0
  BY <1>3, <1>4 DEF Serving, Releasing
<1>6. ~Idle'
  BY <1>2, <1>5 DEF Idle, NoJob
<1>7. (Serving' <=> Serving) /\ (Releasing' <=> Releasing) /\ Verb' = Verb /\ (Holds' <=> Holds)
  BY <1>1, <1>2 DEF Serving, Releasing, Verb, Holds
<1> QED BY <1>1, <1>2, <1>3, <1>5, <1>6, <1>7 DEF WriteFrame

LEMMA WriteQueue ==
  ASSUME ChInv, Write
  PROVE  ChQueueInv' /\ AbandonedIsSkipped' /\ ReleaseInv' /\ ReleaseClears'
<1>1. WriteFrame
  BY WriteFrames
<1>2. ChQueueInv'
  BY <1>1 DEF ChInv, ChQueueInv, WriteFrame
<1>3. AbandonedIsSkipped'
  BY <1>1 DEF ChInv, AbandonedIsSkipped, WriteFrame
<1>4. released # "done"
  BY <1>1 DEF ChInv, ReleaseInv, WriteFrame
<1>5. ReleaseInv'
  BY <1>1, <1>4 DEF ChInv, ReleaseInv, WriteFrame
<1>6. ReleaseClears'
  BY <1>1, <1>4 DEF ReleaseClears, WriteFrame
<1> QED BY <1>2, <1>3, <1>5, <1>6

\* A write that is no reset and stores no rate.
LEMMA RateKept ==
  ASSUME RateInv, slipped => slipped', ~slipped' => chip'.rate = chip.rate /\ chip'.flash = chip.flash,
         session' = session \/ (session'.open = session.open /\ session'.baud = session.baud), lastBaud' = lastBaud, ~Between, ~Between',
         Idle' => Idle, Releasing' => Releasing
  PROVE  RateInv'
BY DEF RateInv, ProbeOrder

LEMMA TypeKept ==
  ASSUME ChTypeOK, chip' \in ChipSet, session' \in SessionSet, unsure' \subseteq {"kb", "ms", "chip"},
         lastBaud' = lastBaud, queue' = queue, reqs' = reqs, released' = released, events' = events
  PROVE  ChTypeOK'
BY DEF ChTypeOK, ChipSet, SessionSet

\* The report of a tap, chord or typed text.
HoldGoal ==
  /\ ChTypeOK' /\ RateInv' /\ JobShape' /\ HoldInv(job.todo)' /\ MsSure'
  /\ Verb' # "type" => job'.text = << >>

\* What is left to show of a keyboard report.
LEMMA HoldsKb ==
  ASSUME ChInv, Write, Holds, NEW X \in SUBSET ChKeys, NEW role \in {"press", "release", "only"},
         Head(job.todo) = Kb(X, role), ~Between', HoldInv(job.todo)'
  PROVE  HoldGoal
<1>1. WriteFrame /\ KbWrote(X, role)
  BY WriteFrames, KbWrites DEF ChInv
<1>2. chip \in ChipSet /\ session \in SessionSet
  BY DEF ChInv, ChTypeOK, ChipSet, SessionSet
<1>3. ChTypeOK'
  BY <1>1, <1>2, TypeKept DEF WriteFrame, KbWrote, ChInv
<1>4. ~Between
  BY DEF Between, Kb
<1>5. RateInv'
  BY <1>1, <1>4, RateKept DEF WriteFrame, KbWrote, ChInv
<1>6. PICK res \in Results : JobAfter(Kb(X, role), res)
  BY <1>1 DEF KbWrote
<1>7. JobShape'
  BY <1>6, ShapeKept DEF ChInv, JobInv
<1>8. MsSure'
  <2>1. MsSure
    BY DEF ChInv, JobInv
  <2> QED BY <1>1, <2>1 DEF KbWrote, MsSure
<1>9. Verb' # "type" => job'.text = << >>
  <2>1. Verb # "type" => job.text = << >>
    BY DEF ChInv, JobInv
  <2> QED BY <1>1, <1>6, <2>1 DEF WriteFrame, JobAfter, TypesOn
<1> QED BY <1>3, <1>5, <1>7, <1>8, <1>9 DEF HoldGoal

\* A keyboard report of one command, as the steps below use it.
LEMMA KbFacts ==
  ASSUME ChInv, Write, NEW X \in SUBSET ChKeys, NEW role \in {"press", "release", "only"},
         Head(job.todo) = Kb(X, role)
  PROVE  /\ session' = session /\ job'.was = job.was /\ session.held \in SUBSET ChKeys
         /\ Verb' = Verb
         /\ \E res \in Results :
              /\ chip'.kb \in {X, chip.kb} /\ (res = "ok" => chip'.kb = X)
              /\ ("kb" \in unsure' <=> res # "ok")
              /\ job'.todo = After(Kb(X, role), res) /\ job'.err = Error(Kb(X, role), res)
              /\ job'.faults = IF res = "ok" \/ job.faults = 2 THEN job.faults ELSE job.faults + 1
<1>1. WriteFrame /\ KbWrote(X, role)
  BY WriteFrames, KbWrites DEF ChInv
<1>2. session.held \in SUBSET ChKeys
  BY DEF ChInv, ChTypeOK, ChKeys
<1> QED BY <1>1, <1>2 DEF WriteFrame, KbWrote, JobAfter

LEMMA PressWritten ==
  ASSUME ChInv, Write, Holds, NEW P \in SUBSET ChKeys, PressLeft(job.todo, P),
         session.held \subseteq job.was, job.faults = 0, job.err = "none"
  PROVE  HoldGoal
<1> DEFINE w == Kb(P, "press")
           H == session.held
<1>1. /\ Head(job.todo) = w /\ Head(Tail(job.todo)).rep = H /\ Len(job.todo) = 2
      /\ Tail(job.todo) = << Kb(H, "release") >>
  BY DEF PressLeft, Kb
<1>2. w.role = "press"
  BY DEF Kb
<1>3. session' = session /\ job'.was = job.was
  BY <1>1, KbFacts
<1>4. PICK res \in Results :
        /\ job'.todo = After(w, res) /\ job'.err = Error(w, res)
        /\ job'.faults = IF res = "ok" \/ job.faults = 2 THEN job.faults ELSE job.faults + 1
  BY <1>1, KbFacts
<1> HIDE DEF w, H
<1>5. CASE res = "ok"
  <2>1. job'.todo = << Kb(H, "release") >>
    BY <1>1, <1>2, <1>4, <1>5 DEF After, Again, TypesOn
  <2>2. job'.err = "none" /\ job'.faults = 0
    BY <1>2, <1>4, <1>5 DEF Error
  <2>3. HoldInv(job.todo)'
    BY <1>3, <2>1, <2>2 DEF HoldInv, H
  <2>4. ~Between'
    BY <2>1 DEF Between, Kb
  <2> QED BY <1>1, <2>3, <2>4, HoldsKb DEF w
<1>6. CASE res # "ok"
  <2>1. job'.todo = << Kb(H, "only") >>
    BY <1>1, <1>2, <1>4, <1>6 DEF After, Again, TypesOn
  <2>2. job'.err # "none" /\ job'.faults = 1
    BY <1>2, <1>4, <1>6 DEF Error, Again, Results
  <2>3. HoldInv(job.todo)'
    BY <1>3, <2>1, <2>2 DEF HoldInv, H
  <2>4. ~Between'
    BY <2>1 DEF Between, Kb
  <2> QED BY <1>1, <2>3, <2>4, HoldsKb DEF w
<1> QED BY <1>5, <1>6

LEMMA EdgeWritten ==
  ASSUME ChInv, Write, Holds, NEW P \in SUBSET ChKeys, NEW k \in P, EdgeLeft(job.todo, P, k),
         session.held \subseteq job.was, chip.kb \subseteq job.was, job.faults = 0, job.err = "none"
  PROVE  HoldGoal
<1> DEFINE X == session.held \ {k}
           w == Kb(X, "only")
           H == session.held
<1>1. /\ Head(job.todo) = w /\ Len(job.todo) = 3
      /\ Tail(job.todo) = << Kb(P, "press"), Kb(H, "release") >>
  BY DEF EdgeLeft, Kb
<1>2. w.role = "only"
  BY DEF Kb
<1>3. session.held \in SUBSET ChKeys
  BY DEF ChInv, ChTypeOK, ChKeys
<1>4. X \in SUBSET ChKeys /\ k \notin X /\ X \subseteq H
  BY <1>3
<1> HIDE DEF X
<1>5. session' = session /\ job'.was = job.was /\ Verb' = Verb
  BY <1>1, <1>4, KbFacts
<1>6. PICK res \in Results :
        /\ chip'.kb \in {X, chip.kb} /\ (res = "ok" => chip'.kb = X)
        /\ ("kb" \in unsure' <=> res # "ok")
        /\ job'.todo = After(w, res) /\ job'.err = Error(w, res)
        /\ job'.faults = IF res = "ok" \/ job.faults = 2 THEN job.faults ELSE job.faults + 1
  BY <1>1, <1>4, KbFacts
<1> HIDE DEF w
<1>7. chip'.kb \subseteq job'.was
  BY <1>4, <1>5, <1>6
<1>8. CASE res = "ok"
  <2>1. job'.todo = << Kb(P, "press"), Kb(session'.held, "release") >>
    BY <1>1, <1>2, <1>4, <1>5, <1>6, <1>8 DEF After, Again, TypesOn
  <2>2. job'.err = "none" /\ job'.faults = 0
    BY <1>2, <1>6, <1>8 DEF Error
  <2>3. P # chip'.kb
    BY <1>4, <1>6, <1>8
  <2>4. Pressing(job.todo)'
    BY <2>1, <2>3 DEF Pressing, PressLeft
  <2>5. HoldInv(job.todo)'
    BY <1>5, <1>7, <2>2, <2>4 DEF HoldInv, H
  <2>6. ~Between'
    BY <2>1 DEF Between, Kb
  <2> QED BY <1>1, <1>4, <2>5, <2>6, HoldsKb DEF w
<1>9. CASE res # "ok"
  <2>1. job'.todo = << >>
    BY <1>1, <1>2, <1>6, <1>9 DEF After, Again, TypesOn
  <2>2. KbSure'
    BY <1>6, <1>9 DEF KbSure
  <2>3. HoldInv(job.todo)'
    BY <1>7, <2>1, <2>2 DEF HoldInv
  <2>4. ~Between'
    BY <2>1 DEF Between
  <2> QED BY <1>1, <1>4, <2>3, <2>4, HoldsKb DEF w
<1> QED BY <1>8, <1>9

LEMMA ReleaseWritten ==
  ASSUME ChInv, Write, Holds, job.todo = << Kb(session.held, "release") >>,
         session.held \subseteq job.was, job.faults = 0, job.err = "none"
  PROVE  HoldGoal
<1> DEFINE H == session.held
           w == Kb(H, "release")
<1>1. Head(job.todo) = w /\ Len(job.todo) = 1 /\ Tail(job.todo) = << >>
  BY DEF Kb
<1>2. w.role = "release" /\ w.rep = H
  BY DEF Kb
<1>3. H \in SUBSET ChKeys /\ H \subseteq job.was
  BY DEF ChInv, ChTypeOK, ChKeys
<1>4. session' = session /\ job'.was = job.was /\ Verb' = Verb
  BY <1>1, <1>3, KbFacts
<1>5. PICK res \in Results :
        /\ chip'.kb \in {H, chip.kb} /\ (res = "ok" => chip'.kb = H)
        /\ ("kb" \in unsure' <=> res # "ok")
        /\ job'.todo = After(w, res) /\ job'.err = Error(w, res)
        /\ job'.faults = IF res = "ok" \/ job.faults = 2 THEN job.faults ELSE job.faults + 1
  BY <1>1, <1>3, KbFacts
<1> HIDE DEF w
<1>6. CASE res = "ok" /\ TypesOn(res)
  <2>1. job.text \in Seq(Chars) /\ job.text # << >>
    BY <1>6 DEF ChInv, JobInv, JobShape, TypesOn
  <2>2. Head(job.text) \in Chars
    BY <2>1, HeadTailProperties
  <2>3. job'.todo = TypeChar(H, Head(job.text))
    BY <1>2, <1>5, <1>6, <2>1 DEF After, Again, TypeNext
  <2> DEFINE ch == Head(job.text)
             k == ch.usage
  <2>9. ch \in Chars /\ job'.todo = TypeChar(H, ch)
    BY <2>2, <2>3
  <2> HIDE DEF ch, H
  <2>10. \E P \in SUBSET ChKeys :
           \/ ch.usage \in P \ H
              /\ TypeChar(H, ch) = << Kb(P, "press"), Kb(H, "release") >>
           \/ ch.usage \in P
              /\ TypeChar(H, ch) = << Kb(H \ {ch.usage}, "only"), Kb(P, "press"), Kb(H, "release") >>
    BY <1>3, <2>9, TypeCharLeft
  <2>4. PICK P \in SUBSET ChKeys :
          \/ k \in P \ H /\ job'.todo = << Kb(P, "press"), Kb(H, "release") >>
          \/ k \in P /\ job'.todo = << Kb(H \ {k}, "only"), Kb(P, "press"), Kb(H, "release") >>
    BY <2>9, <2>10
  <2> USE DEF H
  <2>5. Pressing(job.todo)'
    <3>1. CASE k \in P \ H /\ job'.todo = << Kb(P, "press"), Kb(H, "release") >>
      <4>1. P # chip'.kb
        BY <1>5, <1>6, <3>1
      <4> QED BY <1>4, <3>1, <4>1 DEF Pressing, PressLeft
    <3>2. CASE k \in P /\ job'.todo = << Kb(H \ {k}, "only"), Kb(P, "press"), Kb(H, "release") >>
      BY <1>4, <3>2 DEF Pressing, EdgeLeft
    <3> QED BY <2>4, <3>1, <3>2
  <2>6. job'.err = "none" /\ job'.faults = 0
    BY <1>2, <1>5, <1>6 DEF Error
  <2>7. HoldInv(job.todo)'
    BY <1>3, <1>4, <1>5, <1>6, <2>5, <2>6 DEF HoldInv
  <2>8. ~Between'
    BY <2>4 DEF Between, Kb
  <2> QED BY <1>1, <1>3, <2>7, <2>8, HoldsKb DEF w
<1>7. CASE res = "ok" /\ ~TypesOn(res)
  <2>1. job'.todo = << >>
    BY <1>1, <1>2, <1>5, <1>7 DEF After, Again
  <2>2. KbSure' /\ chip'.kb \subseteq job'.was
    BY <1>3, <1>4, <1>5, <1>7 DEF KbSure
  <2>3. HoldInv(job.todo)'
    BY <2>1, <2>2 DEF HoldInv
  <2>4. ~Between'
    BY <2>1 DEF Between
  <2> QED BY <1>1, <1>3, <2>3, <2>4, HoldsKb DEF w
<1>8. CASE res # "ok"
  <2>1. job'.todo = << Kb(H, "only") >>
    BY <1>2, <1>5, <1>8 DEF After, Again, TypesOn
  <2>2. job'.err # "none" /\ job'.faults = 1
    BY <1>2, <1>5, <1>8 DEF Error, Again, Results
  <2>3. HoldInv(job.todo)'
    BY <1>4, <2>1, <2>2 DEF HoldInv
  <2>4. ~Between'
    BY <2>1 DEF Between, Kb
  <2> QED BY <1>1, <1>3, <2>3, <2>4, HoldsKb DEF w
<1> QED BY <1>6, <1>7, <1>8

LEMMA SecondReleaseWritten ==
  ASSUME ChInv, Write, Holds, job.todo = << Kb(session.held, "only") >>,
         session.held \subseteq job.was, job.faults >= 1, job.err # "none"
  PROVE  HoldGoal
<1> DEFINE H == session.held
           w == Kb(H, "only")
<1>1. Head(job.todo) = w /\ Tail(job.todo) = << >>
  BY DEF Kb
<1>2. w.role = "only" /\ job.faults \in 0..2
  BY DEF Kb, ChInv, JobInv, JobShape
<1>3. H \in SUBSET ChKeys /\ H \subseteq job.was
  BY DEF ChInv, ChTypeOK, ChKeys
<1>4. session' = session /\ job'.was = job.was
  BY <1>1, <1>3, KbFacts
<1>5. PICK res \in Results :
        /\ chip'.kb \in {H, chip.kb} /\ (res = "ok" => chip'.kb = H)
        /\ ("kb" \in unsure' <=> res # "ok")
        /\ job'.todo = After(w, res)
        /\ job'.faults = IF res = "ok" \/ job.faults = 2 THEN job.faults ELSE job.faults + 1
  BY <1>1, <1>3, KbFacts
<1> HIDE DEF w
<1>6. job'.todo = << >>
  BY <1>1, <1>2, <1>5 DEF After, Again, TypesOn
<1>7. KbSure' /\ (job'.faults <= 1 => chip'.kb \subseteq job'.was)
  <2>1. CASE res = "ok"
    BY <1>3, <1>4, <1>5, <2>1 DEF KbSure
  <2>2. CASE res # "ok"
    <3>1. job'.faults = 2
      BY <1>2, <1>5, <2>2
    <3> QED BY <1>5, <2>2, <3>1 DEF KbSure
  <2> QED BY <2>1, <2>2
<1>8. HoldInv(job.todo)'
  BY <1>6, <1>7 DEF HoldInv
<1>9. ~Between'
  BY <1>6 DEF Between
<1> QED BY <1>1, <1>3, <1>8, <1>9, HoldsKb DEF w

LEMMA HoldWritten ==
  ASSUME ChInv, Write, Holds
  PROVE  HoldGoal
<1>1. job.todo # << >>
  BY DEF Write
<1>2. session.open
  BY <1>1 DEF ChInv, JobInv
<1>3. HoldInv(job.todo)
  BY <1>2 DEF ChInv, JobInv
<1>4. CASE /\ session.held \subseteq job.was /\ chip.kb \subseteq job.was
           /\ job.faults = 0 /\ job.err = "none" /\ Pressing(job.todo)
  <2>1. CASE \E P \in SUBSET ChKeys : PressLeft(job.todo, P)
    BY <1>4, <2>1, PressWritten
  <2>2. CASE \E P \in SUBSET ChKeys : \E k \in P : EdgeLeft(job.todo, P, k)
    BY <1>4, <2>2, EdgeWritten
  <2> QED BY <1>4, <2>1, <2>2 DEF Pressing
<1>5. CASE /\ session.held \subseteq job.was
           /\ job.faults = 0 /\ job.err = "none" /\ job.todo = << Kb(session.held, "release") >>
  BY <1>5, ReleaseWritten
<1>6. CASE /\ session.held \subseteq job.was
           /\ job.faults >= 1 /\ job.err # "none" /\ job.todo = << Kb(session.held, "only") >>
  BY <1>6, SecondReleaseWritten
<1> QED BY <1>1, <1>3, <1>4, <1>5, <1>6 DEF HoldInv

\* Any other command.
Others == Serving /\ ~Holds
OtherGoal == ChTypeOK' /\ RateInv' /\ JobShape' /\ OtherInv(job.todo)' /\ job'.text = << >>

LEMMA OthersFrame ==
  ASSUME ChInv, Write, Others
  PROVE  /\ WriteFrame /\ job.text = << >> /\ OtherInv(job.todo) /\ JobShape /\ ~(job.req > MaxReqs)
         /\ chip \in ChipSet /\ session \in SessionSet /\ session.held \in SUBSET ChKeys /\ ChTypeOK /\ RateInv
<1>1. reqs \in Seq(ChReq) /\ Len(reqs) \in Nat /\ Len(reqs) <= MaxReqs /\ DOMAIN reqs = 1..Len(reqs)
  BY LenProperties DEF ChInv, ChQueueInv
<1>2. ~(job.req > MaxReqs)
  BY <1>1 DEF Others, Serving
<1>3. WriteFrame
  BY WriteFrames
<1>4. chip \in ChipSet /\ session \in SessionSet /\ session.held \in SUBSET ChKeys
  BY DEF ChInv, ChTypeOK, ChipSet, SessionSet, ChKeys
<1> QED BY <1>2, <1>3, <1>4 DEF ChInv, JobInv, Others

LEMMA TextStays ==
  ASSUME NEW w, NEW res, JobAfter(w, res), job.text = << >>
  PROVE  job'.text = << >> /\ ~TypesOn(res)
BY DEF JobAfter, TypesOn

LEMMA OtherKbWritten ==
  ASSUME ChInv, Write, Others, job.todo = << Kb(session.held, "only") >>, MsSure
  PROVE  OtherGoal
<1> DEFINE H == session.held
           w == Kb(H, "only")
<1>1. Head(job.todo) = w /\ Tail(job.todo) = << >> /\ w.role = "only"
  BY DEF Kb
<1>2. KbWrote(H, "only") /\ WriteFrame
  BY <1>1, OthersFrame, KbWrites DEF ChInv
<1>3. PICK res \in Results :
        /\ (res = "ok" => chip'.kb = H) /\ ("kb" \in unsure' <=> res # "ok") /\ JobAfter(w, res)
  BY <1>2 DEF KbWrote
<1> HIDE DEF w
<1>4. job'.text = << >> /\ ~TypesOn(res)
  BY <1>3, OthersFrame, TextStays
<1>5. job'.todo = << >>
  BY <1>1, <1>3, <1>4 DEF JobAfter, After, Again
<1>6. KbSure' /\ MsSure'
  BY <1>2, <1>3 DEF KbSure, MsSure, KbWrote
<1>7. JobShape'
  BY <1>3, OthersFrame, ShapeKept
<1>8. ChTypeOK'
  BY <1>2, OthersFrame, TypeKept DEF WriteFrame, KbWrote
<1>9. ~Between /\ ~Between'
  BY <1>1, <1>5 DEF Between
<1>10. RateInv'
  BY <1>2, <1>9, OthersFrame, RateKept DEF WriteFrame, KbWrote
<1>11. OtherInv(job.todo)'
  BY <1>5, <1>6 DEF OtherInv
<1> QED BY <1>4, <1>7, <1>8, <1>10, <1>11 DEF OtherGoal

LEMMA OtherMsWritten ==
  ASSUME ChInv, Write, Others, KbSure, NEW M \in SUBSET Buttons, Head(job.todo) = Ms(M),
         (Tail(job.todo) = << >> /\ M = session.btn) \/ Tail(job.todo) = << Ms(session.btn) >>
  PROVE  OtherGoal
<1> DEFINE w == Ms(M)
<1>1. Head(job.todo) = w /\ w.role = "only"
  BY DEF Ms
<1>2. MsWrote(M) /\ WriteFrame
  BY <1>1, OthersFrame, MsWrites DEF ChInv
<1>3. session' = session
  BY <1>2, OthersFrame DEF MsWrote
<1>4. PICK res \in Results :
        /\ (res = "ok" => chip'.ms = M) /\ ("ms" \in unsure' <=> res # "ok") /\ JobAfter(w, res)
  BY <1>2 DEF MsWrote
<1> HIDE DEF w
<1>5. job'.text = << >> /\ ~TypesOn(res)
  BY <1>4, OthersFrame, TextStays
<1>6. job'.todo = IF res = "ok" THEN Tail(job.todo) ELSE << >>
  BY <1>1, <1>4, <1>5 DEF JobAfter, After, Again
<1>7. KbSure'
  BY <1>2, <1>3 DEF KbSure, MsWrote
<1>8. (job'.todo = << >> /\ MsSure') \/ job'.todo = << Ms(session'.btn) >>
  BY <1>3, <1>4, <1>6 DEF MsSure
<1>9. OtherInv(job.todo)'
  BY <1>7, <1>8 DEF OtherInv
<1>10. JobShape'
  BY <1>4, OthersFrame, ShapeKept
<1>11. ChTypeOK'
  BY <1>2, <1>3, OthersFrame, TypeKept DEF WriteFrame, MsWrote
<1>12. ~Between /\ ~Between'
  BY <1>1, <1>8 DEF Between, Ms
<1>13. RateInv'
  BY <1>2, <1>3, <1>12, OthersFrame, RateKept DEF WriteFrame, MsWrote
<1> QED BY <1>5, <1>9, <1>10, <1>11, <1>13 DEF OtherGoal

\* A question leaves the reports alone.
LEMMA AskedKept ==
  ASSUME ChInv, Write, Others, KbSure, MsSure,
         NEW role \in {"only", "query", "mux", "probe", "persist"}, NEW x,
         role = "persist" => x \in Rates, role = "mux" => x \in {"host", "target", "state"},
         Head(job.todo) = Ask(role, x),
         job'.todo = << >> \/ AskLeft(job'.todo),
         RateInv'
  PROVE  OtherGoal
<1>1. AskWrote(role, x) /\ WriteFrame
  BY OthersFrame, AskWrites DEF ChInv
<1>2. PICK res \in Results : JobAfter(Ask(role, x), res)
  BY <1>1 DEF AskWrote
<1>3. job'.text = << >>
  BY <1>2, OthersFrame, TextStays
<1>4. KbSure' /\ MsSure'
  BY <1>1 DEF KbSure, MsSure, AskWrote
<1>5. OtherInv(job.todo)'
  <2>1. CASE job'.todo = << >>
    BY <1>4, <2>1 DEF OtherInv
  <2>2. CASE AskLeft(job'.todo)
    <3>1. AskLeft(job.todo)'
      BY <2>2 DEF AskLeft
    <3> QED BY <1>4, <3>1 DEF OtherInv
  <2> QED BY <2>1, <2>2
<1>6. JobShape'
  BY <1>2, OthersFrame, ShapeKept
<1>7. ChTypeOK'
  BY <1>1, OthersFrame, TypeKept DEF WriteFrame, AskWrote
<1> QED BY <1>3, <1>5, <1>6, <1>7 DEF OtherGoal

\* A question that stores nothing.
LEMMA AskedAndKept ==
  ASSUME ChInv, Write, Others, KbSure, MsSure, NEW role \in {"only", "query", "mux", "probe"}, NEW x,
         role = "mux" => x \in {"host", "target", "state"},
         Head(job.todo) = Ask(role, x),
         job'.todo = << >> \/ (AskLeft(job'.todo) /\ Head(job'.todo).role # "reset")
  PROVE  OtherGoal
<1>1. AskWrote(role, x) /\ WriteFrame
  BY OthersFrame, AskWrites DEF ChInv
<1>2. ~Between /\ ~Between'
  BY DEF Between, Ask
<1>3. RateInv'
  BY <1>1, <1>2, OthersFrame, RateKept DEF WriteFrame, AskWrote
<1> QED BY <1>3, AskedKept

LEMMA AskAfter ==
  ASSUME ChInv, Write, Others, NEW role \in {"only", "query", "mux", "probe", "persist"}, NEW x,
         role = "persist" => x \in Rates, role = "mux" => x \in {"host", "target", "state"},
         Head(job.todo) = Ask(role, x)
  PROVE  \/ role = "query" /\ job'.todo = job.todo
         \/ job'.todo = << >>
         \/ job'.todo = Tail(job.todo)
<1>1. AskWrote(role, x)
  BY OthersFrame, AskWrites DEF ChInv
<1>2. PICK res \in Results : JobAfter(Ask(role, x), res)
  BY <1>1 DEF AskWrote
<1> DEFINE w == Ask(role, x)
<1>3. w.role = role
  BY DEF Ask
<1>4. JobAfter(w, res)
  BY <1>2
<1> HIDE DEF w
<1>5. ~TypesOn(res)
  BY <1>4, OthersFrame, TextStays
<1> QED BY <1>3, <1>4, <1>5 DEF JobAfter, After, Again

LEMMA PersistWritten ==
  ASSUME ChInv, Write, Others, KbSure, MsSure, NEW r \in Rates, job.todo = Persist5(r)
  PROVE  OtherGoal
<1> DEFINE w == Ask("persist", r)
<1>1. Head(job.todo) = w /\ w.role = "persist" /\ Tail(job.todo) = Reset4(r)
  <2>1. Head(job.todo) = w /\ Tail(job.todo) = Reset4(r)
    BY DEF Persist5, Reset4
  <2> QED BY <2>1 DEF Ask
<1>2. AskWrote("persist", r) /\ WriteFrame
  BY <1>1, OthersFrame, AskWrites DEF ChInv
<1>3. PICK res \in Results :
        /\ JobAfter(w, res)
        /\ res = "ok" => chip'.flash = r
        /\ res # "ok" /\ ~slipped' => chip'.flash = chip.flash
  BY <1>2 DEF AskWrote
<1> HIDE DEF w
<1>4. ~TypesOn(res)
  BY <1>3, OthersFrame, TextStays
<1>5. job'.todo = IF res = "ok" THEN Reset4(r) ELSE << >>
  BY <1>1, <1>3, <1>4 DEF JobAfter, After, Again
<1>6. RateInv'
  <2>1. CASE res = "ok"
    <3>1. Between' /\ Head(job'.todo).rep = r
      BY <1>5, <2>1 DEF Between, Reset4, Ask
    <3>2. ~Idle' /\ ~Releasing' /\ session'.open
      BY <1>2 DEF WriteFrame, AskWrote, Others
    <3> QED BY <1>3, <2>1, <3>1, <3>2 DEF RateInv
  <2>2. CASE res # "ok"
    <3>1. ~Between /\ ~Between'
      BY <1>1, <1>5, <2>2 DEF Between
    <3> QED BY <1>2, <1>3, <2>2, <3>1, OthersFrame, RateKept DEF WriteFrame, AskWrote
  <2> QED BY <2>1, <2>2
<1>7. job'.todo = << >> \/ AskLeft(job'.todo)
  BY <1>5 DEF AskLeft
<1> QED BY <1>1, <1>6, <1>7, AskedKept DEF w

LEMMA ResetWritten ==
  ASSUME ChInv, Write, Others, NEW r \in Rates, job.todo = Reset4(r)
  PROVE  OtherGoal
<1> DEFINE w == Ask("reset", r)
<1>1. Head(job.todo) = w /\ w.role = "reset" /\ w.rep = r /\ Tail(job.todo) = Probes3
  <2>1. Head(job.todo) = w /\ Tail(job.todo) = Probes3
    BY DEF Probes3, Reset4
  <2> QED BY <2>1 DEF Ask
<1>2. ResetWrote(r) /\ WriteFrame
  BY <1>1, OthersFrame, ResetWrites DEF ChInv
<1>3. PICK res \in Results : JobAfter(w, res)
  BY <1>2 DEF ResetWrote
<1> HIDE DEF w
<1>4. job'.text = << >> /\ ~TypesOn(res)
  BY <1>3, OthersFrame, TextStays
<1>5. job'.todo = Probes3
  BY <1>1, <1>3, <1>4 DEF JobAfter, After, Again
<1>6. Between /\ ~Between'
  <2>1. job.todo # << >>
    BY DEF Write
  <2> QED BY <1>1, <1>5, <2>1 DEF Between, Probes3, Ask
<1>7. RateInv'
  <2>1. ~Idle' /\ ~Releasing' /\ session'.open /\ session'.baud = r
    BY <1>2 DEF WriteFrame, ResetWrote, Others
  <2>2. ~slipped => chip.flash = r
    BY <1>1, <1>6, OthersFrame DEF RateInv
  <2> QED BY <1>2, <1>6, <2>1, <2>2 DEF RateInv, ResetWrote
<1>8. KbSure' /\ MsSure'
  BY <1>2 DEF KbSure, MsSure, ResetWrote
<1>9. OtherInv(job.todo)'
  <2>1. AskLeft(job.todo)'
    BY <1>5 DEF AskLeft
  <2> QED BY <1>8, <2>1 DEF OtherInv
<1>10. JobShape'
  BY <1>3, OthersFrame, ShapeKept
<1>11. session' \in SessionSet
  BY <1>2, OthersFrame DEF ResetWrote, SessionSet
<1>12. unsure' \subseteq {"kb", "ms", "chip"}
  BY <1>2 DEF ResetWrote
<1>13. ChTypeOK'
  BY <1>2, <1>11, <1>12, OthersFrame, TypeKept DEF WriteFrame, ResetWrote
<1> QED BY <1>4, <1>7, <1>9, <1>10, <1>13 DEF OtherGoal

LEMMA AskWritten ==
  ASSUME ChInv, Write, Others, KbSure, MsSure, AskLeft(job.todo)
  PROVE  OtherGoal
<1>1. CASE job.todo = << Ask("query", {}) >>
  <2>1. Head(job.todo) = Ask("query", {}) /\ Tail(job.todo) = << >>
    BY <1>1
  <2>2. AskLeft(job.todo) /\ Head(job.todo).role # "reset"
    BY <2>1 DEF Ask
  <2>3. job'.todo = << >> \/ job'.todo = job.todo
    BY <2>1, AskAfter
  <2> QED BY <2>1, <2>2, <2>3, AskedAndKept
<1>2. ASSUME NEW a \in {"host", "target", "state"}, job.todo = << Ask("mux", a) >> PROVE OtherGoal
  <2>1. Head(job.todo) = Ask("mux", a) /\ Tail(job.todo) = << >>
    BY <1>2
  <2>2. job'.todo = << >>
    BY <2>1, AskAfter
  <2> QED BY <2>1, <2>2, AskedAndKept
<1>3. CASE job.todo \in {Probes1, Probes2, Probes3}
  <2>1. Head(job.todo) = Ask("probe", {}) /\ Tail(job.todo) \in {<< >>, Probes1, Probes2}
    <3>1. Head(Probes1) = Ask("probe", {}) /\ Tail(Probes1) = << >>
      BY DEF Probes1
    <3>2. Head(Probes2) = Ask("probe", {}) /\ Tail(Probes2) = Probes1
      BY DEF Probes1, Probes2
    <3>3. Head(Probes3) = Ask("probe", {}) /\ Tail(Probes3) = Probes2
      BY DEF Probes2, Probes3
    <3> QED BY <1>3, <3>1, <3>2, <3>3
  <2>2. Head(Probes1).role # "reset" /\ Head(Probes2).role # "reset"
    BY DEF Probes1, Probes2, Ask
  <2>3. job'.todo \in {<< >>, Probes1, Probes2}
    BY <2>1, AskAfter
  <2>4. job'.todo = << >> \/ (AskLeft(job'.todo) /\ Head(job'.todo).role # "reset")
    BY <2>2, <2>3 DEF AskLeft
  <2> QED BY <2>1, <2>4, AskedAndKept
<1>4. ASSUME NEW r \in Rates, job.todo = SetBaud(r) PROVE OtherGoal
  <2>1. Head(job.todo) = Ask("only", {}) /\ Tail(job.todo) = Persist5(r)
    BY <1>4 DEF SetBaud, Persist5
  <2>2. Head(Persist5(r)).role # "reset"
    BY DEF Persist5, Ask
  <2>3. job'.todo \in {<< >>, Persist5(r)}
    BY <2>1, AskAfter
  <2>4. job'.todo = << >> \/ (AskLeft(job'.todo) /\ Head(job'.todo).role # "reset")
    BY <2>2, <2>3 DEF AskLeft
  <2> QED BY <2>1, <2>4, AskedAndKept
<1>5. ASSUME NEW r \in Rates, job.todo = Persist5(r) PROVE OtherGoal
  BY <1>5, PersistWritten
<1>6. ASSUME NEW r \in Rates, job.todo = Reset4(r) PROVE OtherGoal
  BY <1>6, ResetWritten
<1> QED BY <1>1, <1>2, <1>3, <1>4, <1>5, <1>6 DEF AskLeft

LEMMA OtherWritten ==
  ASSUME ChInv, Write, Others
  PROVE  OtherGoal
<1>1. job.todo # << >>
  BY DEF Write
<1>2. OtherInv(job.todo) /\ session.btn \in SUBSET Buttons
  BY OthersFrame DEF SessionSet
<1>3. CASE job.todo = << Kb(session.held, "only") >> /\ MsSure
  BY <1>3, OtherKbWritten
<1>4. CASE (\E M \in SUBSET Buttons : job.todo = << Ms(M), Ms(session.btn) >>) /\ KbSure
  <2>1. PICK M \in SUBSET Buttons : job.todo = << Ms(M), Ms(session.btn) >>
    BY <1>4
  <2>2. Head(job.todo) = Ms(M) /\ Tail(job.todo) = << Ms(session.btn) >>
    BY <2>1
  <2> QED BY <1>4, <2>2, OtherMsWritten
<1>5. CASE job.todo = << Ms(session.btn) >> /\ KbSure
  <2>1. Head(job.todo) = Ms(session.btn) /\ Tail(job.todo) = << >>
    BY <1>5
  <2> QED BY <1>2, <1>5, <2>1, OtherMsWritten
<1>6. CASE AskLeft(job.todo) /\ KbSure /\ MsSure
  BY <1>6, AskWritten
<1> QED BY <1>1, <1>2, <1>3, <1>4, <1>5, <1>6 DEF OtherInv

-----------------------------------------------------------------------------
\* The shutdown release.
EndGoal ==
  /\ ChTypeOK' /\ RateInv' /\ JobShape' /\ EndInv(job.todo)' /\ job'.text = << >>
  /\ session'.open => session'.held = {}

LEMMA EndWritten ==
  ASSUME ChInv, Write, Releasing
  PROVE  EndGoal
<1>1. WriteFrame
  BY WriteFrames
<1>2. /\ EndInv(job.todo) /\ job.text = << >> /\ session.open /\ session.held = {} /\ job.todo # << >>
      /\ JobShape /\ RateInv /\ ChTypeOK
  BY <1>1 DEF ChInv, JobInv, WriteFrame, Write
<1>3. job.req > MaxReqs
  BY DEF Releasing
<1>4. chip \in ChipSet /\ session \in SessionSet
  BY <1>2 DEF ChTypeOK, ChipSet, SessionSet
<1>5. CASE job.todo = << Kb({}, "only"), Ms({}) >> /\ job.err = "none" /\ MsSure
  <2> DEFINE w == Kb({}, "only")
  <2>1. Head(job.todo) = w /\ w.role = "only" /\ Tail(job.todo) = << Ms({}) >>
    BY <1>5 DEF Kb
  <2>2. KbWrote({}, "only")
    BY <1>2, <2>1, KbWrites
  <2>3. PICK res \in Results :
          /\ (res = "ok" => chip'.kb = {}) /\ ("kb" \in unsure' <=> res # "ok") /\ JobAfter(w, res)
    BY <2>2 DEF KbWrote
  <2> HIDE DEF w
  <2>4. job'.text = << >> /\ ~TypesOn(res)
    BY <1>2, <2>3, TextStays
  <2>5. job'.todo = IF res = "ok" THEN << Ms({}) >> ELSE << >>
    BY <2>1, <2>3, <2>4 DEF JobAfter, After, Again
  <2>6. IF res = "ok" THEN job'.err = "none" ELSE job'.err # "none"
    BY <1>5, <2>1, <2>3 DEF JobAfter, Error, Again, Results
  <2>7. MsSure' /\ KbSure' /\ session'.held = {}
    BY <1>2, <1>5, <2>2, <2>3 DEF KbSure, MsSure, KbWrote
  <2>8. EndInv(job.todo)'
    BY <2>3, <2>5, <2>6, <2>7 DEF EndInv
  <2>9. JobShape'
    BY <1>2, <2>3, ShapeKept
  <2>10. ChTypeOK'
    BY <1>1, <1>2, <1>4, <2>2, TypeKept DEF WriteFrame, KbWrote
  <2>11. ~Between /\ ~Between'
    BY <2>1, <2>5 DEF Between, Ms
  <2>12. RateInv'
    BY <1>1, <1>2, <2>2, <2>11, RateKept DEF WriteFrame, KbWrote
  <2> QED BY <2>4, <2>7, <2>8, <2>9, <2>10, <2>12 DEF EndGoal
<1>6. CASE job.todo = << Ms({}) >> /\ KbSure /\ job.err = "none" /\ chip.kb = {}
  <2> DEFINE w == Ms({})
  <2>1. Head(job.todo) = w /\ w.role = "only" /\ Tail(job.todo) = << >>
    BY <1>6 DEF Ms
  <2>2. MsWrote({})
    BY <1>2, <2>1, MsWrites
  <2>3. PICK res \in Results :
          /\ (res = "ok" => chip'.ms = {}) /\ ("ms" \in unsure' <=> res # "ok") /\ JobAfter(w, res)
    BY <2>2 DEF MsWrote
  <2>0. session' = [session EXCEPT !.btn = {}]
    BY <1>3, <2>2 DEF MsWrote
  <2>4. /\ session' \in SessionSet /\ session'.open = session.open /\ session'.held = {}
        /\ session'.btn = {} /\ session'.baud = session.baud
    BY <1>2, <1>4, <2>0 DEF SessionSet
  <2> HIDE DEF w
  <2>5. job'.text = << >> /\ ~TypesOn(res)
    BY <1>2, <2>3, TextStays
  <2>6. job'.todo = << >>
    BY <2>1, <2>3, <2>5 DEF JobAfter, After, Again
  <2>7. job'.err = "none" => res = "ok"
    BY <1>6, <2>1, <2>3 DEF JobAfter, Error, Again, Results
  <2>8. MsSure' /\ KbSure' /\ chip'.kb = {}
    BY <1>2, <1>6, <2>2, <2>3, <2>4 DEF KbSure, MsSure, MsWrote
  <2>9. EndInv(job.todo)'
    BY <2>3, <2>6, <2>7, <2>8 DEF EndInv
  <2>10. JobShape'
    BY <1>2, <2>3, ShapeKept
  <2>11. ChTypeOK'
    BY <1>1, <1>2, <2>2, <2>4, TypeKept DEF WriteFrame, MsWrote
  <2>12. ~Between /\ ~Between'
    BY <2>1, <2>6 DEF Between
  <2>13. RateInv'
    BY <1>1, <1>2, <2>2, <2>4, <2>12, RateKept DEF WriteFrame, MsWrote
  <2> QED BY <2>4, <2>5, <2>9, <2>10, <2>11, <2>13 DEF EndGoal
<1> QED BY <1>2, <1>5, <1>6 DEF EndInv

LEMMA WriteStep ==
  ASSUME ChInv, Write
  PROVE  ChInv'
<1>1. WriteFrame /\ ChQueueInv' /\ AbandonedIsSkipped' /\ ReleaseInv' /\ ReleaseClears'
  BY WriteFrames, WriteQueue
<1>2. ~Idle' /\ session'.open /\ ((Serving' /\ (reqs[job.req].state)' = "running") \/ Releasing')
  <2>1. session'.open
    <3>1. session \in SessionSet /\ session.open
      BY <1>1 DEF ChInv, ChTypeOK, SessionSet, WriteFrame
    <3>2. \E res : session' = AfterWrite(Head(job.todo), res)
      BY WriteWrites DEF Wrote
    <3> QED BY <3>1, <3>2 DEF AfterWrite, SessionSet
  <2>2. (Serving /\ reqs[job.req].state = "running") \/ Releasing
    BY <1>1 DEF ChInv, JobInv, WriteFrame
  <2> QED BY <1>1, <2>1, <2>2 DEF WriteFrame
<1>3. CASE Holds
  <2>1. HoldGoal
    BY <1>3, HoldWritten
  <2>2. Holds' /\ ~Releasing' /\ ~(Serving' /\ ~Holds')
    BY <1>1, <1>3 DEF WriteFrame, Holds
  <2>3. JobInv'
    BY <1>2, <2>1, <2>2 DEF HoldGoal, JobInv
  <2> QED BY <1>1, <2>1, <2>3 DEF HoldGoal, ChInv
<1>4. CASE Others
  <2>1. OtherGoal
    BY <1>4, OtherWritten
  <2>2. ~Holds' /\ ~Releasing'
    BY <1>1, <1>4 DEF WriteFrame, Others
  <2>3. JobInv'
    BY <1>2, <2>1, <2>2 DEF OtherGoal, JobInv
  <2> QED BY <1>1, <2>1, <2>3 DEF OtherGoal, ChInv
<1>5. CASE Releasing
  <2>1. EndGoal
    BY <1>5, EndWritten
  <2>2. ~Holds' /\ ~Serving'
    BY <1>1, <1>5 DEF WriteFrame, Holds
  <2>3. JobInv'
    BY <1>2, <2>1, <2>2 DEF EndGoal, JobInv
  <2> QED BY <1>1, <2>1, <2>3 DEF EndGoal, ChInv
<1> QED BY <1>1, <1>3, <1>4, <1>5 DEF WriteFrame, Others
-----------------------------------------------------------------------------
(***************************************************************************)
(* The queue.                                                              *)
(***************************************************************************)

SetState(q, r, st) == [q EXCEPT ![r].state = st]
Settled(q, r, st, q2) ==
  /\ q2 \in Seq(ChReq) /\ Len(q2) = Len(q) /\ DOMAIN q2 = 1..Len(q)
  /\ \A p \in 1..Len(q) :
       /\ q2[p].state = (IF p = r THEN st ELSE q[p].state)
       /\ q2[p].client = q[p].client /\ q2[p].cmd = q[p].cmd

LEMMA SettleState ==
  ASSUME NEW q \in Seq(ChReq), NEW r \in 1..Len(q),
         NEW st \in {"queued", "running", "ok", "err", "skipped"}
  PROVE  Settled(q, r, st, SetState(q, r, st))
<1> DEFINE q2 == SetState(q, r, st)
<1> DEFINE one == [q[r] EXCEPT !.state = st]
<1>1. q[r] \in ChReq /\ Len(q) \in Nat /\ DOMAIN q = 1..Len(q)
  BY ElementOfSeq, LenProperties
<1>2. one \in ChReq /\ one.state = st /\ one.client = q[r].client /\ one.cmd = q[r].cmd
  BY <1>1 DEF ChReq
<1>3. q2 = [q EXCEPT ![r] = one]
  BY DEF SetState
<1> HIDE DEF one, q2
<1>4. /\ [q EXCEPT ![r] = one] \in Seq(ChReq) /\ Len([q EXCEPT ![r] = one]) = Len(q)
      /\ \A p \in 1..Len(q) : [q EXCEPT ![r] = one][p] = IF p = r THEN one ELSE q[p]
  BY <1>2, ExceptSeq
<1>5. q2 \in Seq(ChReq) /\ Len(q2) = Len(q) /\ \A p \in 1..Len(q) : q2[p] = IF p = r THEN one ELSE q[p]
  BY <1>3, <1>4
<1>6. DOMAIN q2 = 1..Len(q)
  BY <1>5, LenProperties
<1> HIDE DEF q2
<1>7. Settled(q, r, st, q2)
  BY <1>1, <1>2, <1>5, <1>6 DEF Settled
<1> QED BY <1>7 DEF q2

QueueOK(q, n) == \A i \in DOMAIN q : q[i] \in 0..n

\* The head of the queue is taken, or is looked at and stays.
LEMMA TailOfQueue ==
  ASSUME ChQueueInv, QueueOK(queue, Len(reqs)), queue # << >>,
         NEW q2, q2 = queue \/ q2 = Tail(queue)
  PROVE  /\ q2 \in Seq(Nat) /\ QueueOK(q2, Len(reqs))
         /\ \A i, j \in DOMAIN q2 : i < j /\ q2[j] # 0 => q2[i] < q2[j]
         /\ \A i, j \in DOMAIN q2 : q2[i] = 0 /\ q2[j] = 0 => i = j
         /\ \A x \in Nat : x # Head(queue) /\ (\E i \in DOMAIN queue : queue[i] = x) => \E i \in DOMAIN q2 : q2[i] = x
         /\ (\E i \in DOMAIN q2 : q2[i] = 0) => \E i \in DOMAIN queue : queue[i] = 0
         /\ q2 = Tail(queue) /\ Head(queue) = 0 => \A i \in DOMAIN q2 : q2[i] # 0
<1>1. /\ queue \in Seq(Nat)
      /\ \A i, j \in DOMAIN queue : i < j /\ queue[j] # 0 => queue[i] < queue[j]
      /\ \A i, j \in DOMAIN queue : queue[i] = 0 /\ queue[j] = 0 => i = j
      /\ \A i \in DOMAIN queue : queue[i] \in 0..Len(reqs)
  BY DEF ChQueueInv, QueueOK
<1> DEFINE n == Len(queue)
           t == Tail(queue)
<1>2. n \in Nat /\ n > 0 /\ DOMAIN queue = 1..n /\ Head(queue) = queue[1]
  BY <1>1, LenProperties, EmptySeq, HeadTailProperties
<1>3. t \in Seq(Nat) /\ Len(t) = n - 1 /\ \A i \in 1..(n - 1) : t[i] = queue[i + 1]
  BY <1>1, HeadTailProperties
<1>4. DOMAIN t = 1..(n - 1)
  BY <1>3, LenProperties
<1> HIDE DEF n, t
<1>5. CASE q2 = queue
  <2>1. queue = t => n = n - 1
    BY <1>3 DEF n
  <2>2. queue # t
    BY <1>2, <2>1
  <2> QED BY <1>1, <1>5, <2>2 DEF QueueOK, t
<1>6. CASE q2 = t
  <2>1. \A i \in 1..(n - 1) : i + 1 \in 1..n /\ i + 1 # 1
    BY <1>2
  <2>2. QueueOK(q2, Len(reqs))
    BY <1>1, <1>2, <1>3, <1>4, <1>6, <2>1 DEF QueueOK
  <2>3. ASSUME NEW i \in DOMAIN q2, NEW j \in DOMAIN q2 PROVE i < j /\ q2[j] # 0 => q2[i] < q2[j]
    <3>1. i + 1 \in 1..n /\ j + 1 \in 1..n /\ (i < j => i + 1 < j + 1)
      BY <1>4, <1>6, <2>1, <2>3
    <3> QED BY <1>1, <1>2, <1>3, <1>4, <1>6, <3>1
  <2>4. ASSUME NEW i \in DOMAIN q2, NEW j \in DOMAIN q2, q2[i] = 0, q2[j] = 0 PROVE i = j
    <3>1. i + 1 \in 1..n /\ j + 1 \in 1..n /\ (i + 1 = j + 1 => i = j)
      BY <1>2, <1>4, <1>6, <2>1, <2>4
    <3>2. queue[i + 1] = 0 /\ queue[j + 1] = 0
      BY <1>3, <1>4, <1>6, <2>4
    <3> QED BY <1>1, <1>2, <3>1, <3>2
  <2>5. ASSUME NEW x \in Nat, x # Head(queue), NEW i \in DOMAIN queue, queue[i] = x
        PROVE  \E k \in DOMAIN q2 : q2[k] = x
    <3>1. i # 1 /\ i \in 1..n
      BY <1>2, <2>5
    <3>2. i - 1 \in 1..(n - 1) /\ (i - 1) + 1 = i
      BY <1>2, <3>1
    <3> QED BY <1>3, <1>4, <1>6, <2>5, <3>2
  <2>6. ASSUME NEW i \in DOMAIN q2, q2[i] = 0
        PROVE  i + 1 \in DOMAIN queue /\ queue[i + 1] = 0 /\ i + 1 # 1
    BY <1>2, <1>3, <1>4, <1>6, <2>1, <2>6
  <2>7. Head(queue) = 0 => \A i \in DOMAIN q2 : q2[i] # 0
    <3>1. 1 \in DOMAIN queue
      BY <1>2
    <3> QED BY <1>1, <1>2, <2>6, <3>1
  <2> QED BY <1>3, <1>6, <2>2, <2>3, <2>4, <2>5, <2>6, <2>7
<1> QED BY <1>5, <1>6 DEF t

\* A request is begun, or skipped.
LEMMA QueueServed ==
  ASSUME ChQueueInv, AbandonedIsSkipped, QueueOK(queue, Len(reqs)), queue # << >>, Head(queue) # 0,
         queue' = queue \/ queue' = Tail(queue), NEW st \in {"skipped", "running"},
         st = "running" => reqs[Head(queue)].client # "left",
         reqs' = [reqs EXCEPT ![Head(queue)].state = st]
  PROVE  /\ Head(queue) \in 1..Len(reqs) /\ DOMAIN reqs = 1..Len(reqs)
         /\ Len(reqs') = Len(reqs) /\ DOMAIN reqs' = DOMAIN reqs
         /\ \A p \in DOMAIN reqs : reqs'[p].cmd = reqs[p].cmd
         /\ reqs'[Head(queue)].state = st
         /\ QueueOK(queue', Len(reqs')) /\ ChQueueInv' /\ AbandonedIsSkipped'
<1> DEFINE r == Head(queue)
           n == Len(reqs)
<1>1. queue \in Seq(Nat) /\ reqs \in Seq(ChReq) /\ n \in Nat /\ n <= MaxReqs /\ DOMAIN reqs = 1..n
  BY LenProperties DEF ChQueueInv
<1>2. r = queue[1] /\ 1 \in DOMAIN queue
  BY <1>1, LenProperties, EmptySeq, HeadTailProperties
<1>3. r \in 1..n
  BY <1>1, <1>2 DEF QueueOK
<1>4. /\ st \in {"queued", "running", "ok", "err", "skipped"}
      /\ reqs' = SetState(reqs, r, st)
  BY DEF SetState
<1> HIDE DEF r
<1>5. /\ reqs' \in Seq(ChReq) /\ Len(reqs') = n /\ DOMAIN reqs' = 1..n
      /\ \A p \in 1..n : /\ reqs'[p].state = (IF p = r THEN st ELSE reqs[p].state)
                         /\ reqs'[p].client = reqs[p].client /\ reqs'[p].cmd = reqs[p].cmd
  <2>1. reqs \in Seq(ChReq) /\ r \in 1..Len(reqs)
    BY <1>1, <1>3
  <2>2. /\ reqs' \in Seq(ChReq) /\ Len(reqs') = Len(reqs) /\ DOMAIN reqs' = 1..Len(reqs)
        /\ \A p \in 1..Len(reqs) : /\ reqs'[p].state = (IF p = r THEN st ELSE reqs[p].state)
                                /\ reqs'[p].client = reqs[p].client /\ reqs'[p].cmd = reqs[p].cmd
    <3>1. Settled(reqs, r, st, SetState(reqs, r, st))
      BY <1>4, <2>1, SettleState
    <3>2. Settled(reqs, r, st, reqs')
      BY <1>4, <3>1
    <3> QED BY <3>2 DEF Settled
  <2> QED BY <2>2
<1> USE DEF r
<1>6. /\ queue' \in Seq(Nat) /\ QueueOK(queue', n)
      /\ \A i, j \in DOMAIN queue' : i < j /\ queue'[j] # 0 => queue'[i] < queue'[j]
      /\ \A i, j \in DOMAIN queue' : queue'[i] = 0 /\ queue'[j] = 0 => i = j
      /\ \A x \in Nat : x # r /\ (\E i \in DOMAIN queue : queue[i] = x) => \E i \in DOMAIN queue' : queue'[i] = x
  BY TailOfQueue
<1> HIDE DEF n
<1>7. \A p \in 1..n : reqs[p].state = "queued" => \E i \in DOMAIN queue : queue[i] = p
  BY <1>1 DEF ChQueueInv
<1>8. ASSUME NEW p \in 1..n, reqs'[p].state = "queued" PROVE \E i \in DOMAIN queue' : queue'[i] = p
  <2>1. p # r /\ reqs[p].state = "queued" /\ p \in Nat
    BY <1>1, <1>5, <1>8
  <2> QED BY <1>6, <1>7, <2>1
<1>9. ChQueueInv'
  BY <1>1, <1>5, <1>6, <1>8 DEF ChQueueInv
<1>10. ASSUME NEW p \in 1..n, reqs'[p].client = "left" PROVE reqs'[p].state \in {"queued", "skipped"}
  <2>1. reqs[p].client = "left" /\ reqs[p].state \in {"queued", "skipped"}
    BY <1>1, <1>5, <1>10 DEF AbandonedIsSkipped
  <2> QED BY <1>5, <2>1
<1>11. ASSUME NEW p \in 1..n, NEW q \in 1..(p - 1), reqs'[p].state # "queued", reqs'[q].state = "queued"
       PROVE  FALSE
  <2>1. q \in 1..n /\ q \in Nat /\ q < p
    BY <1>1, <1>11
  <2>2. q # r /\ reqs[q].state = "queued"
    BY <1>5, <1>11, <2>1
  <2>3. CASE p = r
    <3>1. PICK i \in DOMAIN queue : queue[i] = q
      BY <1>7, <2>1, <2>2
    <3>2. DOMAIN queue = 1..Len(queue) /\ Len(queue) \in Nat
      BY <1>1, LenProperties
    <3>3. i # 1 /\ 1 < i
      BY <1>2, <2>2, <3>1, <3>2
    <3>4. r < q
      BY <1>2, <2>1, <3>1, <3>3 DEF ChQueueInv
    <3> QED BY <1>3, <2>1, <2>3, <3>4
  <2>4. CASE p # r
    <3>1. reqs[p].state # "queued"
      BY <1>5, <1>11, <2>4
    <3> QED BY <1>1, <2>2, <3>1 DEF AbandonedIsSkipped
  <2> QED BY <2>3, <2>4
<1>12. AbandonedIsSkipped'
  BY <1>5, <1>10, <1>11 DEF AbandonedIsSkipped
<1> QED BY <1>1, <1>3, <1>5, <1>6, <1>9, <1>12 DEF n
-----------------------------------------------------------------------------
(***************************************************************************)
(* A command is begun.                                                     *)
(***************************************************************************)

WithHeld(s, h) == [s EXCEPT !.held = h]
WithBtn(s, b) == [s EXCEPT !.btn = b]

LEMMA HeldFields ==
  ASSUME NEW s \in SessionSet, NEW h \in SUBSET ChKeys
  PROVE  /\ WithHeld(s, h) \in SessionSet /\ WithHeld(s, h).held = h /\ WithHeld(s, h).btn = s.btn
         /\ WithHeld(s, h).open = s.open /\ WithHeld(s, h).baud = s.baud
BY DEF SessionSet, ChKeys, WithHeld

LEMMA BtnFields ==
  ASSUME NEW s \in SessionSet, NEW b \in SUBSET Buttons
  PROVE  /\ WithBtn(s, b) \in SessionSet /\ WithBtn(s, b).btn = b /\ WithBtn(s, b).held = s.held
         /\ WithBtn(s, b).open = s.open /\ WithBtn(s, b).baud = s.baud
BY DEF SessionSet, WithBtn

\* What a session is after a command was begun.
Begun(s, s2) == s2 \in SessionSet /\ s2.open = s.open /\ s2.baud = s.baud

\* The writes of a command that holds keys and lets them go.
HoldBegun(t, cmd, s, s2) ==
  \/ t = << >> /\ s2 = s
  \/ \E P \in SUBSET ChKeys :
       /\ t = << Kb(P, "press"), Kb(s2.held, "release") >>
       /\ cmd.verb = "type" => P # s.held
  \/ \E P \in SUBSET ChKeys : \E k \in P :
       t = << Kb(s2.held \ {k}, "only"), Kb(P, "press"), Kb(s2.held, "release") >>

LEMMA HoldProgram ==
  ASSUME NEW s \in SessionSet, NEW cmd \in Commands, cmd.verb \in HoldVerbs,
         NEW s2, s2 = HeldAfter(cmd, s)
  PROVE  /\ Begun(s, s2) /\ s2.btn = s.btn /\ s2.held \subseteq s.held
         /\ TextAfter(cmd) \in Seq(Chars) /\ (cmd.verb # "type" => TextAfter(cmd) = << >>)
         /\ HoldBegun(Program(cmd, s), cmd, s, s2)
<1>0. s.held \in SUBSET ChKeys
  BY DEF SessionSet, ChKeys
<1>1. CASE cmd.verb \in {"key", "combo"}
  <2>1. cmd.keys \in SUBSET ChKeys
    BY <1>1 DEF MouseVerbs, ChKeys
  <2> DEFINE h == s.held \ cmd.keys
             P == ApplyDown(s.held, cmd.keys)
  <2>2. h \in SUBSET ChKeys /\ h \subseteq s.held
    BY <1>0
  <2>3. s2 = WithHeld(s, h)
    BY <1>1 DEF HeldAfter, WithHeld
  <2>4. Program(cmd, s) = << Kb(P, "press"), Kb(h, "release") >>
    BY <1>1 DEF Program, Hold
  <2>5. P \in SUBSET ChKeys
    BY <1>0, <2>1, DownIsOfKeys
  <2>6. TextAfter(cmd) = << >>
    BY <1>1 DEF TextAfter
  <2> HIDE DEF h, P
  <2>7. Begun(s, s2) /\ s2.btn = s.btn /\ s2.held = h
    BY <2>2, <2>3, HeldFields DEF Begun
  <2>8. TextAfter(cmd) \in Seq(Chars)
    BY <2>6
  <2> QED BY <1>1, <2>2, <2>4, <2>5, <2>6, <2>7, <2>8 DEF HoldBegun
<1>2. CASE cmd.verb = "type"
  <2>1. cmd.arg \in Seq(Chars)
    BY <1>2 DEF Chars
  <2>2. s2 = s
    BY <1>2 DEF HeldAfter
  <2>3. Program(cmd, s) = TypeNext(s.held, cmd.arg)
    BY <1>2 DEF Program
  <2>4. Begun(s, s2)
    BY <2>2 DEF Begun
  <2>5. CASE cmd.arg = << >>
    <3>1. TextAfter(cmd) = << >> /\ Program(cmd, s) = << >>
      BY <2>3, <2>5 DEF TextAfter, TypeNext
    <3>2. TextAfter(cmd) \in Seq(Chars)
      BY <3>1
    <3> QED BY <1>2, <2>2, <2>4, <3>1, <3>2 DEF HoldBegun
  <2>6. CASE cmd.arg # << >>
    <3> DEFINE ch == Head(cmd.arg)
               H == s.held
    <3>1. ch \in Chars /\ Tail(cmd.arg) \in Seq(Chars)
      BY <2>1, <2>6, HeadTailProperties
    <3>2. TextAfter(cmd) \in Seq(Chars) /\ Program(cmd, s) = TypeChar(H, ch)
      BY <1>2, <2>3, <2>6, <3>1 DEF TextAfter, TypeNext
    <3>3. H \in SUBSET ChKeys /\ s2.held = H
      BY <1>0, <2>2
    <3> HIDE DEF ch, H
    <3>4. PICK P \in SUBSET ChKeys :
           \/ ch.usage \in P \ H
              /\ TypeChar(H, ch) = << Kb(P, "press"), Kb(H, "release") >>
           \/ ch.usage \in P
              /\ TypeChar(H, ch) = << Kb(H \ {ch.usage}, "only"), Kb(P, "press"), Kb(H, "release") >>
      BY <3>1, <3>3, TypeCharLeft
    <3>5. CASE ch.usage \in P \ H /\ TypeChar(H, ch) = << Kb(P, "press"), Kb(H, "release") >>
      <4>1. P # s.held
        BY <3>5 DEF H
      <4> QED BY <1>2, <2>2, <2>4, <3>2, <3>3, <3>5, <4>1 DEF HoldBegun
    <3>6. CASE /\ ch.usage \in P
               /\ TypeChar(H, ch) = << Kb(H \ {ch.usage}, "only"), Kb(P, "press"), Kb(H, "release") >>
      BY <1>2, <2>2, <2>4, <3>2, <3>3, <3>6 DEF HoldBegun
    <3> QED BY <3>4, <3>5, <3>6
  <2> QED BY <2>5, <2>6
<1> QED BY <1>1, <1>2 DEF HoldVerbs

\* The writes of any other command.
OtherBegun(t, s, s2) ==
  \/ t = << Kb(s2.held, "only") >> /\ s2.btn = s.btn
  \/ (\E M \in SUBSET Buttons : t = << Ms(M), Ms(s2.btn) >>) /\ s2.held = s.held
  \/ t = << Ms(s2.btn) >> /\ s2.held = s.held
  \/ AskLeft(t) /\ t # << >> /\ Head(t).role # "reset" /\ s2 = s
  \/ t = << >> /\ s2 = s

LEMMA OtherProgram ==
  ASSUME NEW s \in SessionSet, NEW cmd \in Commands, cmd.verb \notin HoldVerbs,
         NEW s2, s2 = HeldAfter(cmd, s)
  PROVE  Begun(s, s2) /\ TextAfter(cmd) = << >> /\ OtherBegun(Program(cmd, s), s, s2)
<1> DEFINE t == Program(cmd, s)
<1>1. s.held \in SUBSET ChKeys /\ s.btn \in SUBSET Buttons
  BY DEF SessionSet, ChKeys
<1>2. TextAfter(cmd) = << >> /\ cmd.verb # "release" /\ cmd.verb \notin {"key", "combo", "type"}
  BY DEF TextAfter, HoldVerbs
<1>3. CASE cmd.verb = "down"
  <2>1. ApplyDown(s.held, cmd.keys) \in SUBSET ChKeys
    BY <1>1, <1>3, DownIsOfKeys DEF MouseVerbs, ChKeys
  <2>2. s2 = WithHeld(s, ApplyDown(s.held, cmd.keys)) /\ t = << Kb(ApplyDown(s.held, cmd.keys), "only") >>
    BY <1>3 DEF HeldAfter, Program, WithHeld, WithBtn
  <2> QED BY <1>2, <2>1, <2>2, HeldFields DEF Begun, OtherBegun
<1>4. CASE cmd.verb = "up"
  <2>1. s.held \ cmd.keys \in SUBSET ChKeys
    BY <1>1
  <2>2. s2 = WithHeld(s, s.held \ cmd.keys) /\ t = << Kb(s.held \ cmd.keys, "only") >>
    BY <1>4 DEF HeldAfter, Program, WithHeld, WithBtn
  <2> QED BY <1>2, <2>1, <2>2, HeldFields DEF Begun, OtherBegun
<1>5. CASE cmd.verb = "releaseall"
  <2> DEFINE h == {}
  <2>1. h \in SUBSET ChKeys
    OBVIOUS
  <2>2. s2 = WithHeld(s, h) /\ t = << Kb(h, "only") >>
    BY <1>5 DEF HeldAfter, Program, WithHeld, WithBtn
  <2> HIDE DEF h
  <2> QED BY <1>2, <2>1, <2>2, HeldFields DEF Begun, OtherBegun
<1>6. CASE cmd.verb = "mdown"
  <2>1. s.btn \cup cmd.keys \in SUBSET Buttons
    BY <1>1, <1>6 DEF MouseVerbs
  <2>2. s2 = WithBtn(s, s.btn \cup cmd.keys) /\ t = << Ms(s.btn \cup cmd.keys) >>
    BY <1>6 DEF HeldAfter, Program, WithHeld, WithBtn
  <2> QED BY <1>2, <2>1, <2>2, BtnFields DEF Begun, OtherBegun
<1>7. CASE cmd.verb = "mup"
  <2>1. s.btn \ cmd.keys \in SUBSET Buttons
    BY <1>1
  <2>2. s2 = WithBtn(s, s.btn \ cmd.keys) /\ t = << Ms(s.btn \ cmd.keys) >>
    BY <1>7 DEF HeldAfter, Program, WithHeld, WithBtn
  <2> QED BY <1>2, <2>1, <2>2, BtnFields DEF Begun, OtherBegun
<1>8. CASE cmd.verb \notin {"down", "up", "releaseall", "mdown", "mup"}
  <2>1. s2 = s
    BY <1>2, <1>8 DEF HeldAfter
  <2>2. OtherBegun(t, s, s2)
    <3>1. CASE cmd.verb = "click"
      <4>1. s.btn \cup cmd.keys \in SUBSET Buttons
        BY <1>1, <3>1 DEF MouseVerbs
      <4>2. t = << Ms(s.btn \cup cmd.keys), Ms(s.btn) >>
        BY <3>1 DEF Program, Click
      <4> QED BY <2>1, <4>1, <4>2 DEF OtherBegun
    <3>2. CASE cmd.verb \in {"move", "scroll", "moveabs"}
      <4>1. t = << Ms(s.btn), Ms(s.btn) >>
        BY <3>2 DEF Program
      <4> QED BY <1>1, <2>1, <4>1 DEF OtherBegun
    <3>3. CASE cmd.verb \in {"ping", "info"}
      <4>1. t = << Ask("query", {}) >>
        BY <3>3 DEF Program
      <4>2. t # << >> /\ Head(t).role # "reset" /\ AskLeft(t)
        BY <4>1 DEF AskLeft, Ask
      <4> QED BY <2>1, <4>2 DEF OtherBegun
    <3>4. CASE cmd.verb = "usb"
      <4>1. t = << Ask("mux", cmd.arg) >> /\ cmd.arg \in {"host", "target", "state"}
        BY <3>4 DEF Program
      <4>2. AskLeft(t)
        BY <4>1 DEF AskLeft
      <4>3. t # << >> /\ Head(t).role # "reset"
        BY <4>1 DEF Ask
      <4> QED BY <2>1, <4>2, <4>3 DEF OtherBegun
    <3>5. CASE cmd.verb = "baud"
      <4>1. t = SetBaud(cmd.arg) /\ cmd.arg \in Rates
        BY <3>5 DEF Program
      <4>2. AskLeft(t)
        BY <4>1 DEF AskLeft
      <4>3. t # << >> /\ Head(t).role # "reset"
        BY <4>1 DEF SetBaud, Ask
      <4> QED BY <2>1, <4>2, <4>3 DEF OtherBegun
    <3>6. CASE cmd.verb \notin {"click", "move", "scroll", "moveabs", "ping", "info", "usb", "baud"}
      <4>1. t = << >>
        BY <1>2, <1>8, <3>6 DEF Program
      <4> QED BY <2>1, <4>1 DEF OtherBegun
    <3> QED BY <3>1, <3>2, <3>3, <3>4, <3>5, <3>6
  <2> QED BY <1>2, <2>1, <2>2 DEF Begun
<1> QED BY <1>3, <1>4, <1>5, <1>6, <1>7, <1>8

LEMMA EndProgram ==
  ASSUME NEW s \in SessionSet, NEW cmd, cmd.verb = "release", NEW s2, s2 = HeldAfter(cmd, s)
  PROVE  /\ Begun(s, s2) /\ s2.held = {} /\ s2.btn = s.btn /\ TextAfter(cmd) = << >>
         /\ Program(cmd, s) = << Kb({}, "only"), Ms({}) >>
<1> DEFINE h == {}
<1>1. s2 = WithHeld(s, h) /\ h \in SUBSET ChKeys
  BY DEF HeldAfter, WithHeld
<1>2. Program(cmd, s) = << Kb({}, "only"), Ms({}) >> /\ TextAfter(cmd) = << >>
  BY DEF Program, TextAfter
<1> HIDE DEF h
<1>3. Begun(s, s2) /\ s2.held = h /\ s2.btn = s.btn
  BY <1>1, HeldFields DEF Begun
<1> QED BY <1>2, <1>3 DEF h

JobRec(r, t, x, e, b, w) ==
  [req |-> r, todo |-> t, text |-> x, err |-> e, again |-> b, faults |-> 0, was |-> w]

LEMMA JobRecFields ==
  ASSUME NEW r, NEW t, NEW x, NEW e, NEW b, NEW w, NEW j, j = JobRec(r, t, x, e, b, w)
  PROVE  j.req = r /\ j.todo = t /\ j.text = x /\ j.err = e /\ j.was = w /\ j.faults = 0
BY DEF JobRec

JobStarts(r, t, x, w) == [NoJob EXCEPT !.req = r, !.todo = t, !.text = x, !.was = w]
JobRefused(r, e, w) == [NoJob EXCEPT !.req = r, !.err = e, !.was = w]
JobFailed(r, e) == [NoJob EXCEPT !.req = r, !.err = e]

LEMMA JobStartsIs ==
  ASSUME NEW r, NEW t, NEW x, NEW w
  PROVE  \E b : JobStarts(r, t, x, w) = JobRec(r, t, x, "none", b, w)
<1> DEFINE b == FALSE
           o == << >>
           v == {}
           n0 == JobRec(0, o, o, "none", b, v)
           n1 == [n0 EXCEPT !.req = r]
           n2 == [n1 EXCEPT !.todo = t]
           n3 == [n2 EXCEPT !.text = x]
           n4 == [n3 EXCEPT !.was = w]
<1>1. NoJob = n0
  BY DEF NoJob, JobRec
<1>2. [n0 EXCEPT !.req = r, !.todo = t, !.text = x, !.was = w] = n4
  OBVIOUS
<1> HIDE DEF b, o, v
<1>3. n1 = JobRec(r, o, o, "none", b, v)
  BY DEF JobRec
<1> HIDE DEF n1
<1>4. n2 = JobRec(r, t, o, "none", b, v)
  BY <1>3 DEF JobRec
<1> HIDE DEF n2
<1>5. n3 = JobRec(r, t, x, "none", b, v)
  BY <1>4 DEF JobRec
<1> HIDE DEF n3
<1>6. n4 = JobRec(r, t, x, "none", b, w)
  BY <1>5 DEF JobRec
<1> HIDE DEF n4
<1> HIDE DEF n0
<1>7. JobStarts(r, t, x, w) = n4
  BY <1>1, <1>2 DEF JobStarts
<1>8. JobStarts(r, t, x, w) = JobRec(r, t, x, "none", b, w)
  BY <1>6, <1>7
<1> QED BY <1>8 DEF o, v

LEMMA JobRefusedIs ==
  ASSUME NEW r, NEW e, NEW w
  PROVE  \E b : JobRefused(r, e, w) = JobRec(r, << >>, << >>, e, b, w)
<1> DEFINE b == FALSE
           o == << >>
           v == {}
           n0 == JobRec(0, o, o, "none", b, v)
           n1 == [n0 EXCEPT !.req = r]
           n2 == [n1 EXCEPT !.err = e]
           n3 == [n2 EXCEPT !.was = w]
<1>1. NoJob = n0
  BY DEF NoJob, JobRec
<1>2. [n0 EXCEPT !.req = r, !.err = e, !.was = w] = n3
  OBVIOUS
<1> HIDE DEF b, o, v
<1>3. n1 = JobRec(r, o, o, "none", b, v)
  BY DEF JobRec
<1> HIDE DEF n1
<1>4. n2 = JobRec(r, o, o, e, b, v)
  BY <1>3 DEF JobRec
<1> HIDE DEF n2
<1>5. n3 = JobRec(r, o, o, e, b, w)
  BY <1>4 DEF JobRec
<1> HIDE DEF n3
<1> HIDE DEF n0
<1>6. JobRefused(r, e, w) = n3
  BY <1>1, <1>2 DEF JobRefused
<1>7. JobRefused(r, e, w) = JobRec(r, o, o, e, b, w)
  BY <1>5, <1>6
<1> QED BY <1>7 DEF o, v

LEMMA JobFailedIs ==
  ASSUME NEW r, NEW e
  PROVE  \E b : JobFailed(r, e) = JobRec(r, << >>, << >>, e, b, {})
<1> DEFINE b == FALSE
           o == << >>
           v == {}
           n0 == JobRec(0, o, o, "none", b, v)
           n1 == [n0 EXCEPT !.req = r]
           n2 == [n1 EXCEPT !.err = e]
<1>1. NoJob = n0
  BY DEF NoJob, JobRec
<1>2. [n0 EXCEPT !.req = r, !.err = e] = n2
  OBVIOUS
<1> HIDE DEF b, o, v
<1>3. n1 = JobRec(r, o, o, "none", b, v)
  BY DEF JobRec
<1> HIDE DEF n1
<1>4. n2 = JobRec(r, o, o, e, b, v)
  BY <1>3 DEF JobRec
<1> HIDE DEF n2
<1> HIDE DEF n0
<1>5. JobFailed(r, e) = n2
  BY <1>1, <1>2 DEF JobFailed
<1>6. JobFailed(r, e) = JobRec(r, o, o, e, b, v)
  BY <1>4, <1>5
<1> QED BY <1>6 DEF o, v

IdleFields == job.req = 0 /\ job.todo = << >> /\ job.text = << >> /\ job.err = "none" /\ job.was = {} /\ job.faults = 0

LEMMA IdleIs ==
  ASSUME Idle
  PROVE  IdleFields
<1> DEFINE b == FALSE
<1>1. NoJob = JobRec(0, << >>, << >>, "none", b, {})
  BY DEF NoJob, JobRec
<1> HIDE DEF b
<1>2. job = JobRec(0, << >>, << >>, "none", b, {})
  BY <1>1 DEF Idle
<1> QED BY <1>2 DEF IdleFields, JobRec

\* The four ways a command begins.
RefusedAt(r) ==
  /\ session.open /\ session' = session /\ chip' = chip /\ unsure' = unsure
  /\ \E b : job' = JobRec(r, << >>, << >>, "bad", b, chip.kb)
StartedAt(r, cmd) ==
  /\ session.open /\ session' = HeldAfter(cmd, session) /\ chip' = chip /\ unsure' = unsure
  /\ \E b : job' = JobRec(r, Program(cmd, session), TextAfter(cmd), "none", b, session.held \cup chip.kb)
OpenedFirst ==
  /\ ~session.open /\ job' = job /\ unsure' = {}
  /\ session' \in SessionSet /\ session'.open /\ session'.held = {} /\ session'.btn = {}
  /\ session'.baud = chip.rate
  /\ chip' \in ChipSet /\ chip'.kb = {} /\ chip'.ms = {} /\ chip'.rate = chip.rate /\ chip'.flash = chip.flash
NotOpened(r) ==
  /\ ~session.open /\ session' = session /\ unsure' = unsure
  /\ chip' \in ChipSet /\ chip'.rate = chip.rate /\ chip'.flash = chip.flash
  /\ \E b : job' = JobRec(r, << >>, << >>, "timeout", b, {})

LEMMA OpenedFields ==
  ASSUME NEW rate \in Rates
  PROVE  /\ [Closed EXCEPT !.open = TRUE, !.baud = rate] \in SessionSet
         /\ [Closed EXCEPT !.open = TRUE, !.baud = rate].open
         /\ [Closed EXCEPT !.open = TRUE, !.baud = rate].held = {}
         /\ [Closed EXCEPT !.open = TRUE, !.baud = rate].btn = {}
         /\ [Closed EXCEPT !.open = TRUE, !.baud = rate].baud = rate
<1> DEFINE yes == TRUE
           no == FALSE
           v == {}
           f == CHOOSE r \in Rates : TRUE
           c == [open |-> no, held |-> v, btn |-> v, baud |-> f]
           d == [c EXCEPT !.open = yes]
           e == [d EXCEPT !.baud = rate]
<1>1. Closed = c
  BY DEF Closed
<1>2. [c EXCEPT !.open = yes, !.baud = rate] = e
  OBVIOUS
<1> HIDE DEF yes, no, v, f
<1>3. d = [open |-> yes, held |-> v, btn |-> v, baud |-> f]
  OBVIOUS
<1> HIDE DEF d
<1>4. e = [open |-> yes, held |-> v, btn |-> v, baud |-> rate]
  BY <1>3
<1> HIDE DEF e
<1>5. e.open = yes /\ e.held = v /\ e.btn = v /\ e.baud = rate
  BY <1>4
<1>6. yes \in BOOLEAN /\ v \in SUBSET (Usages \cup Modifiers) /\ v \in SUBSET Buttons
  BY DEF yes, v
<1>7. e \in SessionSet
  BY <1>4, <1>6 DEF SessionSet
<1> HIDE DEF c
<1>8. [Closed EXCEPT !.open = TRUE, !.baud = rate] = e
  BY <1>1, <1>2 DEF yes
<1>9. e.open /\ e.held = {} /\ e.btn = {}
  BY <1>5 DEF yes, v
<1> QED BY <1>5, <1>7, <1>8, <1>9

LEMMA BeginIs ==
  ASSUME ChTypeOK, NEW r, NEW cmd, Begin(r, cmd)
  PROVE  (RefusedAt(r) /\ Refused(cmd, session)) \/ StartedAt(r, cmd) \/ OpenedFirst \/ NotOpened(r)
<1>1. chip \in ChipSet /\ session \in SessionSet /\ chip.rate \in Rates
  BY DEF ChTypeOK, ChipSet, SessionSet
<1>2. CASE session.open /\ Refused(cmd, session)
  <2>1. job' = JobRefused(r, "bad", chip.kb) /\ session' = session
    BY <1>2 DEF Begin, JobRefused
  <2>2. chip' = chip /\ unsure' = unsure
    BY <1>2 DEF Begin
  <2>3. \E b : JobRefused(r, "bad", chip.kb) = JobRec(r, << >>, << >>, "bad", b, chip.kb)
    BY JobRefusedIs
  <2>4. \E b : job' = JobRec(r, << >>, << >>, "bad", b, chip.kb)
    BY <2>1, <2>3
  <2> QED BY <1>2, <2>1, <2>2, <2>4 DEF RefusedAt
<1>3. CASE session.open /\ ~Refused(cmd, session)
  <2> DEFINE t == Program(cmd, session)
             x == TextAfter(cmd)
             w == session.held \cup chip.kb
  <2>1. job' = JobStarts(r, t, x, w) /\ session' = HeldAfter(cmd, session)
    BY <1>3 DEF Begin, JobStarts
  <2>2. chip' = chip /\ unsure' = unsure
    BY <1>3 DEF Begin
  <2> HIDE DEF t, x, w
  <2>3. \E b : JobStarts(r, t, x, w) = JobRec(r, t, x, "none", b, w)
    BY JobStartsIs
  <2>4. \E b : job' = JobRec(r, t, x, "none", b, w)
    BY <2>1, <2>3
  <2> QED BY <1>3, <2>1, <2>2, <2>4 DEF StartedAt, t, x, w
<1>4. CASE ~session.open
  <2>1. CASE OpenSession(TRUE) /\ UNCHANGED job
    <3>1. /\ session' = [Closed EXCEPT !.open = TRUE, !.baud = chip.rate]
          /\ chip' = [chip EXCEPT !.kb = {}, !.ms = {}] /\ unsure' = {}
      BY <2>1 DEF OpenSession
    <3>2. chip' = [up |-> chip.up, kb |-> {}, ms |-> {}, rate |-> chip.rate, flash |-> chip.flash, side |-> chip.side]
      BY <1>1, <3>1, ChipReset
    <3>3. chip' \in ChipSet /\ chip'.kb = {} /\ chip'.ms = {} /\ chip'.rate = chip.rate /\ chip'.flash = chip.flash
      BY <1>1, <3>2 DEF ChipSet
    <3> DEFINE z == chip.rate
    <3>4. z \in Rates
      BY <1>1
    <3>5. session' = [Closed EXCEPT !.open = TRUE, !.baud = z]
      BY <3>1
    <3> HIDE DEF z
    <3>6. session' \in SessionSet /\ session'.open /\ session'.held = {} /\ session'.btn = {} /\ session'.baud = z
      BY <3>4, <3>5, OpenedFields
    <3> QED BY <1>4, <2>1, <3>1, <3>3, <3>6 DEF OpenedFirst, z
  <2>2. CASE OpenSession(FALSE) /\ job' = [NoJob EXCEPT !.req = r, !.err = "timeout"]
    <3>1. /\ session' = session /\ unsure' = unsure
          /\ chip' \in {chip, [chip EXCEPT !.kb = {}], [chip EXCEPT !.kb = {}, !.ms = {}]}
      BY <2>2 DEF OpenSession
    <3>2. \/ chip' = chip
          \/ chip' = [up |-> chip.up, kb |-> {}, ms |-> {}, rate |-> chip.rate, flash |-> chip.flash, side |-> chip.side]
          \/ chip' = [up |-> chip.up, kb |-> {}, ms |-> chip.ms, rate |-> chip.rate, flash |-> chip.flash, side |-> chip.side]
      BY <1>1, <3>1, ChipReset
    <3>3. chip' \in ChipSet /\ chip'.rate = chip.rate /\ chip'.flash = chip.flash
      BY <1>1, <3>2 DEF ChipSet
    <3>4. \E b : JobFailed(r, "timeout") = JobRec(r, << >>, << >>, "timeout", b, {})
      BY JobFailedIs
    <3>5. job' = JobFailed(r, "timeout")
      BY <2>2 DEF JobFailed
    <3> QED BY <1>4, <2>2, <3>1, <3>3, <3>4, <3>5 DEF NotOpened
  <2> QED BY <1>4, <2>1, <2>2 DEF Begin
<1> QED BY <1>2, <1>3, <1>4

\* The rates after a command was begun.
LEMMA RateBegun ==
  ASSUME RateInv, Idle, slipped' = slipped, lastBaud' = lastBaud,
         chip'.rate = chip.rate, chip'.flash = chip.flash, ~Between',
         session'.open => session'.baud = chip.rate \/ (session.open /\ session'.baud = session.baud)
  PROVE  RateInv'
<1>1. ~Between
  BY IdleIs DEF IdleFields, Between
<1> QED BY <1>1 DEF RateInv, ProbeOrder

\* A client's command, once begun, leaves what JobInv says of it.
ServeGoal(r) ==
  /\ JobInv' /\ RateInv' /\ ~Releasing' /\ chip' \in ChipSet /\ session' \in SessionSet
  /\ unsure' \subseteq {"kb", "ms", "chip"} /\ (job' = NoJob \/ job'.req = r)

ServeFrame(r) ==
  /\ ChInv /\ Idle /\ DOMAIN reqs = 1..Len(reqs) /\ Len(reqs) \in Nat /\ Len(reqs) <= MaxReqs
  /\ DOMAIN reqs' = DOMAIN reqs /\ r \in 1..Len(reqs)
  /\ reqs'[r].cmd = reqs[r].cmd /\ reqs[r].cmd \in Commands /\ reqs'[r].state = "running"
  /\ lastBaud' = lastBaud /\ slipped' = slipped

LEMMA FrameFacts ==
  ASSUME NEW r, ServeFrame(r)
  PROVE  /\ chip \in ChipSet /\ session \in SessionSet /\ unsure \subseteq {"kb", "ms", "chip"} /\ KbSure /\ MsSure
         /\ RateInv /\ chip.kb \in SUBSET ChKeys /\ session.held \in SUBSET ChKeys
         /\ r # 0 /\ r # MaxReqs + 1 /\ r \in Nat
BY DEF ServeFrame, ChInv, ChTypeOK, ChipSet, SessionSet, JobInv, ChKeys

\* What is left of JobInv when a request is begun.
LEMMA ServingNow ==
  ASSUME NEW r, ServeFrame(r), job'.req = r
  PROVE  /\ Serving' /\ ~Releasing' /\ ~Idle' /\ Verb' = reqs[r].cmd.verb
         /\ (Holds' <=> reqs[r].cmd.verb \in HoldVerbs) /\ (reqs[job.req].state)' = "running"
<1>1. ~Idle'
  BY FrameFacts DEF Idle, NoJob
<1> QED BY <1>1, FrameFacts DEF ServeFrame, Serving, Releasing, Verb, Holds

LEMMA ServedRefused ==
  ASSUME NEW r, ServeFrame(r), RefusedAt(r), Refused(reqs[r].cmd, session)
  PROVE  ServeGoal(r)
<1>1. /\ job'.req = r /\ job'.todo = << >> /\ job'.text = << >> /\ job'.err = "bad" /\ job'.was = chip.kb
      /\ job'.faults = 0
  BY JobRecFields DEF RefusedAt
<1>2. session' = session /\ chip' = chip /\ unsure' = unsure /\ session.open
  BY DEF RefusedAt
<1>3. /\ Serving' /\ ~Releasing' /\ ~Idle' /\ Holds' /\ (reqs[job.req].state)' = "running"
  BY <1>1, ServingNow DEF Refused, HoldVerbs
<1>4. KbSure' /\ MsSure'
  BY <1>2, FrameFacts DEF KbSure, MsSure
<1>5. HoldInv(job.todo)'
  BY <1>1, <1>2, <1>4 DEF HoldInv
<1>6. JobShape'
  <2>1. job'.text \in Seq(Chars)
    BY <1>1
  <2> QED BY <1>1, <2>1, FrameFacts DEF JobShape
<1>7. JobInv'
  BY <1>1, <1>2, <1>3, <1>4, <1>5, <1>6 DEF JobInv
<1>8. ~Between'
  BY <1>1 DEF Between
<1>9. RateInv'
  BY <1>2, <1>8, FrameFacts, RateBegun DEF ServeFrame
<1> QED BY <1>1, <1>2, <1>3, <1>7, <1>9, FrameFacts DEF ServeGoal

LEMMA ServedClosed ==
  ASSUME NEW r, ServeFrame(r), NotOpened(r)
  PROVE  ServeGoal(r)
<1>1. /\ job'.req = r /\ job'.todo = << >> /\ job'.text = << >> /\ job'.err = "timeout" /\ job'.was = {}
      /\ job'.faults = 0
  BY JobRecFields DEF NotOpened
<1>2. session' = session /\ unsure' = unsure /\ ~session.open /\ chip' \in ChipSet
  BY DEF NotOpened
<1>3. /\ Serving' /\ ~Releasing' /\ ~Idle' /\ (reqs[job.req].state)' = "running"
  BY <1>1, ServingNow
<1>4. KbSure' /\ MsSure'
  BY <1>2 DEF KbSure, MsSure
<1>5. OtherInv(job.todo)'
  BY <1>1, <1>4 DEF OtherInv
<1>6. JobShape'
  <2>1. job'.text \in Seq(Chars)
    BY <1>1
  <2> QED BY <1>1, <2>1 DEF JobShape
<1>7. JobInv'
  BY <1>1, <1>2, <1>3, <1>4, <1>5, <1>6 DEF JobInv
<1>8. ~Between'
  BY <1>1 DEF Between
<1>9. RateInv'
  BY <1>2, <1>8, FrameFacts, RateBegun DEF ServeFrame, NotOpened
<1> QED BY <1>1, <1>2, <1>3, <1>7, <1>9, FrameFacts DEF ServeGoal

\* Opening leaves the owner idle; no request is at hand.
LEMMA OpenedIdle ==
  ASSUME ChInv, Idle, OpenedFirst, slipped' = slipped, lastBaud' = lastBaud,
         Len(reqs) \in Nat, DOMAIN reqs' = 1..Len(reqs)
  PROVE  /\ JobInv' /\ RateInv' /\ ~Releasing' /\ Idle'
<1>1. job' = job /\ Idle' /\ job'.req = 0 /\ job'.todo = << >>
  BY IdleIs DEF OpenedFirst, Idle, IdleFields
<1>2. ~Serving' /\ ~Releasing' /\ ~Holds'
  BY <1>1 DEF Serving, Releasing, Holds
<1>3. KbSure' /\ MsSure'
  BY DEF OpenedFirst, KbSure, MsSure
<1>4. JobShape'
  BY <1>1 DEF ChInv, JobInv, JobShape
<1>5. JobInv'
  BY <1>1, <1>2, <1>3, <1>4 DEF JobInv
<1>6. ~Between'
  BY <1>1 DEF Between
<1>7. RateInv'
  BY <1>6, RateBegun DEF OpenedFirst, ChInv
<1> QED BY <1>1, <1>2, <1>5, <1>7

LEMMA ServedHold ==
  ASSUME NEW r, ServeFrame(r), StartedAt(r, reqs[r].cmd), reqs[r].cmd.verb \in HoldVerbs
  PROVE  ServeGoal(r)
<1> DEFINE cmd == reqs[r].cmd
           t == Program(cmd, session)
<1>1. /\ job'.req = r /\ job'.todo = t /\ job'.text = TextAfter(cmd) /\ job'.err = "none"
      /\ job'.was = session.held \cup chip.kb /\ job'.faults = 0
  BY JobRecFields DEF StartedAt
<1>2. session' = HeldAfter(cmd, session) /\ chip' = chip /\ unsure' = unsure /\ session.open
  BY DEF StartedAt
<1>3. cmd \in Commands /\ cmd.verb \in HoldVerbs
  BY DEF ServeFrame
<1>4. /\ Serving' /\ ~Releasing' /\ ~Idle' /\ Holds' /\ Verb' = cmd.verb /\ (reqs[job.req].state)' = "running"
  BY <1>1, <1>3, ServingNow
<1> HIDE DEF t, cmd
<1>5. /\ Begun(session, session') /\ session'.btn = session.btn /\ session'.held \subseteq session.held
      /\ TextAfter(cmd) \in Seq(Chars) /\ (cmd.verb # "type" => TextAfter(cmd) = << >>)
  BY <1>2, <1>3, FrameFacts, HoldProgram
<1>6. HoldBegun(t, cmd, session, session')
  BY <1>2, <1>3, FrameFacts, HoldProgram DEF t
<1>7. session'.held \subseteq job'.was /\ chip'.kb \subseteq job'.was
  BY <1>1, <1>2, <1>5
<1>8. MsSure'
  BY <1>2, <1>5, FrameFacts DEF MsSure, Begun
<1>9. HoldInv(job.todo)' /\ ~Between'
  <2>1. CASE t = << >> /\ session' = session
    <3>1. KbSure'
      BY <1>2, <2>1, FrameFacts DEF KbSure
    <3> QED BY <1>1, <1>7, <2>1, <3>1 DEF HoldInv, Between
  <2>2. ASSUME NEW P \in SUBSET ChKeys, t = << Kb(P, "press"), Kb(session'.held, "release") >>,
               cmd.verb = "type" => P # session.held
        PROVE  HoldInv(job.todo)' /\ ~Between'
    <3>1. Verb' = "type" /\ "kb" \notin unsure' => P # chip'.kb
      BY <1>2, <1>4, <2>2, FrameFacts DEF KbSure
    <3>2. Pressing(job.todo)'
      BY <1>1, <2>2, <3>1 DEF Pressing, PressLeft
    <3>3. ~Between'
      BY <1>1, <2>2 DEF Between, Kb
    <3> QED BY <1>1, <1>7, <3>2, <3>3 DEF HoldInv
  <2>3. ASSUME NEW P \in SUBSET ChKeys, NEW k \in P,
               t = << Kb(session'.held \ {k}, "only"), Kb(P, "press"), Kb(session'.held, "release") >>
        PROVE  HoldInv(job.todo)' /\ ~Between'
    <3>1. Pressing(job.todo)'
      BY <1>1, <2>3 DEF Pressing, EdgeLeft
    <3>2. ~Between'
      BY <1>1, <2>3 DEF Between, Kb
    <3> QED BY <1>1, <1>7, <3>1, <3>2 DEF HoldInv
  <2> QED BY <1>6, <2>1, <2>2, <2>3 DEF HoldBegun
<1>10. JobShape'
  BY <1>1, <1>5, FrameFacts DEF JobShape
<1>11. session'.open /\ session'.baud = session.baud /\ session' \in SessionSet
  BY <1>2, <1>5 DEF Begun
<1>12. JobInv'
  BY <1>1, <1>4, <1>5, <1>8, <1>9, <1>10, <1>11 DEF JobInv
<1>13. RateInv'
  BY <1>2, <1>9, <1>11, FrameFacts, RateBegun DEF ServeFrame
<1> QED BY <1>1, <1>2, <1>4, <1>11, <1>12, <1>13, FrameFacts DEF ServeGoal

LEMMA ServedOther ==
  ASSUME NEW r, ServeFrame(r), StartedAt(r, reqs[r].cmd), reqs[r].cmd.verb \notin HoldVerbs
  PROVE  ServeGoal(r)
<1> DEFINE cmd == reqs[r].cmd
           t == Program(cmd, session)
<1>1. /\ job'.req = r /\ job'.todo = t /\ job'.text = TextAfter(cmd) /\ job'.err = "none"
      /\ job'.was = session.held \cup chip.kb /\ job'.faults = 0
  BY JobRecFields DEF StartedAt
<1>2. session' = HeldAfter(cmd, session) /\ chip' = chip /\ unsure' = unsure /\ session.open
  BY DEF StartedAt
<1>3. cmd \in Commands /\ cmd.verb \notin HoldVerbs
  BY DEF ServeFrame
<1>4. /\ Serving' /\ ~Releasing' /\ ~Idle' /\ ~Holds' /\ (reqs[job.req].state)' = "running"
  BY <1>1, <1>3, ServingNow
<1> HIDE DEF t, cmd
<1>5. Begun(session, session') /\ TextAfter(cmd) = << >> /\ OtherBegun(t, session, session')
  BY <1>2, <1>3, FrameFacts, OtherProgram DEF t
<1>6. session'.open /\ session'.baud = session.baud /\ session' \in SessionSet
  BY <1>2, <1>5 DEF Begun
<1>7. OtherInv(job.todo)' /\ ~Between'
  <2>1. CASE t = << Kb(session'.held, "only") >> /\ session'.btn = session.btn
    <3>1. MsSure'
      BY <1>2, <2>1, FrameFacts DEF MsSure
    <3>2. ~Between'
      BY <1>1, <2>1 DEF Between, Kb
    <3> QED BY <1>1, <2>1, <3>1, <3>2 DEF OtherInv
  <2>2. CASE (\E M \in SUBSET Buttons : t = << Ms(M), Ms(session'.btn) >>) /\ session'.held = session.held
    <3>1. KbSure'
      BY <1>2, <2>2, FrameFacts DEF KbSure
    <3>2. ~Between'
      BY <1>1, <2>2 DEF Between, Ms
    <3> QED BY <1>1, <2>2, <3>1, <3>2 DEF OtherInv
  <2>3. CASE t = << Ms(session'.btn) >> /\ session'.held = session.held
    <3>1. KbSure'
      BY <1>2, <2>3, FrameFacts DEF KbSure
    <3>2. ~Between'
      BY <1>1, <2>3 DEF Between, Ms
    <3> QED BY <1>1, <2>3, <3>1, <3>2 DEF OtherInv
  <2>4. CASE AskLeft(t) /\ t # << >> /\ Head(t).role # "reset" /\ session' = session
    <3>1. KbSure' /\ MsSure'
      BY <1>2, <2>4, FrameFacts DEF KbSure, MsSure
    <3>2. AskLeft(job.todo)'
      BY <1>1, <2>4 DEF AskLeft
    <3>3. ~Between'
      BY <1>1, <2>4 DEF Between
    <3> QED BY <3>1, <3>2, <3>3 DEF OtherInv
  <2>5. CASE t = << >> /\ session' = session
    <3>1. KbSure' /\ MsSure'
      BY <1>2, <2>5, FrameFacts DEF KbSure, MsSure
    <3>2. ~Between'
      BY <1>1, <2>5 DEF Between
    <3> QED BY <1>1, <2>5, <3>1, <3>2 DEF OtherInv
  <2> QED BY <1>5, <2>1, <2>2, <2>3, <2>4, <2>5 DEF OtherBegun
<1>8. JobShape'
  <2>1. job'.text \in Seq(Chars)
    BY <1>1, <1>5
  <2> QED BY <1>1, <2>1, FrameFacts DEF JobShape
<1>9. JobInv'
  BY <1>1, <1>4, <1>5, <1>6, <1>7, <1>8 DEF JobInv
<1>10. RateInv'
  BY <1>2, <1>6, <1>7, FrameFacts, RateBegun DEF ServeFrame
<1> QED BY <1>1, <1>2, <1>4, <1>6, <1>9, <1>10, FrameFacts DEF ServeGoal

LEMMA ServeBegun ==
  ASSUME NEW r, ServeFrame(r), Begin(r, reqs[r].cmd)
  PROVE  ServeGoal(r)
<1>1. CASE RefusedAt(r) /\ Refused(reqs[r].cmd, session)
  BY <1>1, ServedRefused
<1>2. CASE StartedAt(r, reqs[r].cmd)
  BY <1>2, ServedHold, ServedOther
<1>3. CASE OpenedFirst
  <2>1. JobInv' /\ RateInv' /\ ~Releasing' /\ Idle'
    BY <1>3, OpenedIdle DEF ServeFrame
  <2>2. unsure' \subseteq {"kb", "ms", "chip"}
    BY <1>3 DEF OpenedFirst
  <2>3. job' = NoJob
    BY <2>1 DEF Idle
  <2> QED BY <1>3, <2>1, <2>2, <2>3 DEF ServeGoal, OpenedFirst
<1>4. CASE NotOpened(r)
  BY <1>4, ServedClosed
<1>5. ChTypeOK
  BY DEF ServeFrame, ChInv
<1> QED BY <1>1, <1>2, <1>3, <1>4, <1>5, BeginIs
-----------------------------------------------------------------------------
(***************************************************************************)
(* The steps that leave the job at hand alone.                             *)
(***************************************************************************)

\* A report stays, with the doubt about it, or is lost and doubted.
ReportsKept ==
  /\ session' = session
  /\ \/ chip'.kb = chip.kb /\ ("kb" \in unsure' <=> "kb" \in unsure)
     \/ chip'.kb = {} /\ "kb" \in unsure'
  /\ \/ chip'.ms = chip.ms /\ ("ms" \in unsure' <=> "ms" \in unsure)
     \/ chip'.ms = {} /\ "ms" \in unsure'

LEMMA SureKept ==
  ASSUME ReportsKept
  PROVE  (KbSure => KbSure') /\ (MsSure => MsSure')
BY DEF ReportsKept, KbSure, MsSure

LEMMA JobKept ==
  ASSUME JobInv, job' = job, ReportsKept, Serving' <=> Serving,
         Serving => /\ reqs'[job.req].cmd = reqs[job.req].cmd
                    /\ reqs'[job.req].state = reqs[job.req].state
  PROVE  JobInv'
<1>1. (KbSure => KbSure') /\ (MsSure => MsSure') /\ session' = session
  BY SureKept DEF ReportsKept
<1>2. JobShape' /\ (Idle' <=> Idle) /\ (Releasing' <=> Releasing)
  BY DEF JobInv, JobShape, Idle, Releasing
<1>3. (Holds' <=> Holds) /\ (Serving => Verb' = Verb)
  BY DEF Holds, Verb
<1>4. ASSUME Serving, HoldInv(job.todo) PROVE HoldInv(job.todo)'
  <2>1. Pressing(job.todo) => Pressing(job.todo)'
    <3>1. ASSUME NEW P \in SUBSET ChKeys, PressLeft(job.todo, P),
                 Verb = "type" /\ "kb" \notin unsure => P # chip.kb
          PROVE  Pressing(job.todo)'
      <4>1. Verb' = "type" /\ "kb" \notin unsure' => P # chip'.kb
        BY <1>3, <1>4, <3>1 DEF ReportsKept
      <4>2. job'.todo = << Kb(P, "press"), Kb(session'.held, "release") >>
        BY <1>1, <3>1 DEF PressLeft
      <4> QED BY <4>1, <4>2 DEF Pressing, PressLeft
    <3>2. ASSUME NEW P \in SUBSET ChKeys, NEW k \in P, EdgeLeft(job.todo, P, k)
          PROVE  Pressing(job.todo)'
      <4>1. job'.todo = << Kb(session'.held \ {k}, "only"), Kb(P, "press"), Kb(session'.held, "release") >>
        BY <1>1, <3>2 DEF EdgeLeft
      <4> QED BY <4>1 DEF Pressing, EdgeLeft
    <3> QED BY <3>1, <3>2 DEF Pressing
  <2>2. chip.kb \subseteq job.was => chip'.kb \subseteq job'.was
    BY DEF ReportsKept
  <2> QED BY <1>1, <1>4, <2>1, <2>2 DEF HoldInv
<1>5. OtherInv(job.todo) => OtherInv(job.todo)'
  <2>1. AskLeft(job.todo) => AskLeft(job.todo)'
    BY DEF AskLeft
  <2> QED BY <1>1, <2>1 DEF OtherInv
<1>6. EndInv(job.todo) => EndInv(job.todo)'
  <2>1. chip.kb = {} => chip'.kb = {}
    BY DEF ReportsKept
  <2>2. chip.ms = {} => chip'.ms = {}
    BY DEF ReportsKept
  <2> QED BY <1>1, <2>1, <2>2 DEF EndInv
<1>7. Idle' => KbSure' /\ MsSure'
  BY <1>1, <1>2 DEF JobInv
<1>8. ~Idle' => (Serving' /\ (reqs[job.req].state)' = "running") \/ Releasing'
  BY <1>2 DEF JobInv
<1>9. Holds' => (session'.open => HoldInv(job.todo)') /\ MsSure' /\ (Verb' # "type" => job'.text = << >>)
  BY <1>1, <1>3, <1>4 DEF JobInv, Holds
<1>10. Serving' /\ ~Holds' => OtherInv(job.todo)' /\ job'.text = << >>
  BY <1>3, <1>5 DEF JobInv
<1>11. Releasing' => EndInv(job.todo)' /\ job'.text = << >> /\ (session'.open => session'.held = {})
  BY <1>1, <1>2, <1>6 DEF JobInv
<1>12. ~session'.open => job'.todo = << >>
  BY <1>1 DEF JobInv
<1> QED BY <1>2, <1>7, <1>8, <1>9, <1>10, <1>11, <1>12 DEF JobInv

\* The rates, when neither they nor the job change.
LEMMA RateStays ==
  ASSUME RateInv, job' = job, session' = session, slipped' = slipped, lastBaud' = lastBaud,
         chip'.flash = chip.flash, chip'.rate = chip.rate \/ chip'.rate = chip.flash
  PROVE  RateInv'
<1>1. (Between' <=> Between) /\ (Idle' <=> Idle) /\ (Releasing' <=> Releasing)
  BY DEF Between, Idle, Releasing
<1> QED BY <1>1 DEF RateInv, ProbeOrder

LEMMA BenchStep ==
  ASSUME ChInv, Bench
  PROVE  ChInv'
<1>1. /\ session' = session /\ lastBaud' = lastBaud /\ queue' = queue /\ reqs' = reqs /\ job' = job
      /\ slipped' = slipped /\ released' = released /\ events < MaxEvents /\ events' = events + 1
  BY DEF Bench
<1>2. chip \in ChipSet /\ unsure \subseteq {"kb", "ms", "chip"} /\ events \in 0..MaxEvents
  BY DEF ChInv, ChTypeOK, ChipSet
<1>3. /\ chip' \in ChipSet /\ unsure' \subseteq {"kb", "ms", "chip"} /\ chip'.flash = chip.flash
      /\ chip'.rate = chip.rate \/ chip'.rate = chip.flash
      /\ ReportsKept
      /\ chip'.kb = chip.kb \/ chip'.kb = {}
      /\ chip'.ms = chip.ms \/ chip'.ms = {}
  <2>1. CASE chip' = [chip EXCEPT !.up = ~@] /\ unsure' = unsure
    <3> DEFINE up == ~chip.up
    <3>1. up \in BOOLEAN
      OBVIOUS
    <3>2. chip' = [chip EXCEPT !.up = up]
      BY <2>1
    <3> HIDE DEF up
    <3>3. /\ chip' \in ChipSet /\ chip'.kb = chip.kb /\ chip'.ms = chip.ms /\ chip'.rate = chip.rate
          /\ chip'.flash = chip.flash
      BY <1>2, <3>1, <3>2 DEF ChipSet
    <3> QED BY <1>1, <1>2, <2>1, <3>3 DEF ReportsKept
  <2>2. CASE /\ chip' = [chip EXCEPT !.rate = chip.flash, !.kb = {}, !.ms = {}]
             /\ unsure' = {"kb", "ms"}
    <3>1. chip' = [up |-> chip.up, kb |-> {}, ms |-> {}, rate |-> chip.flash, flash |-> chip.flash, side |-> chip.side]
      BY <1>2, <2>2, ChipReset
    <3>2. /\ chip' \in ChipSet /\ chip'.kb = {} /\ chip'.ms = {} /\ chip'.rate = chip.flash
          /\ chip'.flash = chip.flash
      BY <1>2, <3>1 DEF ChipSet
    <3> QED BY <1>1, <2>2, <3>2 DEF ReportsKept
  <2> QED BY <2>1, <2>2 DEF Bench
<1>4. ChTypeOK'
  BY <1>1, <1>2, <1>3 DEF ChInv, ChTypeOK, ChipSet
<1>5. ChQueueInv' /\ AbandonedIsSkipped'
  BY <1>1 DEF ChInv, ChQueueInv, AbandonedIsSkipped
<1>6. ReleaseInv' /\ ReleaseClears'
  BY <1>1, <1>3 DEF ChInv, ReleaseInv, ReleaseClears, Releasing, Idle
<1>7. JobInv'
  BY <1>1, <1>3, JobKept DEF ChInv, Serving
<1>8. RateInv'
  BY <1>1, <1>3, RateStays DEF ChInv
<1> QED BY <1>4, <1>5, <1>6, <1>7, <1>8 DEF ChInv

\* A request behind everything that is queued.
Fits(x, n) == x > n \/ (x = 0 /\ \A i \in DOMAIN queue : queue[i] # 0)
Grown(q2, x, m) ==
  /\ q2 \in Seq(Nat) /\ QueueOK(q2, m)
  /\ \A i, j \in DOMAIN q2 : i < j /\ q2[j] # 0 => q2[i] < q2[j]
  /\ \A i, j \in DOMAIN q2 : q2[i] = 0 /\ q2[j] = 0 => i = j
  /\ \A y : (\E i \in DOMAIN queue : queue[i] = y) => \E i \in DOMAIN q2 : q2[i] = y
  /\ \E i \in DOMAIN q2 : q2[i] = x
  /\ x # 0 /\ (\E i \in DOMAIN q2 : q2[i] = 0) => \E i \in DOMAIN queue : queue[i] = 0

LEMMA QueueGrows ==
  ASSUME ChQueueInv, NEW n \in Nat, QueueOK(queue, n), NEW x \in Nat, NEW m \in Nat, n <= m, x <= m,
         Fits(x, n), NEW q2, q2 = Append(queue, x)
  PROVE  Grown(q2, x, m)
<1> DEFINE l == Len(queue)
<1>1. queue \in Seq(Nat) /\ l \in Nat /\ DOMAIN queue = 1..l
  BY LenProperties DEF ChQueueInv
<1>2. q2 \in Seq(Nat) /\ Len(q2) = l + 1 /\ (\A i \in 1..l : q2[i] = queue[i]) /\ q2[l + 1] = x
  BY <1>1, AppendProperties
<1>3. DOMAIN q2 = 1..(l + 1)
  BY <1>2, LenProperties
<1>0. x > n \/ (x = 0 /\ \A i \in 1..l : queue[i] # 0)
  BY <1>1 DEF Fits
<1>4. /\ \A i \in 1..l : queue[i] \in 0..n
      /\ \A i, j \in 1..l : i < j /\ queue[j] # 0 => queue[i] < queue[j]
      /\ \A i, j \in 1..l : queue[i] = 0 /\ queue[j] = 0 => i = j
  BY <1>1 DEF ChQueueInv, QueueOK
<1> HIDE DEF l
<1>5. \A i \in DOMAIN q2 : (i \in 1..l /\ q2[i] = queue[i]) \/ (i = l + 1 /\ q2[i] = x)
  BY <1>1, <1>2, <1>3
<1>6. QueueOK(q2, m)
  BY <1>0, <1>4, <1>5 DEF QueueOK
<1>7. ASSUME NEW i \in DOMAIN q2, NEW j \in DOMAIN q2, i < j, q2[j] # 0 PROVE q2[i] < q2[j]
  <2>1. i \in 1..l /\ q2[i] = queue[i]
    BY <1>1, <1>3, <1>5, <1>7
  <2>2. CASE j \in 1..l /\ q2[j] = queue[j]
    BY <1>4, <1>7, <2>1, <2>2
  <2>3. CASE j = l + 1 /\ q2[j] = x
    BY <1>0, <1>4, <1>7, <2>1, <2>3
  <2> QED BY <1>5, <2>2, <2>3
<1>8. ASSUME NEW i \in DOMAIN q2, NEW j \in DOMAIN q2, q2[i] = 0, q2[j] = 0 PROVE i = j
  BY <1>0, <1>1, <1>4, <1>5, <1>8
<1>9. ASSUME NEW y, NEW i \in DOMAIN queue, queue[i] = y PROVE \E k \in DOMAIN q2 : q2[k] = y
  BY <1>1, <1>2, <1>3, <1>9
<1>10. l + 1 \in DOMAIN q2 /\ q2[l + 1] = x
  BY <1>1, <1>2, <1>3
<1>11. x # 0 /\ (\E i \in DOMAIN q2 : q2[i] = 0) => \E i \in DOMAIN queue : queue[i] = 0
  BY <1>1, <1>5
<1> QED BY <1>2, <1>6, <1>7, <1>8, <1>9, <1>10, <1>11 DEF Grown

LEMMA ReqsAre ==
  ASSUME ChInv
  PROVE  /\ reqs \in Seq(ChReq) /\ Len(reqs) \in Nat /\ DOMAIN reqs = 1..Len(reqs) /\ Len(reqs) <= MaxReqs
         /\ QueueOK(queue, Len(reqs)) /\ queue \in Seq(Nat)
BY LenProperties DEF ChInv, ChQueueInv, ChTypeOK, QueueOK

LEMMA NothingReported ==
  ASSUME session' = session, chip' = chip, unsure' = unsure
  PROVE  ReportsKept
BY DEF ReportsKept

LEMMA ReleaseForShutdownStep ==
  ASSUME ChInv, ReleaseForShutdown
  PROVE  ChInv'
<1>1. /\ chip' = chip /\ session' = session /\ lastBaud' = lastBaud /\ reqs' = reqs /\ job' = job /\ unsure' = unsure
      /\ slipped' = slipped /\ events' = events /\ released = "no" /\ released' = "asked" /\ queue' = Append(queue, 0)
  BY DEF ReleaseForShutdown
<1>2. ~Releasing /\ \A i \in DOMAIN queue : queue[i] # 0
  BY <1>1 DEF ChInv, ReleaseInv
<1>3. Grown(queue', 0, Len(reqs))
  <2> DEFINE x == 0
             n == Len(reqs)
  <2>1. x \in Nat /\ n \in Nat /\ n <= n /\ x <= n /\ ChQueueInv /\ QueueOK(queue, n) /\ queue' = Append(queue, x)
    BY <1>1, ReqsAre DEF ChInv
  <2>2. Fits(x, n)
    BY <1>2 DEF Fits
  <2> HIDE DEF x, n
  <2>3. Grown(queue', x, n)
    BY <2>1, <2>2, QueueGrows
  <2> QED BY <2>3 DEF x, n
<1>4. ChTypeOK'
  BY <1>1, <1>3 DEF ChInv, ChTypeOK, QueueOK, Grown
<1>5. ChQueueInv'
  BY <1>1, <1>3 DEF ChInv, ChQueueInv, Grown
<1>6. AbandonedIsSkipped'
  BY <1>1 DEF ChInv, AbandonedIsSkipped
<1>7. ReleaseInv' /\ ReleaseClears'
  BY <1>1, <1>2 DEF ReleaseInv, ReleaseClears, Releasing
<1>8. JobInv'
  BY <1>1, NothingReported, JobKept DEF ChInv, Serving
<1>9. RateInv'
  BY <1>1, RateStays DEF ChInv
<1> QED BY <1>4, <1>5, <1>6, <1>7, <1>8, <1>9 DEF ChInv

\* The request at hand is not the next one to come.
LEMMA NotTheNext ==
  ASSUME ChInv, Len(reqs) < MaxReqs
  PROVE  job.req # Len(reqs) + 1
<1>1. CASE Idle
  BY <1>1, IdleIs, ReqsAre DEF IdleFields
<1>2. CASE Serving
  BY <1>2, ReqsAre DEF Serving
<1>3. CASE Releasing
  BY <1>3, ReqsAre DEF Releasing
<1> QED BY <1>1, <1>2, <1>3 DEF ChInv, JobInv

LEMMA SendStep ==
  ASSUME ChInv, NEW cmd \in Commands, Send(cmd)
  PROVE  ChInv'
<1> DEFINE one == [cmd |-> cmd, state |-> "queued", client |-> "waits"]
           n == Len(reqs)
<1>1. /\ chip' = chip /\ session' = session /\ lastBaud' = lastBaud /\ job' = job /\ unsure' = unsure
      /\ slipped' = slipped /\ events' = events /\ released' = released
      /\ reqs' = Append(reqs, one) /\ queue' = Append(queue, n + 1) /\ n < MaxReqs
  BY DEF Send
<1>2. one \in ChReq /\ one.state = "queued" /\ one.client = "waits"
  BY DEF ChReq
<1>3. /\ reqs \in Seq(ChReq) /\ n \in Nat /\ DOMAIN reqs = 1..n /\ QueueOK(queue, n) /\ ChQueueInv /\ AbandonedIsSkipped
  BY ReqsAre DEF ChInv
<1> HIDE DEF one
<1>4. /\ reqs' \in Seq(ChReq) /\ Len(reqs') = n + 1 /\ (\A p \in 1..n : reqs'[p] = reqs[p]) /\ reqs'[n + 1] = one
  BY <1>1, <1>2, <1>3, AppendProperties
<1>5. DOMAIN reqs' = 1..(n + 1)
  BY <1>4, LenProperties
<1>0. job.req # n + 1
  BY <1>1, NotTheNext
<1> HIDE DEF n
<1>6. /\ queue' \in Seq(Nat) /\ QueueOK(queue', n + 1)
      /\ \A i, j \in DOMAIN queue' : i < j /\ queue'[j] # 0 => queue'[i] < queue'[j]
      /\ \A i, j \in DOMAIN queue' : queue'[i] = 0 /\ queue'[j] = 0 => i = j
      /\ \A y : (\E i \in DOMAIN queue : queue[i] = y) => \E i \in DOMAIN queue' : queue'[i] = y
      /\ \E i \in DOMAIN queue' : queue'[i] = n + 1
      /\ (\E i \in DOMAIN queue' : queue'[i] = 0) => \E i \in DOMAIN queue : queue[i] = 0
  <2> DEFINE x == n + 1
  <2>1. x \in Nat /\ n <= x /\ x <= x /\ x > n /\ x # 0 /\ queue' = Append(queue, x)
    BY <1>1, <1>3
  <2> HIDE DEF x
  <2>2. Fits(x, n)
    BY <2>1 DEF Fits
  <2>3. Grown(queue', x, x)
    BY <1>3, <2>1, <2>2, QueueGrows
  <2>4. QueueOK(queue', x) /\ \E i \in DOMAIN queue' : queue'[i] = x
    BY <2>3 DEF Grown
  <2>5. QueueOK(queue', n + 1) /\ \E i \in DOMAIN queue' : queue'[i] = n + 1
    BY <2>4 DEF x
  <2> QED BY <2>1, <2>3, <2>5 DEF Grown
<1>7. ChTypeOK'
  <2>1. Len(reqs') = n + 1 /\ QueueOK(queue', Len(reqs'))
    BY <1>4, <1>6
  <2> QED BY <1>1, <2>1 DEF ChInv, ChTypeOK, QueueOK
<1>8. ChQueueInv'
  <2>1. \A p \in 1..n : reqs[p].state = "queued" => \E i \in DOMAIN queue : queue[i] = p
    BY <1>3 DEF ChQueueInv
  <2>2. ASSUME NEW p \in 1..(n + 1), reqs'[p].state = "queued" PROVE \E i \in DOMAIN queue' : queue'[i] = p
    <3>1. CASE p \in 1..n
      BY <1>4, <1>6, <2>1, <2>2, <3>1
    <3>2. CASE p = n + 1
      BY <1>6, <3>2
    <3> QED BY <1>3, <2>2, <3>1, <3>2
  <2>3. n + 1 <= MaxReqs
    BY <1>1, <1>3
  <2> QED BY <1>4, <1>5, <1>6, <2>2, <2>3 DEF ChQueueInv
<1>9. AbandonedIsSkipped'
  <2>1. \A p \in 1..n : reqs[p].client = "left" => reqs[p].state \in {"queued", "skipped"}
    BY <1>3 DEF AbandonedIsSkipped
  <2>2. \A p \in 1..n : \A q \in 1..(p - 1) : reqs[p].state # "queued" => reqs[q].state # "queued"
    BY <1>3 DEF AbandonedIsSkipped
  <2>3. ASSUME NEW p \in 1..(n + 1)
        PROVE  /\ reqs'[p].client = "left" => reqs'[p].state \in {"queued", "skipped"}
               /\ \A q \in 1..(p - 1) : reqs'[p].state # "queued" => reqs'[q].state # "queued"
    <3>1. CASE p \in 1..n
      <4>1. \A q \in 1..(p - 1) : q \in 1..n
        BY <1>3, <3>1
      <4> QED BY <1>4, <2>1, <2>2, <3>1, <4>1
    <3>2. CASE p = n + 1
      BY <1>2, <1>4, <3>2
    <3> QED BY <1>3, <2>3, <3>1, <3>2
  <2> QED BY <1>5, <2>3 DEF AbandonedIsSkipped
<1>10. ReleaseInv' /\ ReleaseClears'
  <2>1. Releasing => \A i \in DOMAIN queue' : queue'[i] # 0
    BY <1>6 DEF ChInv, ReleaseInv
  <2> QED BY <1>1, <1>6, <2>1 DEF ChInv, ReleaseInv, ReleaseClears, Releasing, Idle
<1>11. JobInv'
  <2>1. Serving' <=> Serving
    BY <1>0, <1>1, <1>3, <1>5 DEF Serving
  <2>2. Serving => reqs'[job.req] = reqs[job.req]
    BY <1>3, <1>4 DEF Serving
  <2> QED BY <1>1, <2>1, <2>2, NothingReported, JobKept DEF ChInv
<1>12. RateInv'
  BY <1>1, RateStays DEF ChInv
<1> QED BY <1>7, <1>8, <1>9, <1>10, <1>11, <1>12 DEF ChInv

LEMMA GiveUpStep ==
  ASSUME ChInv, NEW r \in DOMAIN reqs, GiveUp(r)
  PROVE  ChInv'
<1> DEFINE one == [reqs[r] EXCEPT !.client = "left"]
           n == Len(reqs)
<1>1. /\ chip' = chip /\ session' = session /\ lastBaud' = lastBaud /\ job' = job /\ unsure' = unsure
      /\ slipped' = slipped /\ events' = events /\ released' = released /\ queue' = queue
      /\ reqs[r].state = "queued" /\ reqs' = [reqs EXCEPT ![r] = one]
  BY DEF GiveUp
<1>2. reqs \in Seq(ChReq) /\ n \in Nat /\ DOMAIN reqs = 1..n /\ AbandonedIsSkipped /\ ChQueueInv /\ r \in 1..n
  BY ReqsAre DEF ChInv
<1>3. reqs[r] \in ChReq
  BY <1>2, ElementOfSeq
<1>4. one \in ChReq /\ one.state = "queued" /\ one.cmd = reqs[r].cmd
  BY <1>1, <1>3 DEF ChReq
<1> HIDE DEF one
<1>5. /\ [reqs EXCEPT ![r] = one] \in Seq(ChReq) /\ Len([reqs EXCEPT ![r] = one]) = n
      /\ \A p \in 1..n : [reqs EXCEPT ![r] = one][p] = IF p = r THEN one ELSE reqs[p]
  BY <1>2, <1>4, ExceptSeq
<1>6. reqs' \in Seq(ChReq) /\ Len(reqs') = n /\ \A p \in 1..n : reqs'[p] = IF p = r THEN one ELSE reqs[p]
  BY <1>1, <1>5
<1>7. DOMAIN reqs' = 1..n
  BY <1>6, LenProperties
<1>8. \A p \in 1..n : reqs'[p].state = reqs[p].state /\ reqs'[p].cmd = reqs[p].cmd
  BY <1>1, <1>4, <1>6
<1>15. \A p \in 1..n : p # r => reqs'[p].client = reqs[p].client
  BY <1>6
<1>9. ChTypeOK'
  BY <1>1, <1>6 DEF ChInv, ChTypeOK
<1>10. ChQueueInv'
  BY <1>1, <1>2, <1>6, <1>7, <1>8 DEF ChQueueInv
<1>11. AbandonedIsSkipped'
  <2>1. \A p \in 1..n : \A q \in 1..(p - 1) : q \in 1..n
    BY <1>2
  <2> HIDE DEF n
  <2>4. \A p \in 1..n : reqs[p].client = "left" => reqs[p].state \in {"queued", "skipped"}
    BY <1>2 DEF AbandonedIsSkipped
  <2>5. \A p \in 1..n : \A q \in 1..(p - 1) : reqs[p].state # "queued" => reqs[q].state # "queued"
    BY <1>2 DEF AbandonedIsSkipped
  <2>2. \A p \in 1..n : reqs'[p].client = "left" => reqs'[p].state \in {"queued", "skipped"}
    BY <1>1, <1>8, <1>15, <2>4
  <2>3. \A p \in 1..n : \A q \in 1..(p - 1) : reqs'[p].state # "queued" => reqs'[q].state # "queued"
    BY <1>8, <2>1, <2>5
  <2> QED BY <1>7, <2>2, <2>3 DEF AbandonedIsSkipped
<1>12. ReleaseInv' /\ ReleaseClears'
  BY <1>1 DEF ChInv, ReleaseInv, ReleaseClears, Releasing, Idle
<1>13. JobInv'
  <2>1. Serving' <=> Serving
    BY <1>1, <1>2, <1>7 DEF Serving
  <2>2. Serving => reqs'[job.req].cmd = reqs[job.req].cmd /\ reqs'[job.req].state = reqs[job.req].state
    BY <1>2, <1>8 DEF Serving
  <2> QED BY <1>1, <2>1, <2>2, NothingReported, JobKept DEF ChInv
<1>14. RateInv'
  BY <1>1, RateStays DEF ChInv
<1> QED BY <1>9, <1>10, <1>11, <1>12, <1>13, <1>14 DEF ChInv
-----------------------------------------------------------------------------
(***************************************************************************)
(* The owner takes a request, or the release, and ends a command.          *)
(***************************************************************************)

LEMMA ServeStep ==
  ASSUME ChInv, Serve
  PROVE  ChInv'
<1> DEFINE r == Head(queue)
<1>1. Idle /\ queue # << >> /\ r # 0 /\ lastBaud' = lastBaud /\ slipped' = slipped /\ events' = events
  BY DEF Serve
<1>2. /\ reqs \in Seq(ChReq) /\ Len(reqs) \in Nat /\ DOMAIN reqs = 1..Len(reqs) /\ Len(reqs) <= MaxReqs
      /\ QueueOK(queue, Len(reqs)) /\ ChQueueInv /\ AbandonedIsSkipped
  BY ReqsAre DEF ChInv
<1>3. CASE /\ Abandoned(r) /\ queue' = Tail(queue) /\ reqs' = [reqs EXCEPT ![r].state = "skipped"]
           /\ UNCHANGED <<chip, session, job, unsure, released>>
  <2>1. chip' = chip /\ session' = session /\ job' = job /\ unsure' = unsure /\ released' = released
    BY <1>3
  <2>2. /\ Len(reqs') = Len(reqs) /\ DOMAIN reqs' = DOMAIN reqs /\ QueueOK(queue', Len(reqs'))
        /\ ChQueueInv' /\ AbandonedIsSkipped'
    BY <1>1, <1>2, <1>3, QueueServed
  <2>3. (\E i \in DOMAIN queue' : queue'[i] = 0) => \E i \in DOMAIN queue : queue[i] = 0
    BY <1>1, <1>2, <1>3, TailOfQueue
  <2>4. ChTypeOK'
    BY <1>1, <2>1, <2>2 DEF ChInv, ChTypeOK, QueueOK
  <2>5. ReleaseInv' /\ ReleaseClears'
    <3>1. ~Releasing
      BY <1>1, IdleIs DEF Releasing, IdleFields
    <3> QED BY <1>1, <2>1, <2>3, <3>1 DEF ChInv, ReleaseInv, ReleaseClears, Releasing, Idle
  <2>6. ~Serving /\ ~Serving'
    BY <1>1, <1>2, <2>1, <2>2, IdleIs DEF Serving, IdleFields
  <2>7. JobInv'
    BY <2>1, <2>6, NothingReported, JobKept DEF ChInv
  <2>8. RateInv'
    BY <1>1, <2>1, RateStays DEF ChInv
  <2> QED BY <2>2, <2>4, <2>5, <2>7, <2>8 DEF ChInv
<1>4. CASE /\ ~Abandoned(r) /\ Begin(r, reqs[r].cmd)
           /\ queue' = IF job' = NoJob THEN queue ELSE Tail(queue)
           /\ reqs' = [reqs EXCEPT ![r].state = "running"]
           /\ released' = IF released = "done" THEN "dirty" ELSE released
  <2>1. queue' = queue \/ queue' = Tail(queue)
    BY <1>4
  <2>2. reqs[r].client # "left"
    BY <1>4 DEF Abandoned
  <2>3. /\ r \in 1..Len(reqs) /\ Len(reqs') = Len(reqs) /\ DOMAIN reqs' = DOMAIN reqs
        /\ QueueOK(queue', Len(reqs')) /\ ChQueueInv' /\ AbandonedIsSkipped'
        /\ \A p \in DOMAIN reqs : reqs'[p].cmd = reqs[p].cmd
        /\ reqs'[r].state = "running"
    BY <1>1, <1>2, <1>4, <2>1, <2>2, QueueServed
  <2>4. (\E i \in DOMAIN queue' : queue'[i] = 0) => \E i \in DOMAIN queue : queue[i] = 0
    BY <1>1, <1>2, <2>1, TailOfQueue
  <2>5. reqs[r].cmd \in Commands
    <3>1. reqs[r] \in ChReq
      BY <1>2, <2>3, ElementOfSeq
    <3> QED BY <3>1 DEF ChReq
  <2> HIDE DEF r
  <2>6. ServeFrame(r)
    BY <1>1, <1>2, <2>3, <2>5 DEF ServeFrame
  <2>7. ServeGoal(r)
    BY <1>4, <2>6, ServeBegun
  <2>8. released' # "done" /\ released' \in {"no", "asked", "done", "dirty"} /\ (released = "asked" => released' = "asked")
    BY <1>4 DEF ChInv, ChTypeOK
  <2>9. ChTypeOK'
    BY <1>1, <2>3, <2>7, <2>8 DEF ChInv, ChTypeOK, QueueOK, ServeGoal, ChipSet, SessionSet
  <2>10. ReleaseInv' /\ ReleaseClears'
    BY <2>4, <2>7, <2>8 DEF ChInv, ReleaseInv, ReleaseClears, ServeGoal
  <2> QED BY <2>3, <2>7, <2>9, <2>10 DEF ChInv, ServeGoal
<1> QED BY <1>3, <1>4 DEF Serve

\* The release, once begun.
EndsGoal ==
  /\ JobInv' /\ RateInv' /\ chip' \in ChipSet /\ session' \in SessionSet
  /\ unsure' \subseteq {"kb", "ms", "chip"} /\ (Idle' \/ job'.req = MaxReqs + 1)
  /\ (Releasing' => job' # NoJob)

LEMMA ReleaseBegun ==
  ASSUME ChInv, Idle, NEW cmd, cmd.verb = "release", Begin(MaxReqs + 1, cmd),
         reqs' = reqs, lastBaud' = lastBaud, slipped' = slipped
  PROVE  EndsGoal
<1> DEFINE r == MaxReqs + 1
<1>1. /\ chip \in ChipSet /\ session \in SessionSet /\ unsure \subseteq {"kb", "ms", "chip"} /\ KbSure /\ MsSure
      /\ RateInv /\ ChTypeOK /\ chip.kb \in SUBSET ChKeys /\ session.held \in SUBSET ChKeys
  BY DEF ChInv, ChTypeOK, ChipSet, SessionSet, JobInv, ChKeys
<1>2. Len(reqs) \in Nat /\ DOMAIN reqs = 1..Len(reqs) /\ Len(reqs) <= MaxReqs
  BY ReqsAre
<1>3. ASSUME job'.req = r PROVE Releasing' /\ ~Serving' /\ ~Holds' /\ ~Idle' /\ job' # NoJob
  <2>1. job' # NoJob
    BY <1>3 DEF NoJob
  <2>2. r \notin DOMAIN reqs
    BY <1>2
  <2> QED BY <1>3, <2>1, <2>2 DEF Releasing, Serving, Holds, Idle
<1>4. ~Refused(cmd, session)
  BY DEF Refused
<1>5. CASE StartedAt(r, cmd)
  <2> DEFINE t == Program(cmd, session)
  <2>1. /\ job'.req = r /\ job'.todo = t /\ job'.text = TextAfter(cmd) /\ job'.err = "none"
        /\ job'.was = session.held \cup chip.kb /\ job'.faults = 0
    BY <1>5, JobRecFields DEF StartedAt
  <2>2. session' = HeldAfter(cmd, session) /\ chip' = chip /\ unsure' = unsure /\ session.open
    BY <1>5 DEF StartedAt
  <2>3. /\ Begun(session, session') /\ session'.held = {} /\ session'.btn = session.btn /\ TextAfter(cmd) = << >>
        /\ t = << Kb({}, "only"), Ms({}) >>
    BY <1>1, <2>2, EndProgram
  <2> HIDE DEF t
  <2>4. MsSure' /\ session'.open /\ session'.baud = session.baud /\ session' \in SessionSet
    BY <1>1, <2>2, <2>3 DEF MsSure, Begun
  <2>5. EndInv(job.todo)' /\ job'.text = << >>
    BY <2>1, <2>3, <2>4 DEF EndInv
  <2>6. JobShape'
    <3>1. job'.text \in Seq(Chars)
      BY <2>5
    <3> QED BY <1>1, <2>1, <3>1 DEF JobShape
  <2>7. JobInv'
    BY <1>3, <2>1, <2>3, <2>4, <2>5, <2>6 DEF JobInv
  <2>8. ~Between'
    BY <2>1, <2>3 DEF Between, Kb
  <2>9. RateInv'
    BY <1>1, <2>2, <2>4, <2>8, RateBegun
  <2> QED BY <1>1, <1>3, <2>1, <2>2, <2>4, <2>7, <2>9 DEF EndsGoal
<1>6. CASE OpenedFirst
  <2>1. JobInv' /\ RateInv' /\ ~Releasing' /\ Idle'
    BY <1>2, <1>6, OpenedIdle
  <2>2. unsure' \subseteq {"kb", "ms", "chip"}
    BY <1>6 DEF OpenedFirst
  <2> QED BY <1>6, <2>1, <2>2 DEF EndsGoal, OpenedFirst
<1>7. CASE NotOpened(r)
  <2>1. /\ job'.req = r /\ job'.todo = << >> /\ job'.text = << >> /\ job'.err = "timeout" /\ job'.was = {}
        /\ job'.faults = 0
    BY <1>7, JobRecFields DEF NotOpened
  <2>2. session' = session /\ unsure' = unsure /\ ~session.open /\ chip' \in ChipSet
    BY <1>7 DEF NotOpened
  <2>3. KbSure' /\ MsSure'
    BY <2>2 DEF KbSure, MsSure
  <2>4. EndInv(job.todo)'
    BY <2>1, <2>3 DEF EndInv
  <2>5. JobShape'
    <3>1. job'.text \in Seq(Chars)
      BY <2>1
    <3> QED BY <2>1, <3>1 DEF JobShape
  <2>6. JobInv'
    BY <1>3, <2>1, <2>2, <2>3, <2>4, <2>5 DEF JobInv
  <2>7. ~Between'
    BY <2>1 DEF Between
  <2>8. RateInv'
    BY <1>1, <1>7, <2>2, <2>7, RateBegun DEF NotOpened
  <2> QED BY <1>1, <1>3, <2>1, <2>2, <2>6, <2>8 DEF EndsGoal
<1> QED BY <1>1, <1>4, <1>5, <1>6, <1>7, BeginIs

\* What the release leaves of the queue.
Taken(q2) ==
  /\ q2 \in Seq(Nat) /\ QueueOK(q2, Len(reqs))
  /\ \A i, j \in DOMAIN q2 : i < j /\ q2[j] # 0 => q2[i] < q2[j]
  /\ \A i, j \in DOMAIN q2 : q2[i] = 0 /\ q2[j] = 0 => i = j
  /\ \A x \in Nat : x # Head(queue) /\ (\E i \in DOMAIN queue : queue[i] = x) => \E i \in DOMAIN q2 : q2[i] = x
  /\ q2 = Tail(queue) /\ Head(queue) = 0 => \A i \in DOMAIN q2 : q2[i] # 0

LEMMA QueueTaken ==
  ASSUME ChQueueInv, QueueOK(queue, Len(reqs)), queue # << >>,
         NEW q2, q2 = queue \/ q2 = Tail(queue)
  PROVE  Taken(q2)
BY TailOfQueue, Zenon DEF Taken

LEMMA ServeReleaseStep ==
  ASSUME ChInv, ServeRelease
  PROVE  ChInv'
<1> DEFINE cmd == [verb |-> "release", keys |-> {}, arg |-> "none"]
<1>1. /\ Idle /\ queue # << >> /\ Head(queue) = 0 /\ Begin(MaxReqs + 1, cmd)
      /\ queue' = IF job' = NoJob THEN queue ELSE Tail(queue)
      /\ lastBaud' = lastBaud /\ reqs' = reqs /\ slipped' = slipped /\ released' = released /\ events' = events
  BY DEF ServeRelease
<1>2. cmd.verb = "release"
  OBVIOUS
<1> HIDE DEF cmd
<1>3. EndsGoal
  BY <1>1, <1>2, ReleaseBegun
<1>4. /\ reqs \in Seq(ChReq) /\ Len(reqs) \in Nat /\ DOMAIN reqs = 1..Len(reqs)
      /\ QueueOK(queue, Len(reqs)) /\ ChQueueInv /\ AbandonedIsSkipped /\ queue \in Seq(Nat)
  BY ReqsAre DEF ChInv
<1>5. Taken(queue')
  <2>1. queue' = queue \/ queue' = Tail(queue)
    BY <1>1
  <2> QED BY <1>1, <1>4, <2>1, QueueTaken
<1>11. /\ queue' \in Seq(Nat) /\ QueueOK(queue', Len(reqs))
       /\ \A i, j \in DOMAIN queue' : i < j /\ queue'[j] # 0 => queue'[i] < queue'[j]
       /\ \A i, j \in DOMAIN queue' : queue'[i] = 0 /\ queue'[j] = 0 => i = j
       /\ \A x \in Nat : x # Head(queue) /\ (\E i \in DOMAIN queue : queue[i] = x) => \E i \in DOMAIN queue' : queue'[i] = x
       /\ queue' = Tail(queue) /\ Head(queue) = 0 => \A i \in DOMAIN queue' : queue'[i] # 0
  BY <1>5 DEF Taken
<1>6. released = "asked"
  <2>1. 1 \in DOMAIN queue /\ queue[1] = 0
    BY <1>1, <1>4, LenProperties, EmptySeq, HeadTailProperties
  <2> QED BY <2>1 DEF ChInv, ReleaseInv
<1>7. ChTypeOK'
  BY <1>1, <1>3, <1>11 DEF ChInv, ChTypeOK, QueueOK, EndsGoal, ChipSet, SessionSet
<1>8. ChQueueInv'
  <2>1. \A p \in 1..Len(reqs) : p \in Nat /\ p # 0
    BY <1>4
  <2>2. \A p \in DOMAIN reqs : reqs[p].state = "queued" => \E i \in DOMAIN queue' : queue'[i] = p
    BY <1>1, <1>4, <1>11, <2>1 DEF ChQueueInv
  <2> QED BY <1>1, <1>4, <1>11, <2>2 DEF ChQueueInv
<1>9. AbandonedIsSkipped'
  BY <1>1, <1>4 DEF AbandonedIsSkipped
<1>10. ReleaseInv' /\ ReleaseClears'
  <2>1. Releasing' => queue' = Tail(queue)
    BY <1>1, <1>3 DEF EndsGoal
  <2> QED BY <1>1, <1>11, <1>6, <2>1 DEF ReleaseInv, ReleaseClears
<1> QED BY <1>3, <1>7, <1>8, <1>9, <1>10 DEF ChInv, EndsGoal

LEMMA NoJobIs ==
  ASSUME NEW j, j = NoJob
  PROVE  /\ j.req = 0 /\ j.todo = << >> /\ j.text = << >> /\ j.err = "none" /\ j.was = {} /\ j.faults = 0
<1> DEFINE b == FALSE
<1>1. NoJob = JobRec(0, << >>, << >>, "none", b, {})
  BY DEF NoJob, JobRec
<1> HIDE DEF b
<1>2. j = JobRec(0, << >>, << >>, "none", b, {})
  BY <1>1
<1> QED BY <1>2 DEF JobRec

LEMMA ClosedIs ==
  Closed \in SessionSet /\ ~Closed.open
<1> DEFINE no == FALSE
           v == {}
           f == CHOOSE r \in Rates : TRUE
           c == [open |-> no, held |-> v, btn |-> v, baud |-> f]
<1>1. Closed = c
  BY DEF Closed
<1>2. Head(Candidates) \in Rates
  BY HeadTailProperties
<1>3. f \in Rates
  BY <1>2
<1>4. no \in BOOLEAN /\ v \in SUBSET (Usages \cup Modifiers) /\ v \in SUBSET Buttons
  BY DEF no, v
<1> HIDE DEF no, v, f
<1>5. c \in SessionSet /\ c.open = no
  BY <1>3, <1>4 DEF SessionSet
<1> HIDE DEF c
<1> QED BY <1>1, <1>5 DEF no

\* What a command leaves at its end.
LEMMA JobEnds ==
  ASSUME ChInv, ~Idle, job.todo = << >>
  PROVE  /\ KbSure /\ MsSure /\ ~Between /\ released # "done"
         /\ Releasing => (job.err = "none" => chip.kb = {} /\ chip.ms = {})
<1>1. Serving \/ Releasing
  BY DEF ChInv, JobInv
<1>2. ~Between
  BY DEF Between
<1>3. ASSUME Releasing
      PROVE  KbSure /\ MsSure /\ (job.err = "none" => chip.kb = {} /\ chip.ms = {})
  <2>1. EndInv(<< >>)
    BY <1>3 DEF ChInv, JobInv
  <2>2. << >> # << Kb({}, "only"), Ms({}) >> /\ << >> # << Ms({}) >>
    OBVIOUS
  <2> QED BY <2>1, <2>2 DEF EndInv
<1>4. ASSUME Holds PROVE KbSure /\ MsSure
  <2>1. MsSure /\ (session.open => HoldInv(<< >>))
    BY <1>4 DEF ChInv, JobInv
  <2>2. ~Pressing(<< >>)
    BY DEF Pressing, PressLeft, EdgeLeft
  <2>3. << >> # << Kb(session.held, "release") >> /\ << >> # << Kb(session.held, "only") >>
    OBVIOUS
  <2>4. session.open => KbSure
    BY <2>1, <2>2, <2>3 DEF HoldInv
  <2> QED BY <2>1, <2>4 DEF KbSure
<1>5. ASSUME Serving, ~Holds PROVE KbSure /\ MsSure
  <2>1. OtherInv(<< >>)
    BY <1>5 DEF ChInv, JobInv
  <2>2. << >> # << Kb(session.held, "only") >> /\ << >> # << Ms(session.btn) >>
    OBVIOUS
  <2>3. ~ \E M \in SUBSET Buttons : << >> = << Ms(M), Ms(session.btn) >>
    OBVIOUS
  <2> QED BY <2>1, <2>2, <2>3 DEF OtherInv
<1> QED BY <1>1, <1>2, <1>3, <1>4, <1>5 DEF ChInv, ReleaseInv

\* The request at hand is settled.
LEMMA QueueSettled ==
  ASSUME ChInv, NEW r \in DOMAIN reqs, NEW st \in {"ok", "err"}, reqs[r].state = "running",
         reqs' = SetState(reqs, r, st), queue' = queue
  PROVE  ChQueueInv' /\ AbandonedIsSkipped' /\ Len(reqs') = Len(reqs)
<1> DEFINE n == Len(reqs)
<1>1. reqs \in Seq(ChReq) /\ n \in Nat /\ DOMAIN reqs = 1..n /\ ChQueueInv /\ AbandonedIsSkipped /\ n <= MaxReqs
  BY ReqsAre DEF ChInv
<1>2. Settled(reqs, r, st, reqs')
  BY <1>1, SettleState
<1>3. /\ reqs' \in Seq(ChReq) /\ Len(reqs') = n /\ DOMAIN reqs' = 1..n
      /\ \A p \in 1..n : /\ reqs'[p].state = (IF p = r THEN st ELSE reqs[p].state)
                         /\ reqs'[p].client = reqs[p].client
  BY <1>2 DEF Settled
<1> HIDE DEF n
<1>4. /\ \A p \in 1..n : reqs'[p].state = "queued" => reqs[p].state = "queued"
      /\ \A p \in 1..n : reqs[p].state = "queued" => reqs'[p].state = "queued"
      /\ \A p \in 1..n : p # r => reqs'[p].state = reqs[p].state
  BY <1>3
<1>5. ChQueueInv'
  BY <1>1, <1>3, <1>4 DEF ChQueueInv
<1>6. AbandonedIsSkipped'
  <2>1. \A p \in 1..n : \A q \in 1..(p - 1) : q \in 1..n
    BY <1>1
  <2>2. \A p \in 1..n : reqs[p].client = "left" => reqs[p].state \in {"queued", "skipped"}
    BY <1>1 DEF AbandonedIsSkipped
  <2>3. \A p \in 1..n : \A q \in 1..(p - 1) : reqs[p].state # "queued" => reqs[q].state # "queued"
    BY <1>1 DEF AbandonedIsSkipped
  <2>4. \A p \in 1..n : reqs'[p].client = "left" => p # r
    BY <1>3, <2>2
  <2>5. \A p \in 1..n : reqs'[p].client = "left" => reqs'[p].state \in {"queued", "skipped"}
    BY <1>3, <1>4, <2>2, <2>4
  <2>6. \A p \in 1..n : \A q \in 1..(p - 1) : reqs'[p].state # "queued" => reqs'[q].state # "queued"
    BY <1>4, <2>1, <2>3
  <2> QED BY <1>3, <2>5, <2>6 DEF AbandonedIsSkipped
<1> QED BY <1>3, <1>5, <1>6 DEF n

LEMMA FinishStep ==
  ASSUME ChInv, Finish
  PROVE  ChInv'
<1>1. /\ ~Idle /\ job.todo = << >> /\ job' = NoJob
      /\ chip' = chip /\ queue' = queue /\ unsure' = unsure /\ slipped' = slipped /\ events' = events
  BY DEF Finish
<1>2. /\ job'.req = 0 /\ job'.todo = << >> /\ job'.text = << >> /\ job'.err = "none" /\ job'.was = {}
      /\ job'.faults = 0
  BY <1>1, NoJobIs
<1>3. /\ KbSure /\ MsSure /\ ~Between /\ released # "done"
      /\ Releasing => (job.err = "none" => chip.kb = {} /\ chip.ms = {})
  BY <1>1, JobEnds
<1>4. Len(reqs) \in Nat /\ DOMAIN reqs = 1..Len(reqs) /\ Len(reqs) <= MaxReqs /\ reqs \in Seq(ChReq)
  BY ReqsAre
<1>5. (Serving /\ reqs[job.req].state = "running") \/ Releasing
  BY <1>1 DEF ChInv, JobInv
<1>6. Idle' /\ ~Between' /\ ~Releasing'
  BY <1>1, <1>2 DEF Idle, Between, Releasing
<1>7. JobShape'
  <2>1. job'.text \in Seq(Chars)
    BY <1>2
  <2> QED BY <1>2, <2>1 DEF JobShape
<1>8. ASSUME KbSure', MsSure', DOMAIN reqs' = DOMAIN reqs PROVE JobInv'
  <2>1. ~Serving'
    BY <1>2, <1>4, <1>8 DEF Serving
  <2> QED BY <1>2, <1>6, <1>7, <1>8, <2>1 DEF JobInv, Holds
<1>9. CASE job.req <= MaxReqs
  <2>1. ~Releasing /\ Serving /\ reqs[job.req].state = "running"
    BY <1>5, <1>9 DEF Releasing
  <2> DEFINE st == IF job.err = "none" THEN "ok" ELSE "err"
  <2>2. /\ lastBaud' = IF session.open THEN BaudSeen ELSE lastBaud
        /\ session' = IF Transport(job.err) THEN Closed ELSE session
        /\ reqs' = SetState(reqs, job.req, st) /\ released' = released
    BY <1>9 DEF Finish, SetState
  <2>3. st \in {"ok", "err"}
    OBVIOUS
  <2> HIDE DEF st
  <2>4. ChQueueInv' /\ AbandonedIsSkipped' /\ Len(reqs') = Len(reqs)
    BY <1>1, <2>1, <2>2, <2>3, QueueSettled DEF Serving
  <2>5. DOMAIN reqs' = DOMAIN reqs
    BY <1>4, <2>4, LenProperties DEF ChQueueInv
  <2>6. session' \in SessionSet /\ (session'.open => session' = session)
    BY <2>2, ClosedIs DEF ChInv, ChTypeOK, SessionSet
  <2>7. KbSure' /\ MsSure'
    BY <1>1, <1>3, <2>6 DEF KbSure, MsSure
  <2>8. JobInv'
    BY <1>8, <2>5, <2>7
  <2>9. lastBaud' \subseteq Rates
    BY <2>2 DEF ChInv, ChTypeOK, BaudSeen
  <2>10. ChTypeOK'
    BY <1>1, <2>2, <2>4, <2>6, <2>9 DEF ChInv, ChTypeOK, SessionSet
  <2>11. ReleaseInv' /\ ReleaseClears'
    BY <1>1, <1>3, <1>6, <2>2 DEF ChInv, ReleaseInv, ReleaseClears
  <2>12. RateInv'
    <3>1. CASE session.open
      <4>1. lastBaud' = {session.baud}
        BY <2>2, <3>1 DEF BaudSeen
      <4> QED BY <1>1, <1>3, <1>6, <2>6, <3>1, <4>1 DEF ChInv, RateInv, ProbeOrder
    <3>2. CASE ~session.open
      <4>1. lastBaud' = lastBaud /\ ~session'.open
        BY <2>2, <2>6, <3>2
      <4> QED BY <1>1, <1>3, <1>6, <3>2, <4>1 DEF ChInv, RateInv, ProbeOrder
    <3> QED BY <3>1, <3>2
  <2> QED BY <2>4, <2>8, <2>10, <2>11, <2>12 DEF ChInv
<1>10. CASE ~(job.req <= MaxReqs)
  <2>1. Releasing
    BY <1>4, <1>5, <1>10 DEF Serving
  <2>2. /\ released' = IF job.err = "none" THEN "done" ELSE "dirty"
        /\ lastBaud' = lastBaud /\ session' = session /\ reqs' = reqs
    BY <1>10 DEF Finish
  <2>3. KbSure' /\ MsSure'
    BY <1>1, <1>3, <2>2 DEF KbSure, MsSure
  <2>4. JobInv'
    BY <1>8, <2>2, <2>3
  <2>5. ChTypeOK'
    BY <1>1, <2>2 DEF ChInv, ChTypeOK
  <2>6. ChQueueInv' /\ AbandonedIsSkipped'
    BY <1>1, <2>2 DEF ChInv, ChQueueInv, AbandonedIsSkipped
  <2>7. ReleaseInv' /\ ReleaseClears'
    BY <1>1, <1>3, <1>6, <2>1, <2>2 DEF ChInv, ReleaseInv, ReleaseClears
  <2>8. RateInv'
    BY <1>1, <1>3, <1>6, <2>1, <2>2 DEF ChInv, RateInv, ProbeOrder
  <2> QED BY <2>4, <2>5, <2>6, <2>7, <2>8 DEF ChInv
<1> QED BY <1>9, <1>10

-----------------------------------------------------------------------------
(***************************************************************************)
(* The invariant, and what it says.                                        *)
(***************************************************************************)

LEMMA ChInitInv ==
  ChInit => ChInv
<1> SUFFICES ASSUME ChInit PROVE ChInv
  OBVIOUS
<1> DEFINE yes == TRUE
           f == Head(Candidates)
<1>1. /\ chip = [up |-> yes, kb |-> Modifiers, ms |-> Buttons, rate |-> f, flash |-> f, side |-> "host"]
      /\ session = Closed /\ lastBaud = {} /\ queue = << >> /\ reqs = << >> /\ job = NoJob
      /\ unsure = {} /\ ~slipped /\ released = "no" /\ events = 0
  BY DEF ChInit
<1>2. f \in Rates /\ f \in Range(Candidates)
  <2>1. f \in Rates /\ f = Candidates[1] /\ 1 \in DOMAIN Candidates
    BY HeadTailProperties, LenProperties, EmptySeq
  <2> QED BY <2>1 DEF Range
<1>3. yes \in BOOLEAN
  OBVIOUS
<1> HIDE DEF yes, f
<1>4. /\ chip \in ChipSet /\ chip.rate = f /\ chip.flash = f
  BY <1>1, <1>2, <1>3 DEF ChipSet
<1>5. session \in SessionSet /\ ~session.open
  BY <1>1, ClosedIs
<1>6. Idle /\ IdleFields
  BY <1>1, IdleIs DEF Idle
<1>7. DOMAIN queue = {} /\ DOMAIN reqs = {} /\ Len(reqs) = 0 /\ reqs \in Seq(ChReq) /\ queue \in Seq(Nat)
  BY <1>1
<1>8. ChTypeOK
  <2>1. events \in 0..MaxEvents
    BY <1>1
  <2> QED BY <1>1, <1>4, <1>5, <1>7, <2>1 DEF ChTypeOK, ChipSet, SessionSet
<1>9. ChQueueInv /\ AbandonedIsSkipped
  BY <1>7 DEF ChQueueInv, AbandonedIsSkipped
<1>10. ~Releasing /\ ~Serving /\ ~Between
  BY <1>6, <1>7 DEF Releasing, Serving, Between, IdleFields
<1>11. ReleaseInv /\ ReleaseClears
  BY <1>1, <1>7, <1>10 DEF ReleaseInv, ReleaseClears
<1>12. JobShape
  <2>1. job.text \in Seq(Chars)
    BY <1>6 DEF IdleFields
  <2> QED BY <1>6, <2>1 DEF JobShape, IdleFields
<1>13. KbSure /\ MsSure
  BY <1>5 DEF KbSure, MsSure
<1>14. JobInv
  BY <1>5, <1>6, <1>10, <1>12, <1>13 DEF JobInv, Holds, IdleFields
<1>15. RateInv
  BY <1>2, <1>4, <1>5, <1>10 DEF RateInv, ProbeOrder
<1> QED BY <1>8, <1>9, <1>11, <1>14, <1>15 DEF ChInv

LEMMA ChStep ==
  ChInv /\ [ChNext]_chVars => ChInv'
<1> SUFFICES ASSUME ChInv, [ChNext]_chVars PROVE ChInv'
  OBVIOUS
<1>1. CASE Write
  BY <1>1, WriteStep
<1>2. CASE Serve
  BY <1>2, ServeStep
<1>3. CASE ServeRelease
  BY <1>3, ServeReleaseStep
<1>4. CASE Finish
  BY <1>4, FinishStep
<1>5. ASSUME NEW cmd \in Commands, Send(cmd) PROVE ChInv'
  BY <1>5, SendStep
<1>6. ASSUME NEW r \in DOMAIN reqs, GiveUp(r) PROVE ChInv'
  BY <1>6, GiveUpStep
<1>7. CASE ReleaseForShutdown
  BY <1>7, ReleaseForShutdownStep
<1>8. CASE Bench
  BY <1>8, BenchStep
<1>9. CASE UNCHANGED chVars
  <2>1. /\ chip' = chip /\ session' = session /\ lastBaud' = lastBaud /\ queue' = queue /\ reqs' = reqs
        /\ job' = job /\ unsure' = unsure /\ slipped' = slipped /\ released' = released /\ events' = events
    BY <1>9 DEF chVars
  <2>2. JobInv'
    BY <2>1, NothingReported, JobKept DEF ChInv, Serving
  <2>3. RateInv'
    BY <2>1, RateStays DEF ChInv
  <2>4. ChTypeOK'
    BY <2>1 DEF ChInv, ChTypeOK
  <2>5. ChQueueInv' /\ AbandonedIsSkipped'
    BY <2>1 DEF ChInv, ChQueueInv, AbandonedIsSkipped
  <2>6. ReleaseInv' /\ ReleaseClears'
    BY <2>1 DEF ChInv, ReleaseInv, ReleaseClears, Releasing, Idle
  <2> QED BY <2>2, <2>3, <2>4, <2>5, <2>6 DEF ChInv
<1> QED BY <1>1, <1>2, <1>3, <1>4, <1>5, <1>6, <1>7, <1>8, <1>9 DEF ChNext, Owner

LEMMA ChInvSays ==
  ChInv => ChipIsKept
<1> SUFFICES ASSUME ChInv PROVE ChipIsKept
  OBVIOUS
<1>1. ChTypeOK /\ AbandonedIsSkipped /\ ReleaseClears /\ JobInv /\ RateInv
  BY DEF ChInv
<1>2. ChipIsAsBelieved
  BY <1>1 DEF JobInv, ChipIsAsBelieved, KbSure, MsSure
<1>3. OneFaultLeavesNothingDown
  <2> SUFFICES ASSUME ~Idle, job.todo = << >>, Serving, job.faults <= 1, session.open, Verb \in HoldVerbs
               PROVE  chip.kb \subseteq job.was
    BY DEF OneFaultLeavesNothingDown, Serving, Verb, HoldVerbs
  <2>1. HoldInv(<< >>)
    BY <1>1 DEF JobInv, Holds
  <2>2. ~Pressing(<< >>)
    BY DEF Pressing, PressLeft, EdgeLeft
  <2>3. << >> # << Kb(session.held, "release") >> /\ << >> # << Kb(session.held, "only") >>
    OBVIOUS
  <2> QED BY <2>1, <2>2, <2>3 DEF HoldInv
<1>4. TypedKeyIsAnEdge
  <2> SUFFICES ASSUME Serving, job.todo # << >>, unsure = {}, Verb = "type", Head(job.todo).role = "press"
               PROVE  Head(job.todo).rep # chip.kb
    BY DEF TypedKeyIsAnEdge, Serving, Verb
  <2>1. HoldInv(job.todo)
    BY <1>1 DEF JobInv, Holds, HoldVerbs
  <2>2. job.todo # << Kb(session.held, "release") >> /\ job.todo # << Kb(session.held, "only") >>
    BY DEF Kb
  <2>3. Pressing(job.todo)
    BY <2>1, <2>2 DEF HoldInv
  <2>4. ASSUME NEW P \in SUBSET ChKeys, NEW k \in P, EdgeLeft(job.todo, P, k) PROVE FALSE
    BY <2>4 DEF EdgeLeft, Kb
  <2>5. PICK P \in SUBSET ChKeys : PressLeft(job.todo, P) /\ (Verb = "type" /\ "kb" \notin unsure => P # chip.kb)
    BY <2>3, <2>4 DEF Pressing
  <2>6. Head(job.todo).rep = P
    BY <2>5 DEF PressLeft, Kb
  <2> QED BY <2>5, <2>6
<1>5. StoredRateIsProbed
  BY <1>1 DEF RateInv, StoredRateIsProbed
<1> QED BY <1>1, <1>2, <1>3, <1>4, <1>5 DEF ChipIsKept

\* The owner's invariant: at every point of a command what is left to write, what the
\* session believes and what the chip holds fit together (session.rs, uart.rs).
THEOREM ChInvariant == ChSpec => []ChInv
<1>1. ChInit => ChInv
  BY ChInitInv
<1>2. ChInv /\ [ChNext]_chVars => ChInv'
  BY ChStep
<1> QED BY <1>1, <1>2, PTL DEF ChSpec

\* Through lost replies, resets, a chip found at another rate and clients that give up, what
\* the session believes held is what the chip holds down, and nothing is left pressed
\* (session.rs, uart.rs serve_line, handle_release).
THEOREM ChipAlwaysKept == ChSpec => []ChipIsKept
<1>1. ChInv => ChipIsKept
  BY ChInvSays
<1> QED BY <1>1, ChInvariant, PTL
=============================================================================
