------------------------------ MODULE MCVideo ------------------------------
(***************************************************************************)
(* hdmicap.  Its parts meet only in the warm frame, which each of them     *)
(* takes as anything the others may leave there: a behaviour is one        *)
(* part's, chosen by `part`; the others stay where they begin.             *)
(***************************************************************************)
EXTENDS VideoCapture, VideoServe, VideoView, VideoSource, Zrle

CONSTANTS c1, c2

VARIABLE part
sourceVars == <<pick, probe, drain, rfbVars>>

\* Pictures of 64 samples: mid grey and what noise or a change makes of it, another size, a
\* dark one, and dark with one bright stroke.
Pic(d, v) == [dims |-> d, luma |-> <<[v |-> v, n |-> 63], [v |-> v, n |-> 1]>>]
Sparse == [dims |-> 1, luma |-> <<[v |-> 0, n |-> 63], [v |-> 64, n |-> 1]>>]
Working == [pictures |-> {Pic(1, 100), Pic(1, 112), Pic(1, 124), Pic(2, 100), Pic(1, 5), Sparse}, faults |-> 0]
Flaky(n) == [pictures |-> {Pic(1, 100)}, faults |-> n]
MCSources == {Working, Flaky(3)}

Q(op, ws, since) == [op |-> op, stable |-> ws, since |-> since]
Shot(s, h, form) == [sig |-> s, hash |-> h, form |-> form]
MCRequests ==
  [c \in {c1, c2} |-> IF c = c1 THEN {Q("snapshot", TRUE, 1), Q("ocr", FALSE, 0), Q("power", FALSE, 0)}
                      ELSE {Q("preview", FALSE, 0)}]
MCShots == {Shot("stable", 2, "pixels"), Shot("mode_switching", 1, "bad"), Shot("no_signal", 1, "pixels")}

Scr(px, h) == [px |-> px, hash |-> h]
MCScreens == {Scr(<<1, 0, 1>>, 1), Scr(<<1, 1, 1>>, 1), Scr(<<0, 1, 0>>, 2), Scr(<<1, 0>>, 3), Scr(<< >>, 0)}
MCAsks == [inc : BOOLEAN, x : {0}, w : {2, 9}] \cup [inc : BOOLEAN, x : {1}, w : {1}]
Sym(n, sh, is) == [name |-> n, shifted |-> sh, shift |-> is]
MCSyms == [k \in {"!", "Shift"} |-> IF k = "!" THEN Sym("ONE", TRUE, FALSE) ELSE Sym("LEFT_SHIFT", FALSE, TRUE)]

Dev(id, n, b) == [id |-> id, name |-> n, builtin |-> b]
MCDevices ==
  UNION { [1..n -> {Dev("p1", "dongle", FALSE), Dev("p2", "dongle", FALSE), Dev("", "dongle", FALSE),
                    Dev("p3", "cam", TRUE)}] : n \in 0..2 }
Named(k, id, ns) == [kind |-> k, id |-> id, names |-> ns]
MCNames ==
  { Named("auto", "none", {}), Named("name", "p1", {}), Named("name", "don", {"dongle"}),
    Named("name", "x", {"dongle", "cam"}), Named("name", "none", {}) }
MCLadder == <<"hd_m", "hd_y", "sd_m">>
MCBenches ==
  [ actual : {MCLadder, <<"hd_y", "hd_y", "sd_m">>, <<"hd_y", "sd_m", "sd_m">>, <<"sd_m", "hd_y", "hd_m">>},
    sets : SUBSET (1..3), allocs : {{}, {"hd_y", "sd_m"}, {"hd_m", "hd_y", "sd_m"}},
    streams : SUBSET {"hd_m", "hd_y", "sd_m"} ]
NoBench == [actual |-> MCLadder, sets |-> {}, allocs |-> {}, streams |-> {}]

MCInit ==
  /\ part \in {"capture", "serve", "view", "input", "slots", "pick", "probe", "drain", "rfb", "zrle"}
  /\ CaptureInit
  /\ part # "capture" => source = (CHOOSE s \in Sources : TRUE) /\ dev.pic = Pic(1, 100) /\ ~watched
  /\ ServeInit /\ ViewInit /\ InputInit /\ SlotsInit /\ RfbInit
  /\ part # "view" => shown.hash = 0 /\ view.desktop
  /\ IF part = "pick" THEN PickInit ELSE pick = [devices |-> << >>, name |-> CHOOSE n \in Names : TRUE]
  /\ ProbeInit /\ (part # "probe" => probe.bench = NoBench)
  /\ DrainInit /\ (part # "drain" => drain.stale = 0 /\ drain.stamps)
  /\ IF part = "zrle" THEN ZrleInit ELSE sample = [kind |-> "none", it |-> << >>]

MCNext ==
  \/ part = "capture" /\ CaptureNext /\ UNCHANGED <<part, serveVars, viewVars, inputVars, slots, sourceVars, sample>>
  \/ part = "serve" /\ ServeNext /\ UNCHANGED <<part, captureVars, viewVars, inputVars, slots, sourceVars, sample>>
  \/ part = "view" /\ ViewNext /\ UNCHANGED <<part, captureVars, serveVars, inputVars, slots, sourceVars, sample>>
  \/ part = "input" /\ InputNext /\ UNCHANGED <<part, captureVars, serveVars, viewVars, slots, sourceVars, sample>>
  \/ part = "slots" /\ SlotsNext /\ UNCHANGED <<part, captureVars, serveVars, viewVars, inputVars, sourceVars, sample>>
  \/ /\ UNCHANGED <<part, captureVars, serveVars, viewVars, inputVars, slots, sample>>
     /\ \/ part = "probe" /\ ProbeNext /\ UNCHANGED <<pick, drain, rfbVars>>
        \/ part = "drain" /\ DrainNext /\ UNCHANGED <<pick, probe, rfbVars>>
        \/ part = "rfb" /\ RfbNext /\ UNCHANGED <<pick, probe, drain>>

\* The capture thread, the watchdog, the RFB worker and a server that is up go on; time passes.
MCSpec ==
  /\ MCInit /\ [][MCNext]_<<part, captureVars, serveVars, viewVars, inputVars, slots, sourceVars, sample>>
  /\ WF_captureVars(part = "capture" /\ CaptureStep) /\ WF_captureVars(part = "capture" /\ DogWakes)
  /\ WF_captureVars(part = "capture" /\ Tick)
  /\ WF_rfbVars(part = "rfb" /\ (Connect \/ Receive \/ Truncated \/ WorkerTick))
  /\ WF_rfbVars(part = "rfb" /\ Answer)

\* What goes between target and viewer arrives as it was sent: pixels through ZRLE tiles,
\* CPIXELs and padded NV12, keys and clicks over one link, over full queues, lost links and
\* viewers that vanish (zrle.rs, pixel.rs, rfb_serve.rs, hid_link.rs).
SentAcrossWhole ==
  /\ TileRoundTrips
  /\ ChosenBySize
  /\ CpixelKeepsColour
  /\ Nv12IsUnpadded
  /\ QueueIsBounded
  /\ TargetHoldsWhatIsHeld
  /\ ClickLandsWhereSent

\* The picture comes back, a server that went away is noticed, workers end and no request is
\* stuck; meanwhile noise is no change.
VideoProgress ==
  /\ NoiseKeepsHash
  /\ []NoRequestStuck
  /\ PictureComesBack
  /\ GoneIsNoticed
  /\ WorkerEnds
=============================================================================
