------------------------------- MODULE MCCli -------------------------------
(***************************************************************************)
(* The command line program: its parts side by side, one per behaviour.    *)
(***************************************************************************)
EXTENDS DaemonLife, LabEdit, Dispatch, Setup, Console

VARIABLE part

CONSTANTS d1, d2

\* The labs a hand wrote, and the edits made to them.
NoOpts == [host |-> Unset, port |-> -1, iface |-> Unset, net |-> Unset, ref |-> Unset, dev |-> Unset, doctor |-> Unset]
Edit(op, t, to, kind, name, o) == [op |-> op, t |-> t, to |-> to, kind |-> kind, name |-> name, opts |-> o @@ NoOpts]
On(h) == [host |-> h]
Ser(name, h, port) == [name |-> name, host |-> h, port |-> port]
Ch(o) == o @@ Blank
HandA ==
  [ hosts |-> {"A", "B"},
    targets |-> ("x" :> [ host |-> "A", serial |-> <<Ser("s1", Unset, 7), Ser("s2", "B", 0)>>,
                          ch |-> ("netboot" :> Ch([iface |-> "e0"])) @@ ("power" :> Ch([ref |-> "s1", subs |-> {"hard"}])) ])
             @@ ("y" :> [ host |-> Unset, serial |-> << >>,
                          ch |-> ("netboot" :> Ch([iface |-> "e1", host |-> "A"])) @@ ("hid" :> Ch([host |-> "B"]))
                              @@ ("actions" :> Ch([host |-> "B", subs |-> {"reset"}, doctor |-> TRUE])) ]) ]
HandB ==
  [ hosts |-> {"A"},
    targets |-> ("x" :> [ host |-> "A", serial |-> << >>, ch |-> ("power" :> Ch([ref |-> "gone"])) ]) ]
HandC == [HandB EXCEPT !.targets["x"].host = "nowhere"]
HandD ==
  [ hosts |-> {},
    targets |-> [ n \in {"x", "y", "z", "w"} |->
       [ host |-> Unset, serial |-> << >>,
         ch |-> ("netboot" :> Ch([iface |-> IF n \in {"x", "z"} THEN "e0" ELSE "e1", net |-> IF n \in {"x", "y"} THEN Unset ELSE "n2"])) ] ] ]
MCHandLabs == {HandA, HandB, HandC, HandD}
MCEdits ==
  { Edit("add_host", "x", "x", "hid", "B", << >>), Edit("rm_host", "x", "x", "hid", "B", << >>),
    Edit("add_target", "y", "x", "hid", "n", On("A")), Edit("set_target", "x", "x", "hid", "n", On("B")), Edit("set_target", "y", "x", "hid", "n", On("A")),
    Edit("rm_target", "y", "x", "hid", "n", << >>), Edit("rename", "x", "z", "hid", "n", << >>),
    Edit("add_serial", "x", "x", "hid", "s2", [host |-> "B", port |-> 7]), Edit("set_serial", "x", "x", "hid", "s2", [port |-> 7]),
    Edit("rm_serial", "x", "x", "hid", "s1", << >>), Edit("set", "y", "x", "video", "n", [host |-> "B", port |-> 7, dev |-> "rfb+hid"]),
    Edit("set", "y", "x", "hid", "n", On("A")), Edit("set", "x", "x", "video", "n", [dev |-> "bad"]), Edit("set", "x", "x", "video", "n", [port |-> 7]),
    Edit("set", "y", "x", "netboot", "n", [iface |-> "e1"]), Edit("set", "x", "x", "power", "n", [ref |-> "s2"]),
    Edit("rm", "x", "x", "power", "n", << >>), Edit("rm", "y", "x", "hid", "n", << >>),
    Edit("set_sub", "x", "x", "power", "soft", [dev |-> "cmd"]),
    Edit("rm_sub", "y", "x", "actions", "reset", << >>), Edit("rm_sub", "x", "x", "power", "hard", << >>),
    Edit("set", "x", "x", "power", "n", [doctor |-> "on"]), Edit("set_sub", "y", "x", "actions", "reset", [doctor |-> "off"]) }
MCRepairs == { Edit("set", "x", "x", "netboot", "n", [net |-> "n9"]) }
MCInventories ==
  { [eth |-> << >>, serial |-> <<"ttyA", "ttyB">>, video |-> <<"d1">>, adb |-> << >>],
    [eth |-> <<"e7", "e8">>, serial |-> << >>, video |-> <<"d1", "d2">>, adb |-> <<"ph">>] }

\* Commands dispatched: two captures into one file, or others side by side.
MCModes ==
  { [c \in Calls |-> "to_file"], (d1 :> "reexec") @@ (d2 :> "captured"), (d1 :> "interactive") @@ (d2 :> "to_file") }
MCEnvs == {<<"pw">>, <<"pw", "more">>}
MCInputs == UNION { [1..n -> {"x", "y"}] : n \in 0..2 }
MCWords == UNION { [1..n -> {"a", "'", " ", "$"}] : n \in 0..4 }

\* Hosts `paniolo setup` runs on, and consoles that are asked for.
SetupHost(os, gui, foreign) == [os |-> os, gui |-> gui, foreign |-> foreign, plugin |-> {"a", "p"}, system |-> {"b"}]
MCHelperCrates == <<"hdmicap", "netbootd">>
MCSetupHosts ==
  { SetupHost("macos", FALSE, FALSE), SetupHost("macos", FALSE, TRUE),
    SetupHost("linux", TRUE, FALSE), SetupHost("linux", FALSE, FALSE) }
ConsoleCase(remote, split, serial, hid, rfb, open, print, ssh, opener, saved) ==
  [remote |-> remote, split |-> split, serial |-> serial, hid |-> hid, rfb |-> rfb, open |-> open,
   print |-> print, ssh |-> ssh, opener |-> opener, file |-> saved]
MCConsoleCases ==
  { ConsoleCase(r, FALSE, s, "here", s, o, p, ssh, op, f) : r, s, o, p, ssh, op, f \in BOOLEAN }
  \cup { ConsoleCase(r, TRUE, TRUE, h, r, FALSE, FALSE, FALSE, TRUE, TRUE) : r \in BOOLEAN, h \in {"none", "elsewhere"} }
  \cup { ConsoleCase(FALSE, FALSE, TRUE, "none", f, FALSE, FALSE, FALSE, TRUE, TRUE) : f \in BOOLEAN }
  \cup { ConsoleCase(TRUE, FALSE, FALSE, "elsewhere", f, FALSE, FALSE, FALSE, TRUE, TRUE) : f \in BOOLEAN }

MCInit ==
  /\ part \in {"life", "lab", "calls", "stream", "setup", "console"}
  /\ LifeInit /\ (part # "life" => which = CHOOSE k \in Kinds : TRUE)
  /\ LabInit /\ (part # "lab" => file = NoFile)
  /\ DispatchInit /\ (part # "calls" => mode = CHOOSE m \in Modes : TRUE)
  /\ IF part = "stream" THEN StreamInit ELSE stream = [kind |-> "none", env |-> << >>, input |-> << >>]
  /\ (machine \in IF part = "setup" THEN SetupHosts ELSE {SetupHost("linux", FALSE, FALSE)})
  /\ SetupInit /\ (part # "setup" => stale = [c \in Crates |-> 0])
  /\ (scene \in IF part = "console" THEN ConsoleCases ELSE {CHOOSE c \in ConsoleCases : TRUE})
  /\ (up \in IF part = "console" THEN [Legs -> {0, 1}] ELSE {[l \in Legs |-> 0]})
  /\ ConsoleInit

MCNext ==
  \/ part = "life" /\ LifeNext /\ UNCHANGED <<part, labVars, callVars, stream, setupVars, consoleVars>>
  \/ part = "lab" /\ LabNext /\ UNCHANGED <<part, lifeVars, callVars, stream, setupVars, consoleVars>>
  \/ part = "calls" /\ CallNext /\ UNCHANGED <<part, lifeVars, labVars, stream, setupVars, consoleVars>>
  \/ part = "setup" /\ SetupNext /\ UNCHANGED <<part, lifeVars, labVars, callVars, stream, consoleVars>>
  \/ part = "console" /\ ConsoleNext /\ UNCHANGED <<part, lifeVars, labVars, callVars, stream, setupVars>>

MCSpec == MCInit /\ [][MCNext]_<<part, lifeVars, labVars, callVars, stream, setupVars, consoleVars>>

\* What a control host is given is what was meant: over overlapping verbs and hand edits the
\* saved lab refers to itself, can be repaired and slices into what its hosts accept, and a
\* command's words come through the remote shell as they were (labfile.rs, model.rs, dispatch.rs).
HostsGetWhatWasMeant ==
  /\ LabTypeOK
  /\ SavedRefersToItself
  /\ ClashIsRepairable
  /\ SliceIsLocal
  /\ ProposalLoads
  /\ WordsSurvive
=============================================================================
