------------------------------- MODULE MCOps -------------------------------
(***************************************************************************)
(* Commands that drive a target: their parts side by side, one per         *)
(* behaviour.                                                              *)
(***************************************************************************)
EXTENDS Hooks, Mcp, Doctor, NetbootHost, Amt, TLC

VARIABLE part

CONSTANTS k1, k2, n1, n2

\* k1's hook runs n1, whose hook runs n2; k2 is another user's.
MCParent == (n1 :> k1) @@ (n2 :> n1)
Does(verb, target, level, needs) == [verb |-> verb, target |-> target, level |-> level, needs |-> needs]
Asks(a, b, c, d) == (k1 :> a) @@ (k2 :> b) @@ (n1 :> c) @@ (n2 :> d)
MCLevels == [default |-> {"cycle", "on", "off", "state"}, hard |-> {"cycle", "off"}, soft |-> {"state"}]
MCBenches ==
  { [job |-> j, levels |-> MCLevels, far |-> f] : f \in BOOLEAN, j \in
    { \* an action that runs another one of its own target, which reads the state; a cycle meanwhile
      Asks(Does("action", "A", "default", "on"), Does("cycle", "A", "default", "any"),
           Does("action", "A", "default", "on"), Does("state", "A", "all", "any")),
      \* hooks that call for each other's targets
      Asks(Does("cycle", "A", "default", "any"), Does("off", "B", "hard", "any"),
           Does("action", "B", "default", "any"), Does("state", "A", "default", "any")),
      Asks(Does("action", "B", "default", "off"), Does("on", "A", "hard", "any"),
           Does("on", "A", "default", "any"), Does("state", "B", "default", "any")) } }

\* What an agent sends, and every shape of a call's values.
MCCall(tool, target, s, n) == [tool |-> tool, target |-> target, s |-> s, n |-> n]
MCAgentLines ==
  { [form |-> f, call |-> NoLine.call] : f \in {"garbage", "batch", "no_method", "notification", "ping", "unknown"} }
  \cup { [form |-> "call", call |-> c] : c \in
         { NoLine.call, [tool |-> "target_list"], MCCall("power_cycle", "plain", "absent", -1),
           MCCall("serial_send", "plain", "dash", 0), MCCall("serial_log", "dash", "absent", -1) } }
MCTools ==
  { "video_shot", "video_read", "serial_status", "serial_wait", "serial_evidence", "serial_log", "serial_send",
    "serial_transact", "hid_send", "action_list", "action_run", "power_state", "power_off", "no_such_tool" }
MCAsked == { MCCall(t, g, s, n) : t \in MCTools, g \in {"plain", "dash", "empty"},
                                  s \in {"plain", "dash", "empty", "absent", "wrong"}, n \in {-1, 0, Limit, Limit + 1} }
MCBytes == UNION { [1..n -> {0, 1, 63, 200, 255}] : n \in 0..4 }

\* Hosts, links, hooks and channels a doctor is asked about.
MCExams ==
  [kind : {"site"}, has : [Dirs -> {"none", "file", "exec"}], far : BOOLEAN, up : BOOLEAN]
  \cup [kind : {"drift"}, holds : SUBSET {"host", "other"}, tool : BOOLEAN, far : BOOLEAN, up : BOOLEAN, died : BOOLEAN,
        iface : {0, 1}, clash : BOOLEAN]
  \cup [kind : {"hook"}, words : { w \o <<"prog">> \o r : w \in {<< >>, <<"assign">>},
          r \in UNION { [1..n -> {"opt", "opt=", "known", "value", "verb", "--", "op"}] : n \in 0..4 } }]
  \cup [kind : {"channel"}, own : {"ok", "missing"}, doctor : BOOLEAN, cmds : UNION { [1..n -> {"a", "b", "c"}] : n \in 0..4 }]

Order(v, t) == [verb |-> v, target |-> t]
\* A host: e0 its primary NIC; A and B may share e1.
LinkHost(os, iface, fault, jobs, serial) ==
  [mac |-> os = "mac", sudo |-> os = "sudo", promote |-> os # "sudo", primary |-> "e0",
   iface |-> iface, ip |-> [A |-> <<1, 1>>, B |-> IF iface["B"] = iface["A"] THEN <<1, 1>> ELSE <<2, 1>>],
   prior |-> [e0 |-> <<(<<3, 7>>)>>, e1 |-> IF fault = "none" THEN <<(<<1, 5>>), (<<4, 1>>)>> ELSE << >>,
              e2 |-> IF os = "linux" /\ iface["B"] = "e2" THEN <<(<<2, 9>>)>> ELSE << >>],
   fault |-> fault, jobs |-> jobs, serial |-> serial]
LinkVerbs == {"start", "stop", "netboot", "link", "ffx", "off", "down"}
Apart == [A |-> "e1", B |-> "e2"]
Shared == [A |-> "e1", B |-> "e1"]
NoSite == LinkHost("linux", Apart, "none", << >>, TRUE)
MCLinkSites ==
  {NoSite} \cup
  \* one after the other: A's link taken, then handed on
  { LinkHost(os, Apart, "none", <<Order(u, "A"), Order(v, "A")>>, TRUE) :
      os \in {"linux", "sudo", "mac"}, u \in {"netboot", "link", "ffx"}, v \in LinkVerbs }
  \cup { LinkHost(os, Shared, "none", <<Order("netboot", "A"), Order(v, "B"), Order(w, "A")>>, TRUE) :
      os \in {"linux", "mac"}, v \in {"start", "link", "off"}, w \in {"stop"} }
  \cup { LinkHost(os, Shared, fault, <<Order("start", "A"), Order(v, t), Order("stop", "A")>>, TRUE) :
      <<os, fault>> \in ({"linux"} \X {"deaf", "stuck", "crash", "recycle", "flap"}) \cup {<<"sudo", "deaf">>, <<"sudo", "stuck">>},
      <<v, t>> \in {<<"start", "B">>, <<"stop", "A">>} }
  \* two at a time
  \cup { LinkHost("linux", [A |-> "e1", B |-> b], fault, <<Order("start", "A"), Order(w, t)>>, FALSE) :
      <<b, fault, t>> \in ({"e0", "e1", "e2"} \X {"none"} \X {"B"}) \cup ({"e1"} \X {"none", "recycle"} \X {"A", "B"}), w \in {"start", "off"} }
  \cup { LinkHost(os, Apart, "none", <<Order("link", "A"), Order(w, "B")>>, FALSE) : os \in {"linux", "sudo", "mac"}, w \in {"netboot", "link"} }
  \* an address given by hand is in the way
  \cup { [LinkHost(os, Shared, "none", <<Order(v, "A")>>, TRUE) EXCEPT !.prior["e1"] = << >>, !.prior["e2"] = <<(<<1, 9>>)>>] :
      os \in {"linux", "mac"}, v \in {"link", "start"} }

\* An AMT engine and what is asked of it.
MCAmtCase(cmd, scheme, flag, password, challenge, rfb, mebx) ==
    [cmd |-> cmd, scheme |-> scheme, flag |-> flag, password |-> password, challenge |-> challenge,
     rfb |-> rfb, mebx |-> mebx, fields |-> {"InstanceID", "EnabledByMEBx", "OptInPolicyTimeout", "RFBPassword", "OptInPolicy"}]
MCAmtCases ==
    {MCAmtCase(c, s, f, p, "auth", "none", TRUE) : c \in {"state", "on", "off", "cycle"}, s \in {"bare"}, f \in BOOLEAN, p \in {"right", "wrong"}}
    \union {MCAmtCase("state", s, f, "right", "auth", "none", TRUE) : s \in {"http", "https"}, f \in BOOLEAN}
    \union {MCAmtCase("state", "https", FALSE, "right", "sha", "none", TRUE)}
    \union {MCAmtCase(c, "bare", FALSE, "right", "legacy", r, m) : c \in {"enable", "disable"}, r \in {"none", "good", "bad"}, m \in BOOLEAN}
MCPowers == {2, 3, 8, 10}

MCInit ==
  /\ part \in {"hooks", "press", "mcp", "argv", "image", "exam", "check", "host", "log", "amt"}
  /\ HooksInit /\ (part # "hooks" => bench = (CHOOSE b \in Benches : TRUE) /\ power = [t \in Boards |-> FALSE])
  /\ IF part = "press" THEN PressInit ELSE press = [ms |-> 0, default |-> "on", hard |-> "on"]
  /\ McpInit
  /\ asked \in IF part = "argv" THEN MCAsked ELSE {MCCall("no_such_tool", "plain", "absent", -1)}
  /\ image \in IF part = "image" THEN Bytes ELSE {<< >>}
  /\ exam \in IF part = "exam" THEN Exams ELSE {[kind |-> "none"]}
  /\ IF part = "check" THEN CheckInit ELSE check = NoCheck
  /\ (site \in IF part = "host" THEN LinkSites ELSE {NoSite}) /\ HostInit
  /\ IF part = "log" THEN FollowInit
     ELSE logPath = 0 /\ logStarts = 0 /\ logLen = << >> /\ follow = [at |-> "ended"]
  /\ amt \in (IF part = "amt" THEN AmtCases ELSE {MCAmtCase("state", "bare", FALSE, "right", "auth", "none", TRUE)})
  /\ AmtInit /\ (part # "amt" => me.power = PsOn /\ ~me.stored)
MCNext ==
  \/ part = "hooks" /\ HooksNext /\ UNCHANGED <<part, press, mcpVars, asked, image, doctorVars, hostVars, followVars, amtVars>>
  \/ part = "check" /\ CheckNext /\ UNCHANGED <<part, press, hookVars, mcpVars, asked, image, hostVars, followVars, amtVars>>
  \/ part = "mcp" /\ McpNext /\ UNCHANGED <<part, press, hookVars, asked, image, doctorVars, hostVars, followVars, amtVars>>
  \/ part = "host" /\ HostNext /\ UNCHANGED <<part, press, hookVars, mcpVars, asked, image, doctorVars, followVars, amtVars>>
  \/ part = "log" /\ FollowNext /\ UNCHANGED <<part, press, hookVars, mcpVars, asked, image, doctorVars, hostVars, amtVars>>
  \/ part = "amt" /\ AmtNext /\ UNCHANGED <<part, press, hookVars, mcpVars, asked, image, doctorVars, hostVars, followVars>>
MCSpec ==
  /\ MCInit /\ [][MCNext]_<<part, hookVars, press, mcpVars, asked, image, doctorVars, hostVars, followVars, amtVars>>
  /\ \A c \in HookCmds : WF_hookVars(part = "hooks" /\ HookStep(c))
  /\ WF_doctorVars(part = "check" /\ CheckStep)
  /\ WF_hostVars(part = "host" /\ \E c \in Jobs : LinkStep(c))
  /\ WF_hostVars(part = "host" /\ \E p \in Procs : DaemonStep(p))
  /\ WF_followVars(part = "log" /\ FollowStep)
  /\ WF_mcpVars(part = "mcp" /\ McpStep)
  /\ WF_amtVars(part = "amt" /\ AmtStep)

\* Every command, request, check and follower gets to its end, whoever waits for whom and whatever
\* a helper or another host does; and a served link gets its address back.
OpsProgress ==
  /\ HookCommandsEnd
  /\ RequestIsAnswered
  /\ CheckIsAnswered
  /\ LinkCommandsEnd
  /\ AddressComesBack
  /\ FollowerArrives
  /\ CommandSpeaks

\* What is asked is what is done, and what is told of it: an agent's calls are answered as
\* themselves and no write is repeated (mcp.rs), netboot commands one after the other leave what
\* they report (netboot.rs), and a helper is asked once, and for a check only (doctor.rs).
DoneAsAsked ==
  /\ AnsweredInOrder
  /\ WriteNotRepeated
  /\ ValueStaysValue
  /\ ImageDecodes
  /\ NothingServesUnrecorded
  /\ SpawnedOnFreeLink
  /\ AssignmentIsWhole
  /\ ModeIsTaken
  /\ CheckRunsNoVerb
  /\ AskedOnce
=============================================================================
