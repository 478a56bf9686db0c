-------------------------------- MODULE Mcp --------------------------------
(***************************************************************************)
(* The MCP server: JSON-RPC lines on stdin, one at a time, each tool call  *)
(* run as a paniolo child whose arguments are made from the caller's       *)
(* values. The agent at the other end may send before it is answered, and  *)
(* repeats a call that failed unless told that its outcome is unknown.     *)
(***************************************************************************)
EXTENDS Integers, Sequences, FiniteSets, SequencesExt

CONSTANTS AgentLines, \* what the agent may send: [form, call]
          MaxSent,   \* bound: lines sent
          Limit,     \* the upper bound of a tool's number
          Bytes      \* byte strings encoded

VARIABLES inbox,    \* lines not read yet: [form, call, id, intent]
          sent,     \* every line sent
          replies,  \* [id, is], in order
          child,    \* the line whose child is running, or NoLine
          acted,    \* per intent: how often a child changed the target
          served,   \* whether stdin is still open
          image,    \* a byte string to encode
          asked     \* a call to make an argv of

mcpVars == <<inbox, sent, replies, child, acted, served>>
NoLine == [form |-> "none", call |-> [tool |-> "none"], id |-> 0, intent |-> 0]

(***************************************************************************)
(* A tool call's argv. A string of the caller's is "plain", "dash" (it     *)
(* starts with -), "empty", "absent" or "wrong" (another JSON type); a     *)
(* number is one, -1 when absent.                                          *)
(***************************************************************************)
Verb(t) == <<[k |-> "verb", v |-> t]>>
Opt(v) == <<[k |-> "opt", v |-> "-"], [k |-> "val", v |-> v]>>
Num(n) == IF n = -1 THEN << >> ELSE Opt("plain")
Sep == <<[k |-> "sep", v |-> "--"]>>
Value(v) == <<[k |-> "val", v |-> v]>>
Refuse == [ok |-> FALSE, argv |-> << >>, writes |-> FALSE]
ReadCall(argv) == [ok |-> TRUE, argv |-> argv, writes |-> FALSE]
WriteCall(argv) == [ok |-> TRUE, argv |-> argv, writes |-> TRUE]

\* Args: typed access; a missing target, another type or a number past its bound is refused.
Target(c) == c.target \in {"plain", "dash"}
OptStr(v) == v # "wrong"
OptU64(n, max) == n <= max
MaybeOpt(v) == IF v = "absent" THEN << >> ELSE Opt(v)

VideoRead(c) == IF Target(c) /\ OptU64(c.n, Limit) THEN ReadCall(Verb("video read") \o Opt(c.target) \o Opt("plain")) ELSE Refuse
SerialStatus(c) == IF Target(c) /\ OptStr(c.s) THEN ReadCall(Verb("serial status") \o Opt(c.target) \o MaybeOpt(c.s)) ELSE Refuse
\* s is the epoch, n a cap of at least 1.
SerialWait(c) ==
  IF c.s \in {"plain", "dash"} /\ Target(c) /\ OptU64(c.n, Limit) /\ c.n # 0
  THEN ReadCall(Verb("serial wait") \o Opt(c.target) \o Opt(c.s) \o Num(c.n)) ELSE Refuse
\* s is the epoch, n since.
SerialEvidence(c) ==
  IF Target(c) /\ OptStr(c.s) /\ (c.n # -1 => c.s # "absent")
  THEN ReadCall(Verb("serial evidence") \o Opt(c.target) \o MaybeOpt(c.s) \o Num(c.n)) ELSE Refuse
SerialLog(c) ==
  IF Target(c) /\ OptStr(c.s) /\ OptU64(c.n, Limit)
  THEN ReadCall(Verb("serial log") \o Opt(c.target) \o MaybeOpt(c.s) \o Num(c.n)) ELSE Refuse
SerialSend(c) ==
  IF Target(c) /\ c.s \notin {"absent", "wrong"} /\ OptU64(c.n, Limit)
  THEN WriteCall(Verb("serial send") \o Opt(c.target) \o Num(c.n) \o Sep \o Value(c.s)) ELSE Refuse
\* s is the text; until is plain.
SerialTransact(c) ==
  IF Target(c) /\ c.s \notin {"absent", "wrong"} /\ OptU64(c.n, Limit) /\ c.n # 0
  THEN WriteCall(Verb("serial transact") \o Opt(c.target) \o Opt("plain") \o Num(c.n) \o Sep \o Value(c.s)) ELSE Refuse
\* s is the first word; a second one follows it.
HidSend(c) ==
  IF Target(c) /\ c.s = "plain" THEN WriteCall(Verb("hid send") \o Opt(c.target) \o Value(c.s) \o Value("dash")) ELSE Refuse
ActionList(c) == IF Target(c) THEN ReadCall(Verb("action list") \o Opt(c.target)) ELSE Refuse
ActionRun(c) == IF Target(c) /\ c.s = "plain" THEN WriteCall(Verb("action run") \o Opt(c.target) \o Sep \o Value(c.s)) ELSE Refuse
\* s is the level.
PowerTool(c) ==
  IF ~Target(c) \/ c.s \in {"dash", "empty", "wrong"} THEN Refuse
  ELSE LET argv == Verb(c.tool) \o Opt(c.target) \o MaybeOpt(c.s)
       IN IF c.tool = "power_state" THEN ReadCall(argv) ELSE WriteCall(argv)
\* ShotRequest: s is changed_since, n the timeout.
VideoShot(c) ==
  IF Target(c) /\ OptStr(c.s) /\ OptU64(c.n, Limit)
  THEN ReadCall(Verb("video shot") \o Opt(c.target) \o Opt("plain") \o Opt("plain") \o MaybeOpt(c.s)) ELSE Refuse

CallTool(c) ==
  CASE c.tool = "video_shot" -> VideoShot(c)
    [] c.tool = "video_read" -> VideoRead(c)
    [] c.tool = "serial_status" -> SerialStatus(c)
    [] c.tool = "serial_wait" -> SerialWait(c)
    [] c.tool = "serial_evidence" -> SerialEvidence(c)
    [] c.tool = "serial_log" -> SerialLog(c)
    [] c.tool = "serial_send" -> SerialSend(c)
    [] c.tool = "serial_transact" -> SerialTransact(c)
    [] c.tool = "hid_send" -> HidSend(c)
    [] c.tool = "action_list" -> ActionList(c)
    [] c.tool = "action_run" -> ActionRun(c)
    [] c.tool \in {"power_state", "power_on", "power_off", "power_cycle"} -> PowerTool(c)
    [] OTHER -> Refuse

\* How the child's own parser reads an argv: a value that starts with - is refused after an
\* option, taken as it is after --, or among hid send's words; elsewhere it is an option.
ClapReads(argv) ==
  LET step(st, w) ==
        CASE st \in {"rest", "usage", "injected"} -> st
          [] st = "value" -> IF w.v = "dash" THEN "usage" ELSE "free"
          [] w.k = "opt" -> "value"
          [] w.k = "sep" -> "rest"
          [] w.k = "verb" -> "free"
          [] w.k = "val" /\ w.v = "dash" -> "injected"
          [] OTHER -> IF argv[1].v = "hid send" THEN "rest" ELSE "free"
  IN FoldLeft(step, "free", argv)

(***************************************************************************)
(* The server.                                                             *)
(***************************************************************************)
McpInit ==
  /\ inbox = << >> /\ sent = << >> /\ replies = << >> /\ child = NoLine
  /\ acted = [i \in 1..MaxSent |-> 0] /\ served = TRUE

\* handle: what is answered without a child; "none" for no answer, "child" for a tool.
Handle(l) ==
  CASE l.form = "garbage" -> "parse_error"
    [] l.form \in {"batch", "no_method"} -> "invalid_request"
    [] l.form = "notification" -> "none"
    [] l.form \in {"initialize", "ping", "list"} -> "result"
    [] l.form = "unknown" -> "method_not_found"
    [] l.form = "call" /\ l.call.tool = "target_list" -> "result"
    [] l.form = "call" -> IF CallTool(l.call).ok THEN "child" ELSE "invalid_params"
\* A line that is no object has no id to answer.
IdOf(l) == IF l.form \in {"garbage", "batch"} THEN 0 ELSE l.id
GoesOn(l) == TRUE
RunLine ==
  /\ served /\ child = NoLine /\ inbox # << >> /\ GoesOn(Head(inbox)) /\ inbox' = Tail(inbox)
  /\ LET l == Head(inbox) IN
     \/ Handle(l) = "child" /\ child' = l /\ UNCHANGED replies
     \/ Handle(l) = "none" /\ UNCHANGED <<child, replies>>
     \/ Handle(l) \notin {"child", "none"} /\ replies' = Append(replies, [id |-> IdOf(l), is |-> Handle(l)]) /\ UNCHANGED child
  /\ UNCHANGED <<sent, acted, served>>

\* The child: its exit, and whether it changed the target. No answer in time, or no
\* connection to the host it runs on, leaves that open.
Outcomes == {<<0, TRUE>>, <<2, FALSE>>, <<100, FALSE>>, <<4, TRUE>>, <<4, FALSE>>, <<22, TRUE>>, <<22, FALSE>>}
UnknownTimeoutOnly(writes, code) == writes /\ code = 22
Unknown(writes, code) == writes /\ code \in {4, 22}
\* run_cli_tool, video_shot: an error result, with the outcome unknown where it is.
RunCliTool(c, code) ==
  IF code = 0 THEN "result" ELSE IF Unknown(CallTool(c).writes, code) THEN "unknown" ELSE "failed"
ChildLeavesStdin == UNCHANGED inbox
ChildEnds ==
  /\ child # NoLine /\ ChildLeavesStdin
  /\ \E o \in Outcomes :
       /\ ClapReads(CallTool(child.call).argv) = "usage" => o[1] = 2
       /\ replies' = Append(replies, [id |-> child.id, is |-> RunCliTool(child.call, o[1])])
       /\ acted' = [acted EXCEPT ![child.intent] = @ + IF CallTool(child.call).writes /\ o[2] THEN 1 ELSE 0]
  /\ child' = NoLine /\ UNCHANGED <<sent, served>>
\* stdin closes; what was sent is read before that is seen.
StdinCloses == served /\ inbox = << >> /\ child = NoLine /\ Len(sent) = MaxSent /\ served' = FALSE /\ UNCHANGED <<inbox, sent, replies, child, acted>>

\* The agent.
Says(line, intent) ==
  LET l == [form |-> line.form, call |-> line.call, id |-> Len(sent) + 1, intent |-> intent]
  IN sent' = Append(sent, l) /\ inbox' = Append(inbox, l) /\ UNCHANGED <<replies, child, acted, served>>
AgentSends == Len(sent) < MaxSent /\ \E line \in AgentLines : Says(line, Len(sent) + 1)
AgentRepeats ==
  /\ Len(sent) < MaxSent /\ replies # << >>
  /\ LET r == replies[Len(replies)] IN
       /\ r.is = "failed" /\ r.id \in DOMAIN sent
       /\ \A i \in DOMAIN sent : i > r.id => sent[i].intent # sent[r.id].intent
       /\ Says(sent[r.id], sent[r.id].intent)

McpNext == RunLine \/ ChildEnds \/ StdinCloses \/ AgentSends \/ AgentRepeats
\* A line that is there is read; a child ends.
McpStep == RunLine \/ ChildEnds

(***************************************************************************)
(* An image is sent as base64.                                             *)
(***************************************************************************)
Chunk(data, i) == SubSeq(data, 3 * i + 1, IF Len(data) < 3 * i + 3 THEN Len(data) ELSE 3 * i + 3)
ByteAt(s, i) == IF i <= Len(s) THEN s[i] ELSE 0
Pad == 0
Sextets(c) ==
  LET n == ByteAt(c, 1) * 65536 + ByteAt(c, 2) * 256 + ByteAt(c, 3)
  IN [i \in 1..4 |-> IF i - 1 <= Len(c) + Pad THEN (n \div (64^(4 - i))) % 64 ELSE 64]
Base64(data) == FlattenSeq([j \in 1..((Len(data) + 2) \div 3) |-> Sextets(Chunk(data, j - 1))])
\* As RFC 4648 reads it.
Decoded(s) ==
  LET bits == FlattenSeq([i \in 1..Len(SelectSeq(s, LAMBDA x : x < 64)) |-> [b \in 1..6 |-> (s[i] \div (2^(6 - b))) % 2]])
  IN [k \in 1..(Len(bits) \div 8) |-> FoldLeft(LAMBDA acc, b : 2 * acc + b, 0, SubSeq(bits, 8 * k - 7, 8 * k))]

(***************************************************************************)
(* What the server promises.                                               *)
(***************************************************************************)
\* Requests are answered in the order they came, each once, and notifications not at all,
\* whatever the agent sends while a child runs.
Answerable(ls) == SelectSeq(ls, LAMBDA l : l.form # "notification")
ReadSoFar(ls) == SubSeq(ls, 1, Len(ls) - Len(inbox) - IF child = NoLine THEN 0 ELSE 1)
AnsweredInOrder == [i \in DOMAIN replies |-> replies[i].id] = [i \in DOMAIN Answerable(ReadSoFar(sent)) |-> IdOf(Answerable(ReadSoFar(sent))[i])]

\* An agent that repeats what failed, but not what it was told may have run, never changes
\* the target twice.
WriteNotRepeated == \A i \in DOMAIN acted : acted[i] <= 1

\* No value of the caller's is read as an option by the command it is given to.
ValueStaysValue == ClapReads(CallTool(asked).argv) # "injected"

\* Every request is answered.
RequestIsAnswered == (inbox # << >> \/ child # NoLine) ~> (inbox = << >> /\ child = NoLine)

\* What is sent is what was captured, at every length.
ImageDecodes == Decoded(Base64(image)) = image /\ (Len(Base64(image)) % 4) = 0
=============================================================================
