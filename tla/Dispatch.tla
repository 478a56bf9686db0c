------------------------------ MODULE Dispatch ------------------------------
(***************************************************************************)
(* Running a command on the control host a channel is wired to: a slice of *)
(* the lab is shipped, the command is run there over ssh with its stdin,   *)
(* its output may be captured into a local file, the slice is removed.     *)
(* Several commands share the control host and a local directory.          *)
(***************************************************************************)
EXTENDS Integers, Sequences, FiniteSets, SequencesExt

CONSTANTS Calls,     \* commands dispatched
          Modes,     \* functions: call -> "reexec", "interactive", "captured" or "to_file"
          StaleAge,  \* STALE_CAPTURE_AGE, in ticks of the clock
          RunsFor,   \* how long a remote command runs at most, in the same ticks
          MaxAge,    \* bound: how old a leftover gets
          Envs,      \* what AMT_PASSWORD may be: sequences of lines
          Inputs,    \* what stdin may hold: sequences of lines
          Words      \* words a command line may hold: sequences of characters

ASSUME DispatchAssumption ==
  /\ {StaleAge, RunsFor, MaxAge} \subseteq Nat /\ RunsFor < StaleAge /\ StaleAge <= MaxAge
  /\ \A v \in Envs \cup Inputs : v \in Seq(ToSet(v))

VARIABLES mode,    \* per command: how it is dispatched; fixed
          call,    \* per command: where it is
          slices,  \* the control host's directory: file name -> whose slice
          temps,   \* the local directory's capture files: [of, age, part]
          out,     \* the file captured into: whose output, and whether all of it
          net,     \* whether the control host can be reached
          stream   \* a case of the stdin protocol or of quoting

callVars == <<mode, call, slices, temps, out, net>>

NotConfigured == 3
Unreachable == 4
Internal == 109
TransportFailure == 255

Fresh == [at |-> "ship", read |-> "none", code |-> -1, exit |-> -1, did |-> FALSE, age |-> 0]
DispatchInit ==
  /\ mode \in Modes /\ call = [c \in Calls |-> Fresh] /\ slices = [n \in {} |-> "none"] /\ temps = {}
  /\ out = [of |-> "before", whole |-> TRUE] /\ net = "up"

CallGoes(c, to) == call' = [call EXCEPT ![c].at = to]
Ends(c, code) == call' = [call EXCEPT ![c].at = "ended", ![c].exit = code]

\* ship_slice: a name of its own, by pid and time.
NameShared(c) == "slice"
Name(c) == c
Ship(c) ==
  /\ call[c].at = "ship"
  /\ \/ /\ net = "up" /\ slices' = [n \in DOMAIN slices \cup {Name(c)} |-> IF n = Name(c) THEN c ELSE slices[n]]
        /\ CallGoes(c, "env")
     \/ net = "down" /\ Ends(c, Unreachable) /\ UNCHANGED slices
     \/ Ends(c, NotConfigured) /\ UNCHANGED slices  \* no sftp
  /\ UNCHANGED <<temps, out, net>>
\* forwarded_env: a password that cannot be forwarded ends the command.
Environment(c) ==
  /\ call[c].at = "env"
  /\ \/ CallGoes(c, IF mode[c] = "to_file" THEN "temp" ELSE "start")
     \/ mode[c] # "interactive" /\ Ends(c, Internal)
  /\ UNCHANGED <<slices, temps, out, net>>

Swept == { t \in temps : t.age <= StaleAge }
MakeTemp(c) ==
  /\ call[c].at = "temp"
  /\ temps' = Swept \cup {[of |-> c, age |-> 0, part |-> FALSE]}
  /\ CallGoes(c, "start") /\ UNCHANGED <<slices, out, net>>

\* The remote paniolo starts on its slice; ssh without a connection is 255.
Start(c) ==
  /\ call[c].at = "start"
  /\ \/ /\ net = "up" /\ Name(c) \in DOMAIN slices
        /\ call' = [call EXCEPT ![c].at = "running", ![c].read = slices[Name(c)]]
     \/ /\ net = "up" /\ Name(c) \notin DOMAIN slices
        /\ call' = [call EXCEPT ![c].at = "clean", ![c].code = NotConfigured]
     \/ net = "down" /\ call' = [call EXCEPT ![c].at = "clean", ![c].code = TransportFailure]
  /\ UNCHANGED <<slices, temps, out, net>>
\* No ssh to start: two of the four leave before they remove the slice.
SshFails(c) ==
  /\ call[c].at = "start"
  /\ IF mode[c] \in {"reexec", "interactive"} THEN Ends(c, Internal)
     ELSE call' = [call EXCEPT ![c].at = "clean", ![c].code = Internal]
  /\ UNCHANGED <<slices, temps, out, net>>
\* It ends with a code of its own, having acted or not; or the connection goes first and
\* what it does is not known here.
OwnTemp(c, part) == { IF t.of = c THEN [t EXCEPT !.part = part] ELSE t : t \in temps }
RemoteEnds(c) ==
  /\ call[c].at = "running" /\ net = "up"
  /\ \E code \in {0, 101} :
       call' = [call EXCEPT ![c].at = "clean", ![c].code = code, ![c].did = (code = 0)]
  /\ temps' = OwnTemp(c, call'[c].code # 0) /\ UNCHANGED <<slices, out, net>>
Severed(c) ==
  /\ call[c].at = "running" /\ net = "down"
  /\ \E did \in BOOLEAN : call' = [call EXCEPT ![c].at = "clean", ![c].code = TransportFailure, ![c].did = did]
  /\ temps' = OwnTemp(c, TRUE) /\ UNCHANGED <<slices, out, net>>

Persists(code) == code = 0
Mine(c) == { t \in temps : t.of = c }
Captures(c) ==
  /\ temps' = temps \ Mine(c)
  /\ out' = IF mode[c] = "to_file" /\ Persists(call[c].code) /\ Mine(c) # {}
            THEN [of |-> c, whole |-> \A t \in Mine(c) : ~t.part] ELSE out
TransportChecked(code) == IF code = TransportFailure THEN Unreachable ELSE code
SavingFails(c) == mode[c] = "to_file" /\ call[c].code = 0 /\ Mine(c) = {}
CleanUp(c) ==
  /\ call[c].at = "clean" /\ Captures(c)
  /\ slices' = IF net = "up" THEN [n \in DOMAIN slices \ {Name(c)} |-> slices[n]] ELSE slices
  /\ Ends(c, IF SavingFails(c) THEN Internal ELSE TransportChecked(call[c].code)) /\ UNCHANGED net

\* The user interrupts it: no destructor runs.
Interrupted(c) ==
  /\ call[c].at \notin {"ended", "killed"} /\ CallGoes(c, "killed") /\ UNCHANGED <<slices, temps, out, net>>
NetChanges == net' = (IF net = "up" THEN "down" ELSE "up") /\ UNCHANGED <<call, slices, temps, out>>
\* Time: a capture runs for a while at most; leftovers grow old.
Running == { c \in Calls : call[c].at \in {"start", "running", "clean"} }
TimePasses ==
  /\ \A c \in Running : call[c].age < RunsFor
  /\ temps' = { [t EXCEPT !.age = IF @ < MaxAge THEN @ + 1 ELSE @] : t \in temps }
  /\ call' = [c \in Calls |-> IF c \in Running THEN [call[c] EXCEPT !.age = @ + 1] ELSE call[c]]
  /\ UNCHANGED <<slices, out, net>>

CallNext ==
  /\ \/ NetChanges \/ TimePasses
     \/ \E c \in Calls : Ship(c) \/ Environment(c) \/ MakeTemp(c) \/ Start(c) \/ SshFails(c) \/ RemoteEnds(c)
                         \/ Severed(c) \/ CleanUp(c) \/ Interrupted(c)
  /\ UNCHANGED mode

(***************************************************************************)
(* What is forwarded: the password's lines, then stdin; quoted words.      *)
(***************************************************************************)
Forwards(v) == Len(v) = 1
Wire(v, input) == v \o input
PreludeReads(wire) == [env |-> SubSeq(wire, 1, 1), rest |-> SubSeq(wire, 2, Len(wire))]

\* shell_quote, of characters: safe ones, the quote, and the rest; "\q" is an escaped quote.
Safe(w) == w # << >> /\ ToSet(w) \subseteq {"a", "-"}
Quote(w) ==
  IF Safe(w) THEN w
  ELSE <<"'">> \o FlattenSeq([i \in DOMAIN w |-> IF w[i] = "'" THEN <<"'", "\\q", "'">> ELSE <<w[i]>>]) \o <<"'">>
\* The remote shell: quotes open and close; unquoted, a space ends the word and $ expands.
ShellReads(s) ==
  LET step(acc, ch) ==
        IF ch = "'" THEN [acc EXCEPT !.open = ~@]
        ELSE IF acc.open THEN [acc EXCEPT !.w = Append(@, IF ch = "\\q" THEN "?" ELSE ch)]
        ELSE IF ch = "\\q" THEN [acc EXCEPT !.w = Append(@, "'")]
        ELSE IF ch \in {" ", "$"} THEN [acc EXCEPT !.w = Append(@, "?")]
        ELSE [acc EXCEPT !.w = Append(@, ch)]
      r == FoldLeft(step, [w |-> << >>, open |-> FALSE], s)
  IN IF r.open \/ s = << >> THEN <<"?">> ELSE r.w

StreamInit ==
  \/ stream \in [kind : {"env"}, env : Envs, input : Inputs]
  \/ stream \in [kind : {"word"}, env : Words, input : {<< >>}]

DispatchSpec ==
  DispatchInit /\ StreamInit /\ [][CallNext /\ UNCHANGED stream]_<<callVars, stream>>

(***************************************************************************)
(* What dispatching promises.                                              *)
(***************************************************************************)
DispatchTypeOK ==
  /\ DOMAIN slices \subseteq Calls /\ \A t \in temps : t.of \in Calls /\ t.age \in 0..MaxAge
  /\ net \in {"up", "down"} /\ out.of \in Calls \cup {"before"}
  /\ \A c \in Calls : call[c].exit \in {-1, 0, NotConfigured, Unreachable, 101, Internal}

\* Two dispatches to one host at once: each runs on the slice it shipped.
ReadsOwnSlice == \A c \in Calls : call[c].read \in {"none", c}

\* The file captured into holds an earlier copy or one whole capture, never a part.
OutputIsWhole == out.whole

\* The sweep takes what an interrupted capture left long ago, never the file of one under way.
CaptureIsKept == \A c \in Running : mode[c] = "to_file" => Mine(c) # {}

\* A command is reported done only when it was, and reported failed with its own code only
\* when the remote said so; when the connection went first, the exit says so.
ExitIsTrue ==
  \A c \in Calls :
    /\ call[c].exit = 0 => call[c].did
    /\ call[c].exit = 101 => ~call[c].did
    /\ call[c].did /\ call[c].exit > 0 => call[c].exit = Unreachable \/ SavingFails(c)

\* The command reads the stdin that was meant for it, the password never part of it.
StdinArrives ==
  (stream.kind = "env" /\ Forwards(stream.env)) =>
    LET r == PreludeReads(Wire(stream.env, stream.input)) IN r.env = stream.env /\ r.rest = stream.input
\* The remote shell reads the word that was given here.
WordsSurvive == stream.kind = "word" => ShellReads(Quote(stream.env)) = stream.env

\* A command run over ssh is the one asked for, on its own slice and stdin, and its output and
\* exit are its own, over interruptions and dispatches side by side (dispatch.rs, ssh.rs).
DispatchIsTrue ==
  /\ DispatchTypeOK
  /\ ReadsOwnSlice
  /\ OutputIsWhole
  /\ CaptureIsKept
  /\ ExitIsTrue
  /\ StdinArrives
=============================================================================
