-------------------------- MODULE MCSerialCapture --------------------------
(***************************************************************************)
(* The consumers of one interface's capture: the bounded wait, the line    *)
(* log with its reader, and the text the reader prints.  They share no     *)
(* state, so a behaviour is one of theirs, chosen by `part`; the others    *)
(* stay where they begin.                                                  *)
(***************************************************************************)
EXTENDS SerialWait, LineLog

VARIABLE part

UntilLine == <<"a", "n">>
LastOf1999 == <<1999, 12, 31>>

MCInit == part \in {"wait", "log", "text"} /\ WaitInit /\ LogInit /\ TextInit

MCNext ==
  \/ part = "wait" /\ WaitNext /\ UNCHANGED <<part, logVars, textVars>>
  \/ part = "log" /\ LogNext /\ UNCHANGED <<part, waitVars, textVars>>
  \/ part = "text" /\ TextNext /\ UNCHANGED <<part, waitVars, logVars>>

\* The wait's loop and the clock go on; so does the capture thread.
MCSpec ==
  /\ MCInit /\ [][MCNext]_<<part, waitVars, logVars, textVars>>
  /\ WF_waitVars(part = "wait" /\ Acquire)
  /\ WF_waitVars(part = "wait" /\ Tick)
  /\ WF_logVars(part = "log" /\ Thread)

\* Over forced flushes, rotations, kills and restarts, the line log holds the text received, its
\* numbers name one line each, a reader gets them ascending, and the text and the date printed
\* for a line are the line's and the calendar's (serialcap capture.rs, cli logs).
LogIsFaithful ==
  /\ LogTypeOK
  /\ TextConserved
  /\ CharacterKept
  /\ SeqNotReused
  /\ RetentionIsSuffix
  /\ ReadAscends
  /\ QuietReadIsComplete
  /\ StripLeavesText
  /\ CivilIsCalendar

\* Every wait ends and every unfinished line is mirrored, whatever stops arriving.
CaptureProgress ==
  /\ WaitEnds
  /\ SidecarCatchesUp
=============================================================================
