------------------------------ MODULE MCSerial ------------------------------
(***************************************************************************)
(* What serialcap promises about safety: its write side, and the receive   *)
(* journal over a few short segments and two daemon starts.  They share no *)
(* state, so a behaviour is one of theirs, chosen by `part`; the other     *)
(* stays where it begins.                                                  *)
(***************************************************************************)
EXTENDS SerialPort, SerialJournal

CONSTANTS i1, i2, t1, t2, p1

VARIABLES part, crew

\* Who calls: a long input, a paced one, transactions, a button press.
MCSize == [c \in Writers |-> IF c = i1 THEN 3 ELSE IF c = i2 THEN 2 ELSE 1]
MCPaced == {i2}
MCCrews == {{i1, t1, p1}, {i1, i2, p1}, {i1, i2, t1}, {i2, t1, t2}}

MCInit ==
  /\ \/ part = "port" /\ crew \in MCCrews
     \/ part = "journal" /\ crew = {}
  /\ Init /\ JournalInit

\* Callers outside the crew make no call.
PortNext ==
  /\ Next
  /\ \A c \in Writers \ crew : st'[c] = "idle"
  /\ \A p \in Pressers \ crew : pst'[p] = "idle"

MCNext ==
  \/ part = "port" /\ PortNext /\ UNCHANGED <<part, crew, journalVars>>
  \/ part = "journal" /\ JournalNext /\ UNCHANGED <<part, crew, vars>>

MCSpec == MCInit /\ [][MCNext]_<<part, crew, vars, journalVars>>
=============================================================================
