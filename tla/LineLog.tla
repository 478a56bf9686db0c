------------------------------- MODULE LineLog ------------------------------
(***************************************************************************)
(* The line log of one serial interface (serialcap/src/capture.rs): the    *)
(* capture thread assembles received bytes into numbered lines, appends    *)
(* them to a rotated log and mirrors the unfinished line to a sidecar;     *)
(* `serialcap log` reads the files, one after the other, while the thread  *)
(* appends and renames them.  The daemon may be killed between any two     *)
(* file operations, and within an append.                                  *)
(*                                                                         *)
(* Bytes are kept as what the code tells apart: a newline, a carriage      *)
(* return, the first and the second byte of a two-byte character, and      *)
(* anything else.                                                          *)
(***************************************************************************)
EXTENDS Integers, Sequences, FiniteSets, SequencesExt

CONSTANTS
  LogBytes,    \* the byte classes fed: a subset of Classes
  MaxPending,  \* MAX_PENDING
  MaxSegments, \* MAX_SEGMENTS
  SegLines,    \* LineLog.seg_lines
  ChunkLens,   \* lengths of a received chunk
  MaxFed,      \* bound on the bytes taken
  MaxFaults    \* bound on stops, kills and failed writes together

Classes == {"x", "cr", "nl", "lead", "cont"}

ASSUME LogAssumption ==
  /\ LogBytes \subseteq Classes
  /\ MaxPending \in Nat /\ MaxPending >= 2
  /\ MaxSegments \in Nat /\ MaxSegments >= 2
  /\ SegLines \in Nat \ {0}
  /\ ChunkLens \subseteq Nat \ {0}
  /\ MaxFed \in Nat /\ MaxFaults \in Nat

Index == 0..(MaxSegments - 1)   \* 0 is serial.jsonl, k is serial.jsonl.k

VARIABLES
  file,     \* file[k]: segment k exists, its lines, and whether its end is torn
  side,     \* pending.json: the line number and bytes it shows, or NoSide
  tpc,      \* where the capture thread is
  rot,      \* the rename of rotate that is next
  nextSeq,  \* LineLog.next_seq
  active,   \* LineLog.active_lines
  unended,  \* LineLog.pending
  dirty,    \* LineLog.sidecar_dirty
  input,    \* the rest of the chunk being ingested
  fed,      \* history: the bytes of the last line committed and all after it
  kept,     \* history: the text of the last line committed, with its end
  logged,   \* bytes taken so far
  wrote,    \* history: the lines wholly on disk at some time
  faults,   \* stops, kills and failed writes so far
  rpos,     \* the segment a reader reads next, or one of the positions below
  racc,     \* what it has read, line numbers in the order read
  rpart,    \* the partial line it folded in, -1 for none
  owed,     \* history: the lines on disk when it began
  moved,    \* history: a rotation step since it began
  printed   \* history: the highest line any reader was shown, -1 for none

writerVars == <<tpc, rot, nextSeq, active, unended, dirty, input, fed, kept, logged>>
readerVars == <<rpos, racc, rpart, owed, moved, printed>>
logVars == <<file, side, writerVars, wrote, faults, readerVars>>

\* The reader is at the sidecar, has finished, or does not run.
AtPending == -1
AtEnd == -2
NoRead == -3

NoSide == [seq |-> -1, text |-> <<>>]
Missing == [there |-> FALSE, lines |-> <<>>, torn |-> FALSE]

InFile(k) == {file[k].lines[i] : i \in DOMAIN file[k].lines}
OnDisk == UNION {InFile(k) : k \in Index}
Highest(S) == CHOOSE n \in S : \A m \in S : m <= n

LogTypeOK ==
  /\ file \in [Index -> [there : BOOLEAN, lines : Seq(Nat), torn : BOOLEAN]]
  /\ side \in [seq : Nat \cup {-1}, text : Seq(Classes)]
  /\ tpc \in {"off", "idle", "ingest", "rotate"}
  /\ rot \in Index
  /\ nextSeq \in Nat /\ active \in Nat
  /\ unended \in Seq(Classes) /\ Len(unended) < MaxPending
  /\ dirty \in BOOLEAN
  /\ input \in Seq(Classes)
  /\ faults \in 0..MaxFaults
  /\ rpos \in Index \cup {AtPending, AtEnd, NoRead}
  /\ racc \in Seq(Nat)
  /\ rpart \in Nat \cup {-1} /\ printed \in Nat \cup {-1}

LogInit ==
  /\ file = [k \in Index |-> Missing]
  /\ side = NoSide
  /\ tpc = "off" /\ rot = 0 /\ nextSeq = 0 /\ active = 0
  /\ unended = <<>> /\ dirty = FALSE /\ input = <<>> /\ fed = <<>> /\ kept = <<>>
  /\ logged = 0
  /\ wrote = {} /\ faults = 0
  /\ rpos = NoRead /\ racc = <<>> /\ rpart = -1 /\ owed = {} /\ moved = FALSE
  /\ printed = -1

-----------------------------------------------------------------------------
(***************************************************************************)
(* The writer.                                                             *)
(***************************************************************************)

\* Mutant: only the active segment is looked at.
RecoverActive == IF InFile(0) = {} THEN 0 ELSE Highest(InFile(0)) + 1

\* recover_next_seq: after the highest line of any segment.
RecoverNextSeq == IF OnDisk = {} THEN 0 ELSE Highest(OnDisk) + 1

\* open_private_append on the active segment.
Opened(f) == [f EXCEPT ![0].there = TRUE]

\* LineLog::open: resume the numbers, count the active segment's lines, and
\* drop a sidecar left by the run before.
OpenLog ==
  /\ tpc = "off"
  /\ tpc' = "idle"
  /\ nextSeq' = RecoverNextSeq
  /\ active' = Len(file[0].lines)
  /\ side' = NoSide
  /\ unended' = <<>> /\ dirty' = FALSE /\ input' = <<>> /\ fed' = <<>> /\ kept' = <<>>
  /\ file' = Opened(file)
  /\ UNCHANGED <<rot, logged, wrote, faults, readerVars>>

\* The capture thread takes a chunk.
TakeChunk(c) ==
  /\ tpc = "idle"
  /\ logged + Len(c) <= MaxFed
  /\ input' = c
  /\ tpc' = "ingest"
  /\ UNCHANGED <<file, side, rot, nextSeq, active, unended, dirty, fed, kept, logged, wrote,
                 faults, readerVars>>

\* from_utf8 fails first at i, the start of no character.
Invalid(s, i) ==
  \/ s[i] = "cont" /\ (i = 1 \/ s[i - 1] # "lead")
  \/ s[i] = "lead" /\ i < Len(s) /\ s[i + 1] # "cont"

\* utf8_floor_boundary: the whole text, but for a character cut short at its
\* end; a text that is invalid before its end is taken whole.
Utf8FloorBoundary(s) ==
  IF s[Len(s)] = "lead" /\ \A i \in DOMAIN s : ~Invalid(s, i)
  THEN Len(s) - 1 ELSE Len(s)

\* What a forced flush of n bytes leaves pending.
Cut(s, n) == SubSeq(s, n + 1, Len(s))

\* What the next byte makes of the pending text: the text of a line it
\* completes (a newline, or the cap), with what ended it, and the rest.
Assembled(b) ==
  LET s == Append(unended, b)
      n == Utf8FloorBoundary(s)
      l == Len(unended)
  IN IF b = "nl" /\ l > 0 /\ unended[l] = "cr"
     THEN [line |-> TRUE, text |-> SubSeq(unended, 1, l - 1), end |-> <<"cr", "nl">>,
           rest |-> <<>>]
     ELSE IF b = "nl"
     THEN [line |-> TRUE, text |-> unended, end |-> <<"nl">>, rest |-> <<>>]
     ELSE IF Len(s) >= MaxPending
     THEN [line |-> TRUE, text |-> SubSeq(s, 1, n), end |-> <<>>, rest |-> Cut(s, n)]
     ELSE [line |-> FALSE, text |-> <<>>, end |-> <<>>, rest |-> s]

\* Segment 0 after the record of line n was written: after a torn end the
\* record shares its line, and neither can be parsed.
Appended(n) ==
  IF file[0].torn THEN [file[0] EXCEPT !.torn = FALSE]
  ELSE [file[0] EXCEPT !.lines = Append(@, n)]

\* One byte of ingest, with the commit of a line it completes: the line's
\* number is used up whether or not the write succeeds, and a full segment
\* is rotated.
IngestByte ==
  /\ tpc = "ingest" /\ input # <<>>
  /\ LET r == Assembled(Head(input)) IN
     /\ unended' = r.rest
     /\ fed' = Append(IF r.line THEN unended ELSE fed, Head(input))
     /\ kept' = IF r.line THEN r.text \o r.end ELSE kept
     /\ logged' = logged + 1
     /\ input' = Tail(input)
     /\ IF ~r.line
        THEN UNCHANGED <<file, nextSeq, active, tpc, rot, wrote, faults>>
        ELSE /\ nextSeq' = nextSeq + 1
             /\ \/ /\ file' = [file EXCEPT ![0] = Appended(nextSeq)]
                   /\ wrote' = wrote \cup (IF file[0].torn THEN {} ELSE {nextSeq})
                   /\ active' = active + 1
                   /\ UNCHANGED faults
                \/ /\ faults < MaxFaults
                   /\ faults' = faults + 1
                   /\ \E t \in {file[0].torn, TRUE} :
                        file' = [file EXCEPT ![0].torn = t]
                   /\ UNCHANGED <<active, wrote>>
             /\ IF active' >= SegLines
                THEN tpc' = "rotate" /\ rot' = MaxSegments - 1
                ELSE UNCHANGED <<tpc, rot>>
  /\ UNCHANGED <<side, dirty, readerVars>>

\* One step of rotate: remove the oldest, rename k - 1 to k from the oldest
\* down; after the active segment was renamed a fresh one is opened.
RotateStep ==
  /\ tpc = "rotate"
  /\ LET f == IF rot = MaxSegments - 1 THEN [file EXCEPT ![rot] = Missing] ELSE file
         g == IF f[rot - 1].there
              THEN [f EXCEPT ![rot] = f[rot - 1], ![rot - 1] = Missing] ELSE f
     IN file' = IF rot = 1 THEN Opened(g) ELSE g
  /\ IF rot = 1
     THEN tpc' = "ingest" /\ active' = 0 /\ rot' = 0
     ELSE rot' = rot - 1 /\ UNCHANGED <<tpc, active>>
  /\ moved' = TRUE
  /\ UNCHANGED <<side, nextSeq, unended, dirty, input, fed, kept, logged, wrote, faults, rpos,
                 racc, rpart, owed, printed>>

\* write_pending_sidecar: mirror the unfinished line, or remove the sidecar.
Mirror == IF unended = <<>> THEN NoSide ELSE [seq |-> nextSeq, text |-> unended]

\* The chunk is ingested: the sidecar is written now, or is left due when
\* the last write was less than SIDECAR_DEBOUNCE ago.
EndChunk ==
  /\ tpc = "ingest" /\ input = <<>>
  /\ tpc' = "idle"
  /\ \/ side' = Mirror /\ dirty' = FALSE
     \/ dirty' = TRUE /\ UNCHANGED side
  /\ UNCHANGED <<file, rot, nextSeq, active, unended, input, fed, kept, logged, wrote, faults,
                 readerVars>>

\* sidecar_due: the thread waits with a deadline while a write is due.
SidecarDue == dirty

\* The deadline passed without a chunk: flush_sidecar.
FlushSidecar ==
  /\ tpc = "idle" /\ SidecarDue
  /\ side' = Mirror
  /\ dirty' = FALSE
  /\ UNCHANGED <<file, tpc, rot, nextSeq, active, unended, input, fed, kept, logged, wrote,
                 faults, readerVars>>

\* The daemon shuts down: the last partial line is mirrored.
CloseLog ==
  /\ tpc = "idle" /\ faults < MaxFaults
  /\ tpc' = "off" /\ faults' = faults + 1
  /\ side' = IF dirty THEN Mirror ELSE side
  /\ UNCHANGED <<file, rot, nextSeq, active, unended, dirty, input, fed, kept, logged, wrote,
                 readerVars>>

\* The daemon is killed, between two operations.
Kill ==
  /\ tpc # "off" /\ faults < MaxFaults
  /\ tpc' = "off"
  /\ faults' = faults + 1
  /\ UNCHANGED <<file, side, rot, nextSeq, active, unended, dirty, input, fed, kept,
                 logged, wrote, readerVars>>

-----------------------------------------------------------------------------
(***************************************************************************)
(* The reader.                                                             *)
(***************************************************************************)

\* read_lines begins with the oldest segment.
StartRead ==
  /\ rpos = NoRead
  /\ rpos' = MaxSegments - 1
  /\ owed' = OnDisk
  /\ moved' = FALSE
  /\ UNCHANGED <<file, side, writerVars, wrote, faults, racc, rpart, printed>>

\* read_lines appends a segment's lines to what it has.
ReadOnto(acc, new) == acc \o new

\* The oldest segment first, the active one last; a missing one is skipped,
\* and a torn end does not parse.
ReadSegment ==
  /\ rpos \in Index
  /\ racc' = ReadOnto(racc, file[rpos].lines)
  /\ rpos' = IF rpos = 0 THEN AtPending ELSE rpos - 1
  /\ UNCHANGED <<file, side, writerVars, wrote, faults, rpart, owed, moved, printed>>

\* A partial line is shown only if it is newer than every complete one.
Newer(n) == \A i \in DOMAIN racc : racc[i] < n

ReadPending ==
  /\ rpos = AtPending
  /\ rpart' = IF side # NoSide /\ Newer(side.seq) THEN side.seq ELSE -1
  /\ printed' = IF racc = <<>> THEN printed
              ELSE Highest({racc[i] : i \in DOMAIN racc} \cup {printed})
  /\ rpos' = AtEnd
  /\ UNCHANGED <<file, side, writerVars, wrote, faults, racc, owed, moved>>

ReadDone == rpos = AtEnd /\ UNCHANGED logVars

Chunks == UNION {[1..n -> LogBytes] : n \in ChunkLens}

Thread == IngestByte \/ RotateStep \/ EndChunk \/ FlushSidecar

LogNext ==
  \/ OpenLog \/ Thread \/ CloseLog \/ Kill
  \/ \E c \in Chunks : TakeChunk(c)
  \/ StartRead \/ ReadSegment \/ ReadPending \/ ReadDone

-----------------------------------------------------------------------------
(***************************************************************************)
(* Properties.                                                             *)
(***************************************************************************)

\* The lines and the pending text are the bytes received, none dropped,
\* repeated or reordered, across line ends and forced flushes (ingest).
TextConserved == kept \o unended = fed

\* A forced flush does not split a character of a text that is valid so far:
\* what is left pending never begins with a second byte whose first byte
\* ended a line (utf8_floor_boundary).
CharacterKept ==
  unended # <<>> /\ unended[1] = "cont" /\ kept # <<>> /\ kept[Len(kept)] = "lead"
    => \E i \in DOMAIN kept : i < Len(kept) /\ Invalid(kept, i)

\* A line number a reader was shown is never given to another line, over
\* kills, torn appends, rotations and restarts: a client that goes on from
\* the last number it saw misses nothing (recover_next_seq).
SeqNotReused == tpc \in {"idle", "ingest", "rotate"} => printed < nextSeq

\* What is on disk is the newest part of what was ever written whole: lines
\* leave it oldest first only, also in the middle of a rotation and after a
\* kill there (rotate).
RetentionIsSuffix ==
  \A n \in wrote : (\E m \in OnDisk : m <= n) => n \in OnDisk

\* A reader's lines ascend, with no line twice and the partial line after
\* all complete ones, whatever is renamed and rewritten while it reads
\* (read_lines).
ReadAscends ==
  /\ \A i, j \in DOMAIN racc : i < j => racc[i] < racc[j]
  /\ rpart # -1 => \A i \in DOMAIN racc : racc[i] < rpart

\* A read that no rotation overlaps returns every line on disk when it began.
QuietReadIsComplete ==
  rpos \in {AtPending, AtEnd} /\ ~moved => owed \subseteq {racc[i] : i \in DOMAIN racc}

\* An unfinished line is mirrored within the debounce time even if nothing
\* more is received (sidecar_due, spawn_capture).
SidecarCatchesUp ==
  (tpc = "idle" /\ dirty) ~> (tpc # "idle" \/ side = Mirror)

-----------------------------------------------------------------------------
(***************************************************************************)
(* What `serialcap log` prints: a line's text without its escape sequences *)
(* and control characters, and its time as a UTC date.  Both are pure; the *)
(* text is checked against lines assembled from known parts, the date      *)
(* against a calendar counted day by day.                                  *)
(*                                                                         *)
(* Characters are classes: "esc", "[" , "]" (any introducer of a string),  *)
(* "bel", "\\", "cr", "0" (a parameter byte), "x" (text, also a final      *)
(* byte), and "ctl" (any other control or format character).               *)
(***************************************************************************)
CONSTANTS MaxParts,  \* bound on the parts of a line
          FirstDay,  \* the calendar is counted from here, with its date
          FirstDate,
          LastDay

ASSUME TextAssumption == MaxParts \in Nat /\ FirstDay \in Nat /\ LastDay \in Nat

VARIABLES parts, \* the parts the line is made of
          day,   \* a day number, 1970-01-01 is 0
          date   \* the calendar's date of that day
textVars == <<parts, day, date>>

-----------------------------------------------------------------------------
(***************************************************************************)
(* strip_ansi.                                                             *)
(***************************************************************************)

\* Bytes 0x40..0x7e, which end a CSI sequence.
Final == {"x", "[", "]", "\\"}

\* Where the scan goes after ESC b.
Introduces(b) == IF b = "[" THEN "csi" ELSE IF b = "]" THEN "str" ELSE "text"

\* Within a string: BEL ends it, and so does ESC \.
InString(b) == IF b = "bel" THEN "text" ELSE IF b = "esc" THEN "strEsc" ELSE "str"

\* The scan of one byte.
Scan(a, b) ==
  CASE a.at = "text"   -> IF b = "esc" THEN [a EXCEPT !.at = "esc"]
                          ELSE [a EXCEPT !.out = Append(@, b)]
    [] a.at = "esc"    -> [a EXCEPT !.at = Introduces(b)]
    [] a.at = "csi"    -> [a EXCEPT !.at = IF b \in Final THEN "text" ELSE "csi"]
    [] a.at = "str"    -> [a EXCEPT !.at = InString(b)]
    [] a.at = "strEsc" -> [a EXCEPT !.at = IF b = "\\" THEN "text" ELSE InString(b)]

\* The text after the last carriage return.
AfterCr(s) ==
  LET crs == {i \in DOMAIN s : s[i] = "cr"}
  IN IF crs = {} THEN s
     ELSE SubSeq(s, (CHOOSE i \in crs : \A j \in crs : j <= i) + 1, Len(s))

StripAnsi(s) ==
  LET clean == FoldLeft(Scan, [at |-> "text", out |-> <<>>], s).out
  IN SelectSeq(AfterCr(clean), LAMBDA b : b \notin {"ctl", "bel", "cr"})

-----------------------------------------------------------------------------
(***************************************************************************)
(* civil_from_days: days since 1970-01-01 to year, month and day.          *)
(***************************************************************************)

\* Year of the era, from the day of the era.
YearOfEra(doe) == (doe - doe \div 1460 + doe \div 36524 - doe \div 146096) \div 365

CivilFromDays(days) ==
  LET z   == days + 719468
      era == z \div 146097
      doe == z - era * 146097
      yoe == YearOfEra(doe)
      doy == doe - (365 * yoe + yoe \div 4 - yoe \div 100)
      mp  == (5 * doy + 2) \div 153
      d   == doy - (153 * mp + 2) \div 5 + 1
      m   == IF mp < 10 THEN mp + 3 ELSE mp - 9
  IN <<yoe + era * 400 + (IF m <= 2 THEN 1 ELSE 0), m, d>>

-----------------------------------------------------------------------------
(***************************************************************************)
(* The inputs.                                                             *)
(***************************************************************************)

\* Escape sequences a console prints, and plain text.
Escapes == {<<"esc", "[", "0", "x">>, <<"esc", "]", "x", "bel">>,
            <<"esc", "]", "x", "esc", "\\">>, <<"esc", "]", "esc", "bel">>, <<"esc", "0">>}
Plain == {<<"x">>, <<"0">>}
Noise == {<<"ctl">>, <<"cr">>}

Flat(ps) == FoldLeft(LAMBDA acc, p : acc \o p, <<>>, ps)

AddPart ==
  /\ Len(parts) < MaxParts
  /\ \E p \in Escapes \cup Plain \cup Noise : parts' = Append(parts, p)
  /\ UNCHANGED <<day, date>>

\* The calendar.
Leap(y) == y % 4 = 0 /\ (y % 100 # 0 \/ y % 400 = 0)
MonthDays(y, m) == CASE m = 2 -> IF Leap(y) THEN 29 ELSE 28
                     [] m \in {4, 6, 9, 11} -> 30
                     [] OTHER -> 31
NextDate(c) ==
  IF c[3] < MonthDays(c[1], c[2]) THEN <<c[1], c[2], c[3] + 1>>
  ELSE IF c[2] < 12 THEN <<c[1], c[2] + 1, 1>> ELSE <<c[1] + 1, 1, 1>>

CountDay ==
  /\ parts = <<>>
  /\ day < LastDay
  /\ day' = day + 1
  /\ date' = NextDate(date)
  /\ UNCHANGED parts

TextInit == parts = <<>> /\ day = FirstDay /\ date = FirstDate
TextDone == (Len(parts) = MaxParts \/ day = LastDay) /\ UNCHANGED textVars
TextNext == (day = FirstDay /\ AddPart) \/ CountDay \/ TextDone

-----------------------------------------------------------------------------

\* The text of a line made of plain text, control characters and complete
\* escape sequences is the plain text since the last carriage return: no
\* payload of a sequence stays in it, none of the text around it is lost, and
\* an overwritten text is gone (strip_ansi).
StripLeavesText ==
  LET since == {i \in DOMAIN parts : \A j \in i..Len(parts) : parts[j] # <<"cr">>}
      last  == SubSeq(parts, Len(parts) - Cardinality(since) + 1, Len(parts))
  IN StripAnsi(Flat(parts)) = Flat(SelectSeq(last, LAMBDA p : p \in Plain))

\* The date printed is the calendar's, over leap years and centuries.
CivilIsCalendar == CivilFromDays(day) = date
=============================================================================
