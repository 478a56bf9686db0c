---------------------------- MODULE SerialJournal ----------------------------
(***************************************************************************)
(* The raw receive journal of one serial interface                         *)
(* (serialcap/src/evidence.rs, the capture thread of serial_io.rs) and a   *)
(* reader of it in another process (`serial evidence`, POST /wait).        *)
(*                                                                         *)
(* The writer appends one record per received chunk to the active segment, *)
(* rotating full segments through a fixed number of file names, and brackets *)
(* each append with two saves of a checkpoint.  Any file operation may     *)
(* fail, and the daemon may crash between any two; a restarted daemon      *)
(* starts a new epoch over the same directory.  The reader takes no lock:  *)
(* it reads the checkpoint, opens the segments one by one, scans them and  *)
(* reports what it found with `gap` and `capture_pending` flags.           *)
(*                                                                         *)
(* A record is its epoch and number; bytes and times are left out.  A file *)
(* name maps to a file that keeps its contents when renamed or removed, so *)
(* that an open descriptor survives rotation.                              *)
(***************************************************************************)
EXTENDS Integers, Sequences, FiniteSets

CONSTANTS
  Segments,    \* SEGMENTS: names 0 (ACTIVE) .. Segments - 1
  SegLines,    \* SEGMENT_BYTES, in lines
  MaxEpochs,   \* bound on daemon starts
  MaxRx,       \* bound on the chunks of an epoch
  MaxFaults,   \* bound on the appends that fail
  MaxRecords   \* --max-bytes, in records

ASSUME JournalAssumption ==
  /\ Segments \in Nat \ {0, 1}
  /\ SegLines \in Nat \ {0}
  /\ MaxEpochs \in Nat
  /\ MaxRx \in Nat
  /\ MaxFaults \in Nat
  /\ MaxRecords \in Nat \ {0}

VARIABLES
  epoch,     \* the daemon's epoch (its last, when it is down)
  wpc,       \* where the capture thread is in Journal::append
  rx,        \* the chunk it appends, or appended last
  mem,       \* Journal.state
  archived,  \* Journal.failure_archived
  idx,       \* the name that rotation moves a segment to
  captured,  \* Health.capture_through_seq
  faults,    \* appends that failed
  ckpt,      \* evidence-state.json (epoch 0: absent)
  names,     \* names[i]: the file named ACTIVE.i, 0 if there is none
  files,     \* files[f]: the lines of file f
  archive,   \* evidence-failure.*.json, newest first
  stored,    \* history: the records completely written
  progress,  \* history: progress[e], the received cursor e last published
  rpc,       \* where the reader is
  req,       \* its arguments
  view,      \* the checkpoint it read
  at,        \* the next name it opens
  opened,    \* descriptors it has yet to scan
  seen,      \* lines it scanned
  answer,    \* what it returned
  mark,      \* history: chunks of the epoch appended when the read began
  owed       \* history: progress of the epoch when the read began

writerVars == <<epoch, wpc, rx, mem, archived, idx, captured, faults>>
diskVars   == <<ckpt, names, files, archive, stored, progress>>
readerVars == <<rpc, req, view, at, opened, seen, answer, mark, owed>>
journalVars == <<writerVars, diskVars, readerVars>>

-----------------------------------------------------------------------------
Epochs == 1..MaxEpochs
Names  == 0..(Segments - 1)

\* A line is a record ("rec"), a damaged line ("bad"), or, at the end of a
\* file, an unterminated one: part of a record, a record but for its newline
\* ("bare"), or the same after an earlier unterminated line ("mess").
LineKinds == {"rec", "bad", "part", "bare", "mess"}
Line      == [k : LineKinds, e : Nat, n : Nat]

Unterminated(l) == l.k \in {"part", "bare", "mess"}

\* WriterState: the epoch and numbers of last_received and persisted, whether
\* error is set, and the number of failed_receive (0: none).
Checkpoint == [epoch : Nat, recv : Nat, pers : Nat, err : BOOLEAN, failed : Nat]

Fresh(e) == [epoch |-> e, recv |-> 0, pers |-> 0, err |-> FALSE, failed |-> 0]

Answer == [records : SUBSET Nat, gap : BOOLEAN, pending : BOOLEAN,
           missing : BOOLEAN, capped : BOOLEAN]

NoAnswer == [records |-> {}, gap |-> FALSE, pending |-> FALSE,
             missing |-> FALSE, capped |-> FALSE]

WriterStates ==
  {"down", "idle", "save", "remove", "rename", "open", "write", "checkpoint",
   "failing", "report"}

JournalTypeOK ==
  /\ epoch \in Nat
  /\ wpc \in WriterStates
  /\ rx \in Nat
  /\ mem \in Checkpoint
  /\ archived \in BOOLEAN
  /\ idx \in Names
  /\ captured \in Nat
  /\ faults \in Nat
  /\ ckpt \in Checkpoint
  /\ names \in [Names -> 0..Len(files)]
  /\ files \in Seq(Seq(Line))
  /\ archive \in Seq(Nat \X Nat)
  /\ Len(archive) <= Segments
  /\ stored \in SUBSET (Nat \X Nat)
  /\ rpc \in {"idle", "opening", "scanning", "done"}
  /\ req \in [e : Nat, since : Nat]
  /\ view \in Checkpoint
  /\ at \in Names \cup {-1}
  /\ opened \in Seq([active : BOOLEAN, file : Nat])
  /\ seen \in Seq([active : BOOLEAN, line : Line])
  /\ answer \in Answer
  /\ mark \in Nat
  /\ progress \in [Epochs -> Nat]
  /\ owed \in Nat

JournalInit ==
  /\ epoch = 0
  /\ wpc = "down"
  /\ rx = 0
  /\ mem = Fresh(0)
  /\ archived = FALSE
  /\ idx = 0
  /\ captured = 0
  /\ faults = 0
  /\ ckpt = Fresh(0)
  /\ names = [i \in Names |-> 0]
  /\ files = <<>>
  /\ archive = <<>>
  /\ stored = {}
  /\ rpc = "idle"
  /\ req = [e |-> 0, since |-> 0]
  /\ view = Fresh(0)
  /\ at = -1
  /\ opened = <<>>
  /\ seen = <<>>
  /\ answer = NoAnswer
  /\ mark = 0
  /\ progress = [e \in Epochs |-> 0]
  /\ owed = 0

\* The complete records of file f, and those of all files with a name.
RecordsOf(f) == {<<files[f][i].e, files[f][i].n>> :
                   i \in {j \in DOMAIN files[f] : files[f][j].k = "rec"}}
OnDisk == UNION {RecordsOf(names[i]) : i \in {j \in Names : names[j] # 0}}

-----------------------------------------------------------------------------
(***************************************************************************)
(* The capture thread's journal.                                           *)
(***************************************************************************)

\* The daemon starts: Journal::open and start_epoch, whose save may fail.
Start ==
  /\ wpc = "down"
  /\ epoch < MaxEpochs
  /\ epoch' = epoch + 1
  /\ mem' = Fresh(epoch + 1)
  /\ \/ ckpt' = mem'
     \/ ckpt' = ckpt
  /\ archived' = FALSE
  /\ rx' = 0
  /\ captured' = 0
  /\ wpc' = "idle"
  /\ UNCHANGED <<idx, faults, names, files, archive, stored, progress, readerVars>>

\* The daemon dies between two operations on the disk.
Crash ==
  /\ wpc # "down"
  /\ epoch < MaxEpochs
  /\ wpc' = "down"
  /\ UNCHANGED <<epoch, rx, mem, archived, idx, captured, faults, diskVars, readerVars>>

\* append: the received cursor advances in memory.
BeginAppend ==
  /\ wpc = "idle"
  /\ rx < MaxRx
  /\ rx' = rx + 1
  /\ mem' = [mem EXCEPT !.recv = rx + 1]
  /\ wpc' = "save"
  /\ UNCHANGED <<epoch, archived, idx, captured, faults, diskVars, readerVars>>

\* The active segment has no room for another record.
Full == names[0] # 0 /\ Len(files[names[0]]) >= SegLines

\* append_inner publishes the received cursor before anything else, then
\* looks whether the active segment must be rotated.
SaveReceived ==
  /\ wpc = "save"
  /\ ckpt' = mem
  /\ progress' = [progress EXCEPT ![epoch] = rx]
  /\ idx' = Segments - 1
  /\ wpc' = IF Full THEN "remove" ELSE "open"
  /\ UNCHANGED <<epoch, rx, mem, archived, captured, faults, names, files, archive,
                 stored, readerVars>>

\* Rotation, per name from the oldest: remove the destination ...
RemoveDest ==
  /\ wpc = "remove"
  /\ names' = [names EXCEPT ![idx] = 0]
  /\ wpc' = "rename"
  /\ UNCHANGED <<epoch, rx, mem, archived, idx, captured, faults, ckpt, files,
                 archive, stored, progress, readerVars>>

\* ... and move the next younger segment there.
RenameSource ==
  /\ wpc = "rename"
  /\ names' = IF names[idx - 1] = 0 THEN names
              ELSE [names EXCEPT ![idx] = names[idx - 1], ![idx - 1] = 0]
  /\ idx' = idx - 1
  /\ wpc' = IF idx = 1 THEN "open" ELSE "remove"
  /\ UNCHANGED <<epoch, rx, mem, archived, captured, faults, ckpt, files, archive,
                 stored, progress, readerVars>>

\* The lines of a file after an unterminated piece k of the current record
\* was written to it.
Torn(lines, k) ==
  IF lines # <<>> /\ Unterminated(lines[Len(lines)])
  THEN [lines EXCEPT ![Len(lines)].k = "mess"]
  ELSE Append(lines, [k |-> k, e |-> epoch, n |-> rx])

\* Open the active segment, creating it if it has no file, and write a first
\* piece of the record: readers see an unterminated line.
StartWrite(k) ==
  /\ wpc = "open"
  /\ IF names[0] = 0
     THEN /\ files' = Append(files, Torn(<<>>, k))
          /\ names' = [names EXCEPT ![0] = Len(files) + 1]
     ELSE /\ files' = [files EXCEPT ![names[0]] = Torn(@, k)]
          /\ UNCHANGED names
  /\ wpc' = "write"
  /\ UNCHANGED <<epoch, rx, mem, archived, idx, captured, faults, ckpt, archive,
                 stored, progress, readerVars>>

\* The newline ends the record, or the damaged line it was written behind.
FinishWrite ==
  /\ wpc = "write"
  /\ LET f == names[0]
         l == Len(files[f])
     IN /\ files' = [files EXCEPT ![f][l].k = IF @ = "mess" THEN "bad" ELSE "rec"]
        /\ stored' = IF files[f][l].k = "mess" THEN stored
                     ELSE stored \cup {<<epoch, rx>>}
  /\ mem' = [mem EXCEPT !.pers = rx]
  /\ wpc' = "checkpoint"
  /\ UNCHANGED <<epoch, rx, archived, idx, captured, faults, ckpt, names, archive,
                 progress, readerVars>>

\* The second save; then the status' watermark advances.
SavePersisted ==
  /\ wpc = "checkpoint"
  /\ ckpt' = mem
  /\ captured' = rx
  /\ wpc' = "idle"
  /\ UNCHANGED <<epoch, rx, mem, archived, idx, faults, names, files, archive,
                 stored, progress, readerVars>>

\* An operation fails: append records the first fault of the epoch.
Fail ==
  /\ wpc \in {"save", "remove", "rename", "open", "write", "checkpoint"}
  /\ faults < MaxFaults
  /\ faults' = faults + 1
  /\ mem' = [mem EXCEPT !.err = TRUE, !.failed = IF @ = 0 THEN rx ELSE @]
  /\ wpc' = "failing"
  /\ UNCHANGED <<epoch, rx, archived, idx, captured, diskVars, readerVars>>

\* archive_failure keeps the newest Segments first faults; it may fail too,
\* and is then tried again at the next fault.
ArchiveFailure ==
  /\ wpc = "failing"
  /\ \/ /\ ~archived
        /\ archive' = SubSeq(<<<<epoch, rx>>>> \o archive, 1,
                             IF Len(archive) < Segments THEN Len(archive) + 1 ELSE Segments)
        /\ archived' = TRUE
     \/ UNCHANGED <<archive, archived>>
  /\ wpc' = "report"
  /\ UNCHANGED <<epoch, rx, mem, idx, captured, faults, ckpt, names, files, stored,
                 progress, readerVars>>

\* The fault is saved if the checkpoint can be written; append returns.
ReportFailure ==
  /\ wpc = "report"
  /\ \/ /\ ckpt' = mem
        /\ progress' = [progress EXCEPT ![epoch] = rx]
     \/ UNCHANGED <<ckpt, progress>>
  /\ captured' = rx
  /\ wpc' = "idle"
  /\ UNCHANGED <<epoch, rx, mem, archived, idx, faults, names, files, archive,
                 stored, readerVars>>

Writer ==
  \/ BeginAppend
  \/ SaveReceived
  \/ RemoveDest
  \/ RenameSource
  \/ \E k \in {"part", "bare"} : StartWrite(k)
  \/ FinishWrite
  \/ SavePersisted
  \/ Fail
  \/ ArchiveFailure
  \/ ReportFailure

-----------------------------------------------------------------------------
(***************************************************************************)
(* The reader: evidence::read(dir, epoch, since, max_bytes).               *)
(***************************************************************************)

\* Read the checkpoint.  What is owed to the caller is what the capture
\* thread had finished with, if its faults could be saved.
BeginRead(e, since) ==
  /\ rpc = "idle"
  /\ req' = [e |-> e, since |-> since]
  /\ view' = ckpt
  /\ at' = Segments - 1
  /\ mark' = IF e = epoch /\ ckpt.epoch = epoch /\ ckpt.err = mem.err
             THEN captured ELSE 0
  /\ owed' = progress[e]
  /\ rpc' = "opening"
  /\ UNCHANGED <<writerVars, diskVars, opened, seen, answer>>

\* Open the next name, oldest first; a missing one is skipped.
OpenSegment ==
  /\ rpc = "opening"
  /\ opened' = IF names[at] = 0 THEN opened
               ELSE Append(opened, [active |-> at = 0, file |-> names[at]])
  /\ at' = at - 1
  /\ rpc' = IF at = 0 THEN "scanning" ELSE "opening"
  /\ UNCHANGED <<writerVars, diskVars, req, view, seen, answer, mark, owed>>

\* Read the lines of the next open file, as it is now.
ScanSegment ==
  /\ rpc = "scanning"
  /\ opened # <<>>
  /\ LET d == Head(opened)
     IN seen' = seen \o [i \in DOMAIN files[d.file] |->
                           [active |-> d.active, line |-> files[d.file][i]]]
  /\ opened' = Tail(opened)
  /\ UNCHANGED <<writerVars, diskVars, rpc, req, view, at, answer, mark, owed>>

Seen == {seen[i] : i \in DOMAIN seen}

\* An unterminated tail of the active segment, while no fault is recorded.
StillAppending(x) == x.active /\ Unterminated(x.line) /\ ~view.err

Parses(l) == l.k \in {"rec", "bare"}

\* A record the checkpoint does not count as persisted.
Uncommitted(l) == view.epoch = l.e /\ view.pers < l.n

Parsed   == {x.line : x \in {y \in Seen : ~StillAppending(y) /\ Parses(y.line)}}
Acquired == {l \in Parsed : ~Uncommitted(l)}
Corrupt  == \E x \in Seen : ~StillAppending(x) /\ ~Parses(x.line)

Selected == {l.n : l \in {m \in Acquired : m.e = req.e}}
Later    == {n \in Selected : n > req.since}
Rank(n)  == Cardinality({m \in Later : m < n})

Through  == IF view.epoch = req.e THEN view.recv ELSE 0
Ahead    == req.since > Through /\ \A n \in Selected : req.since > n

\* A sequence break among the records examined before the cap stops the scan.
Breaks ==
  \E n \in Later : /\ Rank(n) <= MaxRecords
                   /\ n # req.since + 1
                   /\ n - 1 \notin Later

\* Mutant: records that end before the received cursor pass for complete.
BehindIgnored == FALSE

\* The records end before the cursor the checkpoint published as received.
Behind == view.epoch = req.e /\ \A n \in Selected : n < view.recv

\* The flags and records of the Evidence that read returns.
Report ==
  [records |-> {n \in Later : Rank(n) < MaxRecords},
   gap     |-> \/ Corrupt
               \/ Ahead
               \/ Breaks
               \/ view.err
               \/ view.failed # 0 /\ view.epoch = req.e
               \/ \E i \in DOMAIN archive : archive[i][1] = req.e,
   pending |-> \/ \E x \in Seen : StillAppending(x)
               \/ \E l \in Parsed : Uncommitted(l)
               \/ Behind,
   missing |-> view.epoch # req.e /\ \A l \in Acquired : l.e # req.e,
   capped  |-> Cardinality(Later) > MaxRecords]

\* Everything is scanned: read the failure archive and answer.
FinishRead ==
  /\ rpc = "scanning"
  /\ opened = <<>>
  /\ answer' = Report
  /\ rpc' = "done"
  /\ view' = Fresh(0)
  /\ seen' = <<>>
  /\ UNCHANGED <<writerVars, diskVars, req, at, opened, mark, owed>>

\* A read after the last chunk that MaxRx allows has nothing to return.
Reader ==
  \/ \E e \in Epochs, since \in 0..(MaxRx - 1) : BeginRead(e, since)
  \/ OpenSegment
  \/ ScanSegment
  \/ FinishRead

Quiescent ==
  /\ wpc = "idle"
  /\ rx = MaxRx
  /\ rpc = "done"
  /\ UNCHANGED journalVars

JournalNext == Start \/ Crash \/ Writer \/ Reader \/ Quiescent

JournalSpec == JournalInit /\ [][JournalNext]_journalVars

-----------------------------------------------------------------------------
(***************************************************************************)
(* Properties.                                                             *)
(***************************************************************************)

Clean == rpc = "done" /\ ~answer.gap /\ ~answer.pending /\ ~answer.missing

\* A read of the running epoch that reports neither a gap nor a pending
\* capture returns, up to its cap, every chunk after `since` that the capture
\* thread had finished with when the read began, whatever is appended,
\* rotated, failed or crashed meanwhile; only a fault that could not be saved
\* may hide a chunk (evidence::read against append_inner's two saves).
CleanReadIsComplete ==
  Clean => \A n \in (req.since + 1)..mark :
             \/ n \in answer.records
             \/ answer.capped /\ n > req.since + MaxRecords

\* What a read returns is contiguous from `since` unless a gap is reported.
\* So a caller that continues from the last record skips nothing.
ReadIsContiguous ==
  rpc = "done" /\ ~answer.gap =>
    answer.records = (req.since + 1)..(req.since + Cardinality(answer.records))

Before(a, b) == a[1] < b[1] \/ (a[1] = b[1] /\ a[2] < b[2])

\* Retention forgets the oldest records first, through failed and
\* interrupted rotations alike: a record that was written and is gone is
\* older than every record on disk (append_inner's rotation).
RetentionIsSuffix ==
  \A a \in stored \ OnDisk : \A b \in OnDisk : Before(a, b)

\* Along the names from the oldest to the active one, records are in the
\* order they were received (the reader's "oldest segment first").
SegmentsOrdered ==
  \A i, j \in Names : i > j /\ names[i] # 0 /\ names[j] # 0 =>
    \A a \in RecordsOf(names[i]), b \in RecordsOf(names[j]) : Before(a, b)

\* append_inner: "Publish receive progress first: a crash or failed append is
\* a gap, rather than an apparently complete shorter history."
\* A clean read returns every chunk of its epoch that the checkpoint had
\* published as received when the read began.
CrashIsAGap ==
  Clean /\ ~answer.capped =>
    \A n \in (req.since + 1)..owed : n \in answer.records

\* Whatever is appended, rotated, failed or cut off by a crash between two steps of an append, a
\* read of the journal is complete and contiguous or says that it is not (evidence.rs).
JournalIsHonest ==
  /\ JournalTypeOK
  /\ CleanReadIsComplete
  /\ ReadIsContiguous
  /\ RetentionIsSuffix
  /\ SegmentsOrdered
=============================================================================
