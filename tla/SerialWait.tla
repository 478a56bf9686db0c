----------------------------- MODULE SerialWait -----------------------------
(***************************************************************************)
(* The bounded acquisition after a receive cursor (serialcap/src/wait.rs), *)
(* as `serialcap wait` runs it beside the daemon and POST /transact inside *)
(* it (transact.rs): ask the daemon's status, read the journal, append     *)
(* what it returns, ask the status again, stop with an explicit status or  *)
(* go round.  The daemon (receive counter, journal, watermark, connection, *)
(* restart) moves between any two of these.                                *)
(*                                                                         *)
(* A chunk is one byte of Bytes; Pattern is what `until` looks for.  One   *)
(* evidence::read is one step here: its interleaving with the journal's    *)
(* writer is module SerialJournal.                                         *)
(***************************************************************************)
EXTENDS Integers, Sequences, FiniteSets

CONSTANTS
  Bytes,        \* what a received chunk may be
  Newline,      \* the byte that ends a line
  Pattern,      \* Request.pattern, a sequence of bytes
  WaitRx,       \* bound on the chunks received
  WaitGens,     \* bound on the connections
  MaxMishaps,   \* bound on failed appends, expiries, unplugs and stops together
  MaxBytes,     \* Request.max_bytes
  MaxOutput,    \* Request.max_output_bytes
  BaseLen,      \* encoded length of a result without records
  RecordLen,    \* encoded length of one record in it
  LineLen,      \* encoded length of one line, there and in an event
  NoteLen,      \* encoded length of one diagnostic
  FinishReserve,   \* FINISH_RESERVE
  DiagnosticBudget \* DIAGNOSTIC_BUDGET

ASSUME WaitAssumption ==
  /\ Newline \in Bytes
  /\ Pattern \in Seq(Bytes) /\ Pattern # <<>>
  /\ WaitRx \in Nat /\ MaxMishaps \in Nat /\ WaitGens \in Nat \ {0}
  /\ MaxBytes \in Nat \ {0}
  /\ {MaxOutput, BaseLen, RecordLen, LineLen, NoteLen} \subseteq Nat
  /\ FinishReserve \in Nat /\ DiagnosticBudget \in Nat
  /\ DiagnosticBudget <= FinishReserve

VARIABLES
  up,        \* the daemon answers status requests
  epoch,     \* its capture epoch: 1, and 2 after a restart
  linkUp,    \* PortStatus.connected
  linkGen,   \* Health.connection_generation
  lastSeq,   \* Health.last_rx_seq
  through, \* Health.evidence_through_seq
  captureFault, \* Health.evidence_error is set
  rxChunk,   \* epoch 1: chunk[n] is the byte and the generation of chunk n
  received,  \* the journal's state.last_received
  persisted, \* the journal's state.persisted
  lost,      \* chunks whose append failed (state.error is set)
  floor,     \* chunks up to here were expired by retention
  mishaps,   \* failed appends, expiries, unplugs and stops so far
  req,       \* Request: since, and whether timeout_ms > 0; its epoch is 1
  wpc,       \* where the acquisition is
  late,      \* the deadline has passed
  firstRead, \* first_read
  shouldRead, \* should_read
  seen,      \* the status taken by the preflight, or NoStatus
  envelope,  \* what the last read returned
  got,       \* Acquired.records: receive numbers, in order
  waitCursor, \* Acquired.cursor
  emitted,   \* emitted_bytes
  pendNotes, \* pending_diagnostics
  notes,     \* Diagnostics: encoded length kept, and the count
  seenGen,   \* generation of the loop, 0 for None
  status,    \* the result's status
  excused    \* history: the preflight was answered in time by no healthy daemon

daemonVars == <<up, epoch, linkUp, linkGen, lastSeq, through, captureFault, rxChunk,
                received, persisted, lost, floor, mishaps>>
loopVars   == <<wpc, firstRead, shouldRead, seen, envelope, got, waitCursor, emitted,
                pendNotes, notes, seenGen, status, excused>>
waitVars == <<daemonVars, req, late, loopVars>>

Stops == {"timeout", "read_error", "cap", "gap", "epoch_missing", "capture_error",
          "daemon_unavailable", "epoch_changed", "disconnected", "reconnected",
          "matched", "refused"}
NoStatus == [ok |-> FALSE]
NoRecords == [recs |-> <<>>, gap |-> FALSE, missing |-> FALSE, capped |-> FALSE]

WaitTypeOK ==
  /\ {up, linkUp, captureFault, late, firstRead, shouldRead, excused} \subseteq BOOLEAN
  /\ epoch \in 1..2 /\ linkGen \in 1..WaitGens
  /\ lastSeq \in 0..WaitRx /\ through \in 0..WaitRx
  /\ rxChunk \in Seq([byte : Bytes, gen : 1..WaitGens])
  /\ received \in 0..WaitRx /\ persisted \in 0..WaitRx /\ floor \in 0..WaitRx
  /\ lost \subseteq 1..WaitRx /\ mishaps \in 0..MaxMishaps
  /\ req \in [since : 0..WaitRx, timed : BOOLEAN]
  /\ wpc \in {"idle", "boundary", "top", "read", "append", "health", "done"}
  /\ got \in Seq(1..WaitRx) /\ waitCursor \in 0..WaitRx
  /\ emitted \in Nat /\ pendNotes \in Nat
  /\ notes \in [len : 0..DiagnosticBudget, count : Nat]
  /\ seenGen \in 0..WaitGens
  /\ status \in Stops \cup {"none"}

WaitInit ==
  /\ up = TRUE /\ epoch = 1 /\ linkUp = TRUE /\ linkGen = 1
  /\ lastSeq = 0 /\ through = 0 /\ captureFault = FALSE /\ rxChunk = <<>>
  /\ received = 0 /\ persisted = 0 /\ lost = {} /\ floor = 0 /\ mishaps = 0
  /\ req = [since |-> 0, timed |-> TRUE]
  /\ wpc = "idle" /\ late = FALSE /\ firstRead = TRUE /\ shouldRead = TRUE
  /\ seen = NoStatus /\ envelope = NoRecords
  /\ got = <<>> /\ waitCursor = 0 /\ emitted = 0
  /\ pendNotes = 0 /\ notes = [len |-> 0, count |-> 0]
  /\ seenGen = 0 /\ status = "none" /\ excused = FALSE

-----------------------------------------------------------------------------
(***************************************************************************)
(* The daemon, as the acquisition sees it.                                 *)
(***************************************************************************)

Mishap == mishaps < MaxMishaps /\ mishaps' = mishaps + 1

\* The supervisor numbers a chunk and publishes the number in the status.
DaemonReceives(b) ==
  /\ up /\ epoch = 1 /\ linkUp /\ lastSeq < WaitRx
  /\ lastSeq' = lastSeq + 1
  /\ rxChunk' = Append(rxChunk, [byte |-> b, gen |-> linkGen])
  /\ UNCHANGED <<up, epoch, linkUp, linkGen, through, captureFault, received,
                 persisted, lost, floor, mishaps, req, late, loopVars>>

\* The journal publishes receive progress, before it appends the record.
JournalNotes ==
  /\ up /\ epoch = 1
  /\ received < lastSeq /\ received \in {persisted} \cup lost
  /\ received' = received + 1
  /\ UNCHANGED <<up, epoch, linkUp, linkGen, lastSeq, through, captureFault, rxChunk,
                 persisted, lost, floor, mishaps, req, late, loopVars>>

\* The record is appended and its checkpoint written, or the append fails;
\* the capture thread publishes the watermark and the fault.
JournalAppends ==
  /\ up /\ epoch = 1
  /\ persisted < received /\ received \notin lost
  /\ \/ /\ persisted' = received /\ through' = received
        /\ UNCHANGED <<lost, captureFault, mishaps>>
     \/ /\ lost' = lost \cup {received} /\ captureFault' = TRUE /\ Mishap
        /\ UNCHANGED <<persisted, through>>
  /\ UNCHANGED <<up, epoch, linkUp, linkGen, lastSeq, rxChunk, received, floor,
                 req, late, loopVars>>

\* Rotation expires the oldest record.
WaitExpires ==
  /\ floor < persisted
  /\ Mishap
  /\ floor' = floor + 1
  /\ UNCHANGED <<up, epoch, linkUp, linkGen, lastSeq, through, captureFault, rxChunk,
                 received, persisted, lost, req, late, loopVars>>

\* The port drops, or comes back as the next connection.
Unplug ==
  /\ up /\ linkUp
  /\ Mishap
  /\ linkUp' = FALSE
  /\ UNCHANGED <<up, epoch, linkGen, lastSeq, through, captureFault, rxChunk, received,
                 persisted, lost, floor, req, late, loopVars>>

Replug ==
  /\ up /\ ~linkUp /\ linkGen < WaitGens
  /\ linkUp' = TRUE
  /\ linkGen' = linkGen + 1
  /\ UNCHANGED <<up, epoch, lastSeq, through, captureFault, rxChunk, received, persisted,
                 lost, floor, mishaps, req, late, loopVars>>

\* The daemon stops: what the journal had not taken is gone with it.
DaemonStops ==
  /\ up
  /\ Mishap
  /\ up' = FALSE
  /\ UNCHANGED <<epoch, linkUp, linkGen, lastSeq, through, captureFault, rxChunk,
                 received, persisted, lost, floor, req, late, loopVars>>

\* A new one opens the journal under a new epoch: its checkpoint replaces
\* the old one's, whose fault it archives.
DaemonRestarts ==
  /\ ~up /\ epoch = 1
  /\ up' = TRUE /\ epoch' = 2 /\ linkUp' = TRUE
  /\ lastSeq' = 0 /\ through' = 0 /\ captureFault' = FALSE /\ received' = 0
  /\ UNCHANGED <<linkGen, rxChunk, persisted, lost, floor, mishaps, req, late, loopVars>>

Daemon ==
  \/ \E b \in Bytes : DaemonReceives(b)
  \/ JournalNotes \/ JournalAppends \/ WaitExpires
  \/ Unplug \/ Replug \/ DaemonStops \/ DaemonRestarts

-----------------------------------------------------------------------------
(***************************************************************************)
(* What the acquisition reads.                                             *)
(***************************************************************************)

\* The chunks of epoch 1 the journal holds.
Retained == ((floor + 1)..persisted) \ lost

\* The records after cur that a read selects, in order.
Upward(S) ==
  CHOOSE s \in [1..Cardinality(S) -> S] : \A i, j \in 1..Cardinality(S) : i < j => s[i] < s[j]
After(cur) == Upward({ n \in Retained : n > cur })

\* evidence::read after the cursor: the records that fit max_bytes, and what
\* it could not answer: a cursor ahead of all it knows, a hole (an expired
\* or failed record), an epoch it has never heard of.
Envelope ==
  LET known  == epoch = 1
      left   == MaxBytes - Len(got)
      all    == After(waitCursor)
      latest == IF Retained # {} THEN CHOOSE n \in Retained :
                  \A m \in Retained : m <= n ELSE 0
      fits   == SubSeq(all, 1, IF Len(all) > left THEN left ELSE Len(all))
      first  == SubSeq(all, 1, IF Len(all) > left THEN left + 1 ELSE Len(all))
  IN [recs    |-> fits,
      capped  |-> Len(all) > left,
      missing |-> ~known /\ Retained = {},
      gap     |-> \/ waitCursor > (IF known THEN received ELSE 0) /\ waitCursor > latest
                  \/ \E i \in DOMAIN first : first[i] # waitCursor + i
                  \/ lost # {}]

\* Records noted but not yet checkpointed: a pending diagnostic only.
CapturePending == epoch = 1 /\ received > persisted

\* GET /status, or the handle's own status inside the daemon.
Status == [ok |-> TRUE, epoch |-> epoch, connected |-> linkUp, fault |-> captureFault,
           gen |-> linkGen, rx |-> lastSeq, through |-> through]

-----------------------------------------------------------------------------
(***************************************************************************)
(* The acquisition.                                                        *)
(***************************************************************************)

\* Diagnostics::push: a note over half the budget is cut to it, and one that
\* no longer fits is counted and dropped.
Push(d, n) ==
  LET size == IF n > DiagnosticBudget \div 2 THEN DiagnosticBudget \div 2 ELSE n
  IN [len   |-> IF d.len + size + 1 > DiagnosticBudget THEN d.len
                ELSE d.len + size + 1,
      count |-> d.count + 1]

\* Complete lines among the records.
Lines(recs) == Cardinality({ i \in DOMAIN recs : rxChunk[recs[i]].byte = Newline })

\* Encoded length of the result over these records, without diagnostics.
ResultLen(recs) == BaseLen + RecordLen * Len(recs) + LineLen * Lines(recs)

\* The loop breaks with a status: the pending diagnostics are folded in.
\* (Each push sees what the one before it kept.)
Folded(d, k) ==
  LET f[i \in 0..k] == IF i = 0 THEN d ELSE Push(f[i - 1], NoteLen) IN f[k]

Stop(s, d) ==
  /\ wpc' = "done"
  /\ status' = s
  /\ notes' = d
  /\ UNCHANGED <<firstRead, shouldRead, seen, envelope, got, waitCursor, emitted,
                 pendNotes, seenGen, excused>>

\* run: the metadata must fit the output budget.
EnterRun ==
  IF BaseLen + 1 + FinishReserve > MaxOutput
  THEN wpc' = "done" /\ status' = "refused"
  ELSE wpc' = "top" /\ UNCHANGED status

\* `serialcap wait`: a cursor of epoch 1 the caller was told of, and a
\* timeout or 0 for one snapshot.
StartWait(s, timed) ==
  /\ wpc = "idle"
  /\ s <= Len(rxChunk)
  /\ req' = [since |-> s, timed |-> timed]
  /\ late' = ~timed
  /\ waitCursor' = s
  /\ EnterRun
  /\ UNCHANGED <<daemonVars, firstRead, shouldRead, seen, envelope, got, emitted,
                 pendNotes, notes, seenGen, excused>>

\* transact: the boundary is read from the status before the bytes are
\* written; the wait starts once the write is done.
TakeMark ==
  /\ wpc = "idle"
  /\ up /\ linkUp /\ epoch = 1
  /\ req' = [since |-> lastSeq, timed |-> TRUE]
  /\ waitCursor' = lastSeq
  /\ wpc' = "boundary"
  /\ UNCHANGED <<daemonVars, late, firstRead, shouldRead, seen, envelope, got,
                 emitted, pendNotes, notes, seenGen, status, excused>>

WriteDone ==
  /\ wpc = "boundary"
  /\ EnterRun
  /\ UNCHANGED <<daemonVars, req, late, firstRead, shouldRead, seen, envelope, got,
                 waitCursor, emitted, pendNotes, notes, seenGen, excused>>

\* The status says the boundary was received but the journal, healthy, has
\* not caught up with it.
Behind(s) ==
  /\ s.ok
  /\ s.epoch = 1
  /\ s.connected /\ ~s.fault
  /\ s.rx >= req.since
  /\ s.through < req.since

\* After the preflight's request: the deadline passed, before it or in it.
PastDeadline(slow) == req.timed /\ (late \/ slow)

\* The preflight of the first read: a status, or an error when the daemon is
\* down or slow; a slow answer may be past the deadline.
Preflight ==
  /\ wpc = "top" /\ firstRead
  /\ \E s \in (IF up THEN {Status} ELSE {}) \cup {NoStatus},
        slow \in BOOLEAN :
       /\ slow => s = NoStatus
       /\ late' = (late \/ slow)
       /\ \/ PastDeadline(slow) /\ Stop("timeout", Folded(notes, pendNotes))
          \/ /\ ~PastDeadline(slow) /\ Behind(s)
             /\ wpc' = "health"
             /\ seen' = s /\ shouldRead' = FALSE /\ pendNotes' = 1
             /\ envelope' = NoRecords
             /\ UNCHANGED <<firstRead, got, waitCursor, emitted, notes, seenGen, status,
                            excused>>
          \/ /\ ~PastDeadline(slow) /\ ~Behind(s)
             /\ wpc' = "read"
             /\ firstRead' = FALSE /\ shouldRead' = TRUE
             /\ excused' = /\ ~(req.timed /\ late')
                           /\ ~(s.ok /\ s.epoch = 1 /\ s.connected /\ ~s.fault)
             /\ UNCHANGED <<seen, envelope, got, waitCursor, emitted, pendNotes, notes,
                            seenGen, status>>
  /\ UNCHANGED <<daemonVars, req>>

\* Later rounds read only when the watermark passed the cursor.
NextRound ==
  /\ wpc = "top" /\ ~firstRead
  /\ IF shouldRead THEN wpc' = "read" /\ UNCHANGED envelope
     ELSE wpc' = "health" /\ envelope' = NoRecords
  /\ UNCHANGED <<daemonVars, req, late, firstRead, shouldRead, seen, got, waitCursor,
                 emitted, pendNotes, notes, seenGen, status, excused>>

\* evidence::read; its diagnostics end the wait unless they are pending ones.
ReadJournal ==
  /\ wpc = "read"
  /\ envelope' = Envelope
  /\ pendNotes' = IF CapturePending THEN 1 ELSE 0
  /\ notes' = IF Envelope.gap \/ Envelope.missing THEN Push(notes, NoteLen) ELSE notes
  /\ wpc' = "append"
  /\ UNCHANGED <<daemonVars, req, late, firstRead, shouldRead, seen, got, waitCursor,
                 emitted, seenGen, status, excused>>

ReadFails ==
  /\ wpc = "read"
  /\ Stop("read_error", Folded(Push(notes, NoteLen), pendNotes))
  /\ UNCHANGED <<daemonVars, req, late>>

\* What the output would need with these records and these event bytes.
Required(recs, ev) == emitted + ev + 1 + FinishReserve + ResultLen(recs)

\* The encoded line a record completes, when lines are followed.
EventLen(n) == IF rxChunk[n].byte = Newline THEN LineLen ELSE 0

\* One record of the envelope: past the deadline, over the output budget, or
\* appended and its lines emitted.
AppendRecord ==
  /\ wpc = "append" /\ envelope.recs # <<>>
  /\ LET n == Head(envelope.recs)
         candidate == Append(got, n)
     IN \/ /\ req.timed /\ late
           /\ Stop("timeout", Folded(notes, pendNotes))
        \/ /\ ~(req.timed /\ late)
           /\ Required(candidate, EventLen(n)) > MaxOutput
           /\ Stop("cap", Folded(notes, pendNotes))
        \/ /\ ~(req.timed /\ late)
           /\ Required(candidate, EventLen(n)) <= MaxOutput
           /\ got' = candidate
           /\ waitCursor' = n
           /\ emitted' = emitted + EventLen(n)
           /\ envelope' = [envelope EXCEPT !.recs = Tail(@)]
           /\ UNCHANGED <<wpc, firstRead, shouldRead, seen, pendNotes, notes,
                          seenGen, status, excused>>
  /\ UNCHANGED <<daemonVars, req, late>>

\* Why the loop stops on what was read, in the code's order; "none" goes on.
StopAfterRead ==
  CASE envelope.gap      -> "gap"
    [] ~envelope.gap /\ envelope.missing -> "epoch_missing"
    [] ~envelope.gap /\ ~envelope.missing /\ notes.count > 0 -> "capture_error"
    [] OTHER -> IF req.timed /\ late THEN "timeout" ELSE "none"

Assess ==
  /\ wpc = "append" /\ envelope.recs = <<>>
  /\ \/ /\ StopAfterRead # "none"
        /\ Stop(StopAfterRead, Folded(notes, pendNotes))
     \/ /\ StopAfterRead = "none"
        /\ wpc' = "health"
        /\ UNCHANGED <<firstRead, shouldRead, seen, envelope, got, waitCursor, emitted,
                       pendNotes, notes, seenGen, status, excused>>
  /\ UNCHANGED <<daemonVars, req, late>>

\* The acquired bytes contain the pattern.
Matches ==
  \E i \in 0..(Len(got) - Len(Pattern)) :
    \A j \in 1..Len(Pattern) : rxChunk[got[i + j]].byte = Pattern[j]

\* Mutant: only a change between two status answers is a reconnection.
ReconnectedBetween(s) == seenGen # 0 /\ s.gen # seenGen

\* A record of another connection, or a connection other than last time's.
Reconnected(s) ==
  \/ \E i \in DOMAIN got : rxChunk[got[i]].gen # s.gen
  \/ seenGen # 0 /\ s.gen # seenGen

\* Mutant: a snapshot (timeout 0) is not timed out either.
ExpiredTimed == req.timed /\ late

\* The deadline before the sleep; a snapshot's has always passed.
Expired == late

\* Why the loop stops on this status, in the code's order.
StopOn(s) ==
  CASE req.timed /\ late -> "timeout"
    [] ~(req.timed /\ late) /\ ~s.ok -> "daemon_unavailable"
    [] OTHER ->
         IF s.epoch # 1 THEN "epoch_changed"
         ELSE IF ~s.connected THEN "disconnected"
         ELSE IF s.fault THEN "capture_error"
         ELSE IF Reconnected(s) THEN "reconnected"
         ELSE IF Matches THEN "matched"
         ELSE IF envelope.capped \/ Len(got) = MaxBytes THEN "cap"
         ELSE IF Expired THEN "timeout" ELSE "none"

\* The status after the read: the preflight's own when it was behind.
CheckHealth ==
  /\ wpc = "health"
  /\ \E s \in IF seen.ok THEN {seen}
              ELSE (IF up THEN {Status} ELSE {}) \cup {NoStatus} :
       \/ /\ StopOn(s) # "none"
          /\ Stop(StopOn(s),
                  Folded(IF StopOn(s) \in {"daemon_unavailable", "capture_error"}
                         THEN Push(notes, NoteLen) ELSE notes, pendNotes))
       \/ /\ StopOn(s) = "none"
          /\ seenGen' = s.gen
          /\ shouldRead' = (s.through > waitCursor)
          /\ seen' = NoStatus
          /\ envelope' = NoRecords
          /\ wpc' = "top"
          /\ UNCHANGED <<firstRead, got, waitCursor, emitted, pendNotes, notes,
                         status, excused>>
  /\ UNCHANGED <<daemonVars, req, late>>

\* The deadline passes.
Tick ==
  /\ wpc \notin {"idle", "done"} /\ ~late
  /\ late' = TRUE
  /\ UNCHANGED <<daemonVars, req, loopVars>>

Acquire == Preflight \/ NextRound \/ ReadJournal \/ ReadFails \/ AppendRecord
             \/ Assess \/ CheckHealth

WaitDone == wpc = "done" /\ UNCHANGED waitVars

WaitNext ==
  \/ wpc # "done" /\ Daemon   \* what follows the result is of no interest
  \/ \E s \in 0..WaitRx, timed \in BOOLEAN : StartWait(s, timed)
  \/ TakeMark \/ WriteDone
  \/ Acquire \/ Tick \/ WaitDone

WaitSpec == WaitInit /\ [][WaitNext]_waitVars

-----------------------------------------------------------------------------
(***************************************************************************)
(* Properties.                                                             *)
(***************************************************************************)

\* What was acquired is exactly the chunks after the boundary, in order, up
\* to the cursor: none older, none twice, and none skipped unless the wait
\* reports a gap (wait.rs run, evidence.rs read, transact's boundary).
AcquiredAfterBoundary ==
  /\ \A i \in DOMAIN got : got[i] > req.since
  /\ ~envelope.gap =>
       /\ got = [i \in 1..(waitCursor - req.since) |-> req.since + i]

\* A match is a reply on one connection: every acquired byte came over the
\* connection the daemon reports after the bytes were read, whatever
\* unplugging and replugging went on between (the generation checks of run).
MatchIsOneConnection ==
  status = "matched" =>
    \E g \in 1..WaitGens : \A i \in DOMAIN got : rxChunk[got[i]].gen = g

\* A gap is real: with a journal that has lost nothing, a wait whose first
\* status came in time from a healthy daemon of its epoch never reports one,
\* however far the journal lags behind the boundary (the preflight of run).
GapIsReal ==
  status = "gap" => lost # {} \/ floor > 0 \/ excused \/ epoch # 1

\* The result and the lines emitted before it stay within the output budget
\* whatever diagnostics are added at the end: the error "output byte budget
\* accounting failed" is never reached (Diagnostics::push, FINISH_RESERVE).
OutputWithinBudget ==
  wpc = "done" /\ status # "refused" =>
    emitted + ResultLen(got) + notes.len + 1 <= MaxOutput

\* Every wait ends: its own steps and the clock are enough.
WaitEnds == (wpc = "top") ~> (wpc = "done")

\* A bounded wait reports the bytes after its boundary and no others, a match on one connection
\* only, a gap only where something is missing, all within its output budget, over reconnects,
\* restarts of the daemon and a journal that lags (wait.rs run).
WaitIsHonest ==
  /\ WaitTypeOK
  /\ AcquiredAfterBoundary
  /\ MatchIsOneConnection
  /\ GapIsReal
  /\ OutputWithinBudget
=============================================================================
