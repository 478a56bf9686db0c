----------------------------- MODULE SerialPort -----------------------------
(***************************************************************************)
(* The write side of one serial interface of the serialcap daemon          *)
(* (serialcap/src/serial_io.rs, server.rs, transact.rs).                   *)
(*                                                                         *)
(* A supervisor task owns the port: it opens it, runs one `select!` loop   *)
(* over the open port, and reopens it after a loss.  Callers reach it      *)
(* through a bounded channel of write requests; the supervisor moves them  *)
(* to its outbox and hands the driver one bounded slice per pass.  Plain   *)
(* inputs (POST /input, WebSocket keystrokes) take the interface's         *)
(* transaction lock shared and only by trying; transactions (POST          *)
(* /transact) take it exclusively and queue for it.  Button presses (POST  *)
(* /button) go through a channel of their own.                             *)
(*                                                                         *)
(* A caller makes one call, so a write request is named by its caller.     *)
(* Bytes are counted, not named.  The receive side is module SerialRx.     *)
(***************************************************************************)
EXTENDS Integers, Sequences, FiniteSets

CONSTANTS
  Inputs,      \* plain writers: one POST /input or keystroke message each
  Txns,        \* transactions: one POST /transact each
  Pressers,    \* button presses: one POST /button each
  Nobody,      \* not a caller
  Size,        \* Size[c]: bytes caller c asks to write
  Paced,       \* the callers that asked for per-byte pacing
  WriteChunk,  \* WRITE_CHUNK, bytes offered to the driver per pass
  WriteCap,    \* WRITE_CAP, capacity of the write channel
  HighWater,   \* OUTBOX_HIGH_WATER
  MaxGen       \* bound on the number of successful opens

Writers == Inputs \cup Txns

ASSUME CallersAssumption ==
  /\ Inputs \cap Txns = {}
  /\ Nobody \notin Inputs \cup Txns \cup Pressers
  /\ Size \in [Writers -> Nat \ {0}]
  /\ Paced \subseteq Writers

ASSUME BoundsAssumption ==
  /\ WriteChunk \in Nat \ {0}
  /\ WriteCap \in Nat \ {0}
  /\ HighWater \in Nat \ {0}
  /\ MaxGen \in Nat

VARIABLES
  sup,         \* where the supervisor is
  connected,   \* Status.connected
  generation,  \* Status.generation
  chan,        \* the write channel (write_tx / write_rx)
  outbox,      \* Outbox.queue
  cursor,      \* Outbox.cursor: bytes of the head already written
  pending,     \* Outbox.pending: bytes not yet written
  paceWait,    \* Outbox.next_byte is still in the future
  st,          \* st[c]: where caller c is in its call
  reqGen,      \* reqGen[c]: WriteRequest.generation
  readers,     \* inputs that hold the transaction lock shared
  holder,      \* the transaction that holds it exclusively, or Nobody
  waiters,     \* transactions queued for it, in arrival order
  expired,     \* transactions whose deadline has passed
  dtrChan,     \* the button channel (capacity 1)
  pressing,    \* the press in progress, or Nobody
  pst,         \* pst[p]: where presser p is in its call
  dtr,         \* the DTR line is asserted
  sent,        \* history: sent[c] bytes of c accepted by the driver
  sentGens,    \* history: the connections that carried them
  runs,        \* history: callers in wire order, repetitions collapsed
  intruded     \* history: intruded[t] plain bytes written while t held the lock

portVars  == <<sup, connected, generation>>
queueVars == <<chan, outbox, cursor, pending, paceWait>>
callVars  == <<st, reqGen>>
lockVars  == <<readers, holder, waiters, expired>>
dtrVars   == <<dtrChan, pressing, pst, dtr>>
wireVars  == <<sent, sentGens, runs, intruded>>
vars == <<portVars, queueVars, callVars, lockVars, dtrVars, wireVars>>

-----------------------------------------------------------------------------
SupStates == {"closed", "backoff", "top", "select", "pressing", "lost"}

\* A plain input is idle, blocked on the full channel, waiting for the
\* supervisor's reply, answered, finished, refused with 409, or hung up.
InputStates ==
  {"idle", "sending", "waiting", "acked", "nacked", "ok", "failed",
   "refused", "gone"}

\* A transaction also queues for the lock, holds it before its receive
\* boundary and before its write, and after the write waits for the reply.
TxnStates ==
  {"idle", "queued", "locked", "bounded", "sending", "waiting", "acked",
   "nacked", "replying", "done", "failed", "busy"}

PressStates == {"idle", "sending", "queued", "ok", "failed", "gone"}

TypeOK ==
  /\ sup \in SupStates
  /\ connected \in BOOLEAN
  /\ generation \in Nat
  /\ chan \in Seq(Writers)
  /\ outbox \in Seq(Writers)
  /\ cursor \in Nat
  /\ pending \in Int
  /\ paceWait \in BOOLEAN
  /\ st \in [Writers -> InputStates \cup TxnStates]
  /\ reqGen \in [Writers -> Nat]
  /\ readers \subseteq Inputs
  /\ holder \in Txns \cup {Nobody}
  /\ waiters \in Seq(Txns)
  /\ expired \subseteq Txns
  /\ dtrChan \in Seq(Pressers)
  /\ pressing \in Pressers \cup {Nobody}
  /\ pst \in [Pressers -> PressStates]
  /\ dtr \in BOOLEAN
  /\ sent \in [Writers -> Nat]
  /\ sentGens \in [Writers -> SUBSET Nat]
  /\ runs \in Seq(Writers)
  /\ intruded \in [Txns -> Nat]

Init ==
  /\ sup = "closed"
  /\ connected = FALSE
  /\ generation = 0
  /\ chan = <<>>
  /\ outbox = <<>>
  /\ cursor = 0
  /\ pending = 0
  /\ paceWait = FALSE
  /\ st = [c \in Writers |-> "idle"]
  /\ reqGen = [c \in Writers |-> 0]
  /\ readers = {}
  /\ holder = Nobody
  /\ waiters = <<>>
  /\ expired = {}
  /\ dtrChan = <<>>
  /\ pressing = Nobody
  /\ pst = [p \in Pressers |-> "idle"]
  /\ dtr = FALSE
  /\ sent = [c \in Writers |-> 0]
  /\ sentGens = [c \in Writers |-> {}]
  /\ runs = <<>>
  /\ intruded = [t \in Txns |-> 0]

-----------------------------------------------------------------------------
(***************************************************************************)
(* The write request and the outbox.                                       *)
(***************************************************************************)

\* WriteRequest::cancelled: the caller dropped the reply channel.
Cancelled(c) == st[c] = "gone"

\* The callers in set S get reply r; a hung-up caller hears nothing.
Reply(S, r) ==
  st' = [c \in Writers |-> IF c \in S /\ st[c] = "waiting" THEN r ELSE st[c]]

\* Outbox::front: how many bytes of the head are offered in one pass.
Slice ==
  LET head == Head(outbox)
      left == Size[head] - cursor
      chunk == IF head \in Paced THEN 1 ELSE WriteChunk
  IN IF chunk < left THEN chunk ELSE left

\* Outbox::ready.
Ready == pending # 0 /\ ~paceWait

QueuedCallers == {outbox[i] : i \in 1..Len(outbox)}

\* Mutants of the three decisions below.
SliceFinished(n) == n = Slice
PushedFront(c) == <<c>> \o outbox
AnyConnection(c) == TRUE

\* Outbox::consume: these n bytes finish the head.
Finished(n) == cursor + n = Size[Head(outbox)]

\* Outbox::enqueue: the request goes to the back of the queue.
Enqueued(c) == Append(outbox, c)

\* The request was submitted on the connection that is now open.
Current(c) == reqGen[c] = generation

-----------------------------------------------------------------------------
(***************************************************************************)
(* The supervisor.                                                         *)
(***************************************************************************)

\* The open succeeds: a new connection with an empty outbox, DTR released.
OpenOk ==
  /\ sup = "closed"
  /\ generation < MaxGen
  /\ sup' = "top"
  /\ connected' = TRUE
  /\ generation' = generation + 1
  /\ dtr' = FALSE
  /\ UNCHANGED <<queueVars, callVars, lockVars, dtrChan, pressing, pst, wireVars>>

OpenFail ==
  /\ sup = "closed"
  /\ sup' = "backoff"
  /\ connected' = FALSE
  /\ UNCHANGED <<generation, queueVars, callVars, lockVars, dtrVars, wireVars>>

\* While it waits to retry, the supervisor fails every request it receives.
BackoffRefuse ==
  /\ sup = "backoff"
  /\ chan # <<>>
  /\ Reply({Head(chan)}, "nacked")
  /\ chan' = Tail(chan)
  /\ UNCHANGED <<portVars, outbox, cursor, pending, paceWait, reqGen,
                 lockVars, dtrVars, wireVars>>

BackoffEnd ==
  /\ sup = "backoff"
  /\ sup' = "closed"
  /\ UNCHANGED <<connected, generation, queueVars, callVars, lockVars,
                 dtrVars, wireVars>>

\* One iteration of Outbox::discard_cancelled at the top of a pass.
DiscardCancelled ==
  /\ sup = "top"
  /\ outbox # <<>>
  /\ Cancelled(Head(outbox))
  /\ outbox' = Tail(outbox)
  /\ pending' = pending - (Size[Head(outbox)] - cursor)
  /\ cursor' = 0
  /\ UNCHANGED <<portVars, chan, paceWait, callVars, lockVars, dtrVars, wireVars>>

\* The head is live (or there is none): the pass enters select!, whose
\* write arm from now on offers that head's slice.
EnterSelect ==
  /\ sup = "top"
  /\ outbox # <<>> => ~Cancelled(Head(outbox))
  /\ sup' = "select"
  /\ UNCHANGED <<connected, generation, queueVars, callVars, lockVars,
                 dtrVars, wireVars>>

\* The read arm.  What it does with the bytes is module SerialRx; to the
\* write side it ends the pass.  So do the timer arm, which wakes a pass
\* whose outbox is not empty, and a write the driver does not take now.
ReadArm ==
  /\ sup = "select"
  /\ sup' = "top"
  /\ UNCHANGED <<connected, generation, queueVars, callVars, lockVars,
                 dtrVars, wireVars>>

\* The driver accepts n bytes of the head, and Outbox::consume accounts for
\* them, acknowledging a finished request.
Consume(n) ==
  LET head == Head(outbox) IN
  /\ sent' = [sent EXCEPT ![head] = @ + n]
  /\ sentGens' = [sentGens EXCEPT ![head] = @ \cup {generation}]
  /\ runs' = IF runs # <<>> /\ runs[Len(runs)] = head
               THEN runs ELSE Append(runs, head)
  /\ intruded' = IF head \in Inputs /\ holder # Nobody
                   THEN [intruded EXCEPT ![holder] = @ + n]
                   ELSE intruded
  /\ pending' = pending - n
  /\ paceWait' = (head \in Paced)
  /\ IF Finished(n)
       THEN /\ outbox' = Tail(outbox)
            /\ cursor' = 0
            /\ Reply({head}, "acked")
       ELSE /\ cursor' = cursor + n
            /\ UNCHANGED <<outbox, st>>

\* The write arm: the driver takes some of the offered slice.  (An empty
\* slice is written as Ok(0), which changes nothing.)
WriteArm ==
  /\ sup = "select"
  /\ Ready
  /\ outbox # <<>>
  /\ \E n \in 1..Slice : Consume(n)
  /\ sup' = "top"
  /\ UNCHANGED <<connected, generation, chan, reqGen, lockVars, dtrVars>>

\* The pace deadline Outbox.next_byte passes: the timer arm wakes a pass that
\* waits in select!, since its write arm was off when the pass began.
PaceTick ==
  /\ paceWait
  /\ paceWait' = FALSE
  /\ sup' = IF sup = "select" THEN "top" ELSE sup
  /\ UNCHANGED <<connected, generation, chan, outbox, cursor, pending,
                 callVars, lockVars, dtrVars, wireVars>>

\* The receive-request arm, off past the high-water mark: a request from an
\* earlier connection is refused, any other joins the outbox (Outbox::enqueue).
RequestArm ==
  /\ sup = "select"
  /\ chan # <<>>
  /\ pending < HighWater
  /\ LET c == Head(chan) IN
       IF Current(c)
         THEN /\ outbox' = Enqueued(c)
              /\ pending' = pending + Size[c]
              /\ UNCHANGED st
         ELSE /\ Reply({c}, "nacked")
              /\ UNCHANGED <<outbox, pending>>
  /\ chan' = Tail(chan)
  /\ sup' = "top"
  /\ UNCHANGED <<connected, generation, cursor, paceWait, reqGen, lockVars,
                 dtrVars, wireVars>>

\* The ioctl that sets the line, which may fail and leave it alone
\* (pulse_dtr calls it with true and then, whatever happened, with false).
SetDtr(level) == {level, dtr}

\* The button arm: leave the loop with the port open and assert DTR.
PressArm ==
  /\ sup = "select"
  /\ dtrChan # <<>>
  /\ pressing' = Head(dtrChan)
  /\ dtrChan' = Tail(dtrChan)
  /\ dtr' \in SetDtr(TRUE)
  /\ sup' = "pressing"
  /\ UNCHANGED <<connected, generation, queueVars, callVars, lockVars, pst,
                 wireVars>>

AnswerPress(r) ==
  /\ pressing' = Nobody
  /\ pst' = [pst EXCEPT ![pressing] = IF @ = "queued" THEN r ELSE @]

\* Both ioctls worked (so the line was asserted): answer, resume the loop.
PressOk ==
  /\ sup = "pressing"
  /\ dtr
  /\ dtr' = FALSE
  /\ AnswerPress("ok")
  /\ sup' = "top"
  /\ UNCHANGED <<connected, generation, queueVars, callVars, lockVars,
                 dtrChan, wireVars>>

\* An ioctl failed: the line may still be asserted.  The handle is closed.
PressFail ==
  /\ sup = "pressing"
  /\ dtr' \in SetDtr(FALSE)
  /\ AnswerPress("failed")
  /\ connected' = FALSE
  /\ sup' = "lost"
  /\ UNCHANGED <<generation, queueVars, callVars, lockVars, dtrChan, wireVars>>

\* A read or write error, or EOF on a pty.
Disconnect ==
  /\ sup = "select"
  /\ connected' = FALSE
  /\ sup' = "lost"
  /\ UNCHANGED <<generation, queueVars, callVars, lockVars, dtrVars, wireVars>>

\* Mutant: the outbox goes without answering (Outbox without its Drop).
DropSilently ==
  /\ sup = "lost"
  /\ outbox' = <<>>
  /\ cursor' = 0
  /\ pending' = 0
  /\ paceWait' = FALSE
  /\ sup' = "closed"
  /\ UNCHANGED <<connected, generation, chan, callVars, lockVars, dtrVars,
                 wireVars>>

\* REOPEN_DELAY is over: the outbox is dropped, failing every request in it.
DropOutbox ==
  /\ sup = "lost"
  /\ Reply(QueuedCallers, "nacked")
  /\ outbox' = <<>>
  /\ cursor' = 0
  /\ pending' = 0
  /\ paceWait' = FALSE
  /\ sup' = "closed"
  /\ UNCHANGED <<connected, generation, chan, reqGen, lockVars, dtrVars,
                 wireVars>>

Supervisor ==
  \/ OpenOk \/ OpenFail \/ BackoffRefuse \/ BackoffEnd \/ DiscardCancelled
  \/ EnterSelect \/ ReadArm \/ WriteArm \/ PaceTick \/ RequestArm
  \/ PressArm \/ PressOk \/ PressFail \/ Disconnect \/ DropOutbox

-----------------------------------------------------------------------------
(***************************************************************************)
(* Callers.                                                                *)
(***************************************************************************)

\* SerialHandle::write_paced up to its first wait: refuse a disconnected
\* interface, else bind the request to the current connection.
BeginWrite(c) ==
  /\ st' = [st EXCEPT ![c] = IF connected THEN "sending" ELSE "nacked"]
  /\ reqGen' = [reqGen EXCEPT ![c] = generation]

\* Mutants: a plain input ignores the holder, or takes the lock exclusively.
QueueEmpty == waiters = <<>>

\* try_read: the lock refuses while a transaction holds it or is queued for it.
LockFree == holder = Nobody /\ waiters = <<>>

\* POST /input or a keystroke: try the lock, then begin the write under it.
TryInput(i) ==
  /\ st[i] = "idle"
  /\ IF LockFree
       THEN /\ readers' = readers \cup {i}
            /\ BeginWrite(i)
       ELSE /\ st' = [st EXCEPT ![i] = "refused"]
            /\ UNCHANGED <<readers, reqGen>>
  /\ UNCHANGED <<portVars, queueVars, holder, waiters, expired, dtrVars, wireVars>>

\* The request enters the bounded channel.
Enqueue(c) ==
  /\ st[c] = "sending"
  /\ Len(chan) < WriteCap
  /\ chan' = Append(chan, c)
  /\ st' = [st EXCEPT ![c] = "waiting"]
  /\ UNCHANGED <<portVars, outbox, cursor, pending, paceWait, reqGen,
                 lockVars, dtrVars, wireVars>>

\* The handler sees the reply, answers the client and drops its guard.
FinishInput(i) ==
  /\ st[i] \in {"acked", "nacked"}
  /\ st' = [st EXCEPT ![i] = IF @ = "acked" THEN "ok" ELSE "failed"]
  /\ readers' = readers \ {i}
  /\ UNCHANGED <<portVars, queueVars, reqGen, holder, waiters, expired,
                 dtrVars, wireVars>>

\* The client disconnects: its handler's future is dropped, and with it the
\* guard and the reply channel.  A request already sent stays where it is.
HangUp(i) ==
  /\ st[i] \in {"sending", "waiting", "acked", "nacked"}
  /\ st' = [st EXCEPT ![i] = "gone"]
  /\ readers' = readers \ {i}
  /\ UNCHANGED <<portVars, queueVars, reqGen, holder, waiters, expired,
                 dtrVars, wireVars>>

\* POST /transact: the spawned task queues for the lock.
QueueTxn(t) ==
  /\ st[t] = "idle"
  /\ st' = [st EXCEPT ![t] = "queued"]
  /\ waiters' = Append(waiters, t)
  /\ UNCHANGED <<portVars, queueVars, reqGen, readers, holder, expired,
                 dtrVars, wireVars>>

\* The lock goes to the first waiter once nobody holds it.
Grant(t) ==
  /\ st[t] = "queued"
  /\ waiters # <<>>
  /\ t = Head(waiters)
  /\ holder = Nobody
  /\ readers = {}
  /\ holder' = t
  /\ waiters' = Tail(waiters)
  /\ st' = [st EXCEPT ![t] = "locked"]
  /\ UNCHANGED <<portVars, queueVars, reqGen, readers, expired, dtrVars, wireVars>>

\* The deadline of the call passes.
Expire(t) ==
  /\ st[t] \notin {"idle", "done", "failed", "busy"}
  /\ t \notin expired
  /\ expired' = expired \cup {t}
  /\ UNCHANGED <<portVars, queueVars, callVars, readers, holder, waiters,
                 dtrVars, wireVars>>

\* timeout_at around the lock: a queued transaction past its deadline
\* leaves the queue and is refused as busy.
GiveUpQueued(t) ==
  /\ st[t] = "queued"
  /\ t \in expired
  /\ st' = [st EXCEPT ![t] = "busy"]
  /\ \E k \in 1..Len(waiters) :
       /\ waiters[k] = t
       /\ waiters' = SubSeq(waiters, 1, k - 1) \o SubSeq(waiters, k + 1, Len(waiters))
  /\ UNCHANGED <<portVars, queueVars, reqGen, readers, holder, expired,
                 dtrVars, wireVars>>

\* The receive boundary: refuse a disconnected interface before writing.
TakeBoundary(t) ==
  /\ st[t] = "locked"
  /\ st' = [st EXCEPT ![t] = IF connected THEN "bounded" ELSE "failed"]
  /\ holder' = IF connected THEN holder ELSE Nobody
  /\ UNCHANGED <<portVars, queueVars, reqGen, readers, waiters, expired,
                 dtrVars, wireVars>>

\* write_paced, which reads the status again.
TxnWrite(t) ==
  /\ st[t] = "bounded"
  /\ BeginWrite(t)
  /\ UNCHANGED <<portVars, queueVars, lockVars, dtrVars, wireVars>>

\* The write was acknowledged: wait for the reply, still under the lock.
\* A failed write ends the transaction as unavailable.
AfterWrite(t) ==
  /\ st[t] \in {"acked", "nacked"}
  /\ st' = [st EXCEPT ![t] = IF @ = "acked" THEN "replying" ELSE "failed"]
  /\ holder' = IF st[t] = "acked" THEN holder ELSE Nobody
  /\ UNCHANGED <<portVars, queueVars, reqGen, readers, waiters, expired,
                 dtrVars, wireVars>>

\* wait::run returns (a match, a cap, a loss or its deadline).
EndTxn(t) ==
  /\ st[t] = "replying"
  /\ st' = [st EXCEPT ![t] = "done"]
  /\ holder' = Nobody
  /\ UNCHANGED <<portVars, queueVars, reqGen, readers, waiters, expired,
                 dtrVars, wireVars>>

\* SerialHandle::dtr_press: the request waits for a place in the channel.
Press(p) ==
  /\ pst[p] = "idle"
  /\ pst' = [pst EXCEPT ![p] = "sending"]
  /\ UNCHANGED <<portVars, queueVars, callVars, lockVars, dtrChan, pressing,
                 dtr, wireVars>>

QueuePress(p) ==
  /\ pst[p] = "sending"
  /\ dtrChan = <<>>
  /\ dtrChan' = <<p>>
  /\ pst' = [pst EXCEPT ![p] = "queued"]
  /\ UNCHANGED <<portVars, queueVars, callVars, lockVars, pressing, dtr, wireVars>>

\* The client of a press disconnects; a press already queued still happens.
HangUpPress(p) ==
  /\ pst[p] \in {"sending", "queued"}
  /\ pst' = [pst EXCEPT ![p] = "gone"]
  /\ UNCHANGED <<portVars, queueVars, callVars, lockVars, dtrChan, pressing,
                 dtr, wireVars>>

Callers ==
  \/ \E c \in Writers : Enqueue(c)
  \/ \E i \in Inputs : TryInput(i) \/ FinishInput(i) \/ HangUp(i)
  \/ \E t \in Txns :
       \/ QueueTxn(t) \/ Grant(t) \/ Expire(t) \/ GiveUpQueued(t)
       \/ TakeBoundary(t) \/ TxnWrite(t) \/ AfterWrite(t) \/ EndTxn(t)
  \/ \E p \in Pressers : Press(p) \/ QueuePress(p) \/ HangUpPress(p)

Next == Supervisor \/ Callers

Spec == Init /\ [][Next]_vars

-----------------------------------------------------------------------------
(***************************************************************************)
(* Fairness.  tokio polls every ready task and `select!` picks at random   *)
(* among its ready arms, so an arm that is ready again and again is taken: *)
(* strong fairness for the arms, weak fairness for the steps nothing can   *)
(* disable.  The driver is not the daemon's to schedule, so the write arm  *)
(* is fair only in FairSpec, where the driver keeps accepting bytes.       *)
(***************************************************************************)
TaskFairness ==
  /\ WF_vars(OpenOk \/ OpenFail)
  /\ WF_vars(BackoffEnd)
  /\ SF_vars(BackoffRefuse)
  /\ WF_vars(DiscardCancelled)
  /\ WF_vars(EnterSelect)
  /\ SF_vars(RequestArm)
  /\ WF_vars(PaceTick)
  /\ WF_vars(PressOk \/ PressFail)
  /\ WF_vars(DropOutbox)
  /\ \A c \in Writers : SF_vars(Enqueue(c))
  /\ \A i \in Inputs : WF_vars(FinishInput(i))
  /\ \A t \in Txns :
       /\ WF_vars(Grant(t))
       /\ WF_vars(Expire(t))
       /\ WF_vars(GiveUpQueued(t))
       /\ WF_vars(TakeBoundary(t))
       /\ WF_vars(TxnWrite(t))
       /\ WF_vars(AfterWrite(t))
       /\ WF_vars(t \in expired /\ EndTxn(t))

FairSpec == Spec /\ TaskFairness /\ SF_vars(WriteArm)

-----------------------------------------------------------------------------
(***************************************************************************)
(* Properties.                                                             *)
(***************************************************************************)

\* An acknowledged write put every byte on the wire, all on one connection;
\* a caller refused with 409 (an input during a transaction, a transaction
\* that never got the lock) sent nothing (POST /input, POST /transact).
AckMeansSent ==
  \A c \in Writers :
    /\ st[c] \in {"acked", "ok", "replying", "done"} =>
         sent[c] = Size[c] /\ sentGens[c] = {reqGen[c]}
    /\ st[c] \in {"idle", "queued", "refused", "busy"} => sent[c] = 0

\* A write belongs to the connection it was submitted on and is never
\* replayed on another, nor written twice (write_paced, the generation check).
NoReplay ==
  \A c \in Writers :
    /\ sent[c] <= Size[c]
    /\ sentGens[c] \subseteq {reqGen[c]}

\* On the wire the bytes of one request are contiguous: no other request's
\* bytes fall between two of them, whatever is cancelled, lost or reopened.
ContiguousOnWire ==
  \A j, k \in 1..Len(runs) : runs[j] = runs[k] => j = k

\* The outbox's byte counter agrees with its queue, so the loop's write and
\* timer arms are off exactly when there is nothing to write
\* (Outbox::is_empty looks at the counter, Outbox::front at the queue).
PendingAgrees ==
  /\ (pending = 0) <=> (outbox = <<>>)
  /\ outbox # <<>> => cursor < Size[Head(outbox)] /\ pending >= Size[Head(outbox)] - cursor
  /\ outbox = <<>> => cursor = 0

\* No input that still has a caller writes while a transaction holds the
\* lock, and input whose caller hung up leaks at most the one slice that was
\* already offered to the driver (try_input's guard, discard_cancelled).
IntrusionBounded ==
  /\ holder # Nobody => \A i \in Inputs : st[i] \notin {"sending", "waiting"}
  /\ \A t \in Txns : intruded[t] <= WriteChunk

\* DTR, which may be the target's power button, is never left asserted while
\* the interface is in service: a failed release closes the port.
ButtonReleased == dtr => sup \notin {"top", "select"} /\ (connected => sup = "pressing")

\* Every request in the channel or the outbox is answered, across
\* disconnects, failed opens and cancelled neighbours.
EveryWriteAnswered == \A c \in Writers : st[c] = "waiting" ~> st[c] # "waiting"

TxnEnded(t) == st[t] \in {"done", "failed", "busy"}

\* A transaction whose deadline has passed ends and gives the lock up, so
\* one caller cannot hold the console for ever (Params::validate: "a
\* transaction holds a lock, so it must always end").
TransactionEnds == \A t \in Txns : t \in expired ~> TxnEnded(t)

\* The shared port passes from hand to hand whole: the outbox's counter and queue agree after
\* every cancel and drop, a transaction meets no live caller's input and at most one slice of a
\* departed one's, and no press leaves DTR asserted in service (port_supervisor, Outbox).
PortIsHandedOn ==
  /\ TypeOK
  /\ PendingAgrees
  /\ IntrusionBounded
  /\ ButtonReleased
=============================================================================
