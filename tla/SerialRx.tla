------------------------------ MODULE SerialRx ------------------------------
(***************************************************************************)
(* The receive side of one serial interface of the serialcap daemon        *)
(* (serialcap/src/serial_io.rs, server.rs): the supervisor numbers each    *)
(* chunk it reads, tees it to the capture thread, and publishes it to the  *)
(* scrollback ring and to the live clients; a client attaches with a       *)
(* snapshot of the ring and a subscription to what follows.                *)
(*                                                                         *)
(* Bytes are positions in the published stream: the ring is the window     *)
(* that ends at `pushed`, and chunk k covers the positions up to ends[k].  *)
(* The write side is module SerialPort, the journal module SerialJournal.  *)
(***************************************************************************)
EXTENDS Integers, Sequences

CONSTANTS
  Clients,       \* WebSocket clients of GET /stream
  PortTask,      \* the supervisor, as a holder of the ring lock
  NoHolder,      \* no holder
  RingBytes,     \* RING_BYTES
  BroadcastCap,  \* BROADCAST_CAP, messages the broadcast channel retains
  Sizes,         \* sizes of a chunk
  MaxRx,         \* bound on the chunks received
  MaxMarkers     \* bound on the markers injected

ASSUME RxAssumption ==
  /\ PortTask \notin Clients
  /\ NoHolder \notin Clients \cup {PortTask}
  /\ RingBytes \in Nat \ {0}
  /\ BroadcastCap \in Nat \ {0}
  /\ Sizes \subseteq Nat \ {0}
  /\ MaxRx \in Nat
  /\ MaxMarkers \in Nat

VARIABLES
  pc,          \* where the supervisor is in publishing a chunk
  chunk,       \* the chunk it publishes: its receive number (0: a marker) and size
  lastRx,      \* Health.last_rx_seq
  markers,     \* markers emitted so far
  queue,       \* the capture channel (line_tx / rx): receive numbers
  alive,       \* the capture thread runs
  captureAlive, \* Health.capture_alive
  captured,    \* Health.capture_through_seq
  evidence,    \* Health.evidence_through_seq
  fault,       \* Health.evidence_error is set
  journaled,   \* history: the chunks the journal took
  lock,        \* the holder of the ring lock
  pushed,      \* bytes ever pushed to the ring
  ringLen,     \* bytes the ring holds
  ends,        \* ends[k]: stream position after the k-th broadcast message
  cst,         \* cst[c]: where client c is
  next,        \* next[c]: number of the next message of c's subscription
  first,       \* history: first[c], number of the first message after attach
  from,        \* history: from[c], where c's snapshot begins
  shown,       \* history: shown[c], bytes sent to c
  taken,       \* history: taken[c], messages sent to c
  dropped      \* history: dropped[c], messages reported to c as dropped

supVars    == <<pc, chunk, lastRx, markers>>
capVars    == <<queue, alive, captureAlive, captured, evidence, fault, journaled>>
ringVars   == <<lock, pushed, ringLen, ends>>
clientVars == <<cst, next, first, from, shown, taken, dropped>>
rxVars == <<supVars, capVars, ringVars, clientVars>>

Min2(a, b) == IF a < b THEN a ELSE b

\* Stream position after k messages.
EndOf(k) == IF k = 0 THEN 0 ELSE ends[k]

RxTypeOK ==
  /\ pc \in {"idle", "tee", "publish", "pushed"}
  /\ chunk \in [rx : Nat, size : Nat]
  /\ lastRx \in Nat
  /\ markers \in Nat
  /\ queue \in Seq(Nat)
  /\ alive \in BOOLEAN
  /\ captureAlive \in BOOLEAN
  /\ captured \in Nat
  /\ evidence \in Nat
  /\ fault \in BOOLEAN
  /\ journaled \in SUBSET Nat
  /\ lock \in Clients \cup {PortTask, NoHolder}
  /\ pushed \in Nat
  /\ ringLen \in 0..RingBytes
  /\ ends \in Seq(Nat)
  /\ cst \in [Clients -> {"out", "attaching", "live", "gone"}]
  /\ next \in [Clients -> Nat]
  /\ first \in [Clients -> Nat]
  /\ from \in [Clients -> Nat]
  /\ shown \in [Clients -> Nat]
  /\ taken \in [Clients -> Nat]
  /\ dropped \in [Clients -> Nat]

RxInit ==
  /\ pc = "idle"
  /\ chunk = [rx |-> 0, size |-> 0]
  /\ lastRx = 0
  /\ markers = 0
  /\ queue = <<>>
  /\ alive = TRUE
  /\ captureAlive = TRUE
  /\ captured = 0
  /\ evidence = 0
  /\ fault \in BOOLEAN
  /\ journaled = {}
  /\ lock = NoHolder
  /\ pushed = 0
  /\ ringLen = 0
  /\ ends = <<>>
  /\ cst = [c \in Clients |-> "out"]
  /\ next = [c \in Clients |-> 1]
  /\ first = [c \in Clients |-> 1]
  /\ from = [c \in Clients |-> 0]
  /\ shown = [c \in Clients |-> 0]
  /\ taken = [c \in Clients |-> 0]
  /\ dropped = [c \in Clients |-> 0]

-----------------------------------------------------------------------------
(***************************************************************************)
(* The supervisor.                                                         *)
(***************************************************************************)

\* The read arm got n bytes: number the chunk under the status lock.
Receive(n) ==
  /\ pc = "idle"
  /\ lastRx < MaxRx
  /\ lastRx' = lastRx + 1
  /\ chunk' = [rx |-> lastRx + 1, size |-> n]
  /\ pc' = "tee"
  /\ UNCHANGED <<markers, capVars, ringVars, clientVars>>

\* A connect, disconnect or button marker: a chunk without a number.
EmitMarker(n) ==
  /\ pc = "idle"
  /\ markers < MaxMarkers
  /\ markers' = markers + 1
  /\ chunk' = [rx |-> 0, size |-> n]
  /\ pc' = "tee"
  /\ UNCHANGED <<lastRx, capVars, ringVars, clientVars>>

\* The capture channel after the chunk was sent to it: it is unbounded, and
\* a send fails only when the capture thread is gone.
Handed == IF alive THEN Append(queue, chunk.rx) ELSE queue

\* Hand the chunk to the capture thread; a dead one is noticed only when a
\* received chunk (not a marker) cannot be sent.
Tee ==
  /\ pc = "tee"
  /\ queue' = Handed
  /\ captureAlive' = (captureAlive /\ (alive \/ chunk.rx = 0))
  /\ pc' = "publish"
  /\ UNCHANGED <<chunk, lastRx, markers, alive, captured, evidence,
                 fault, journaled, ringVars, clientVars>>

\* push_ring: the length of the ring after n more bytes.
RingAfter(n) == Min2(ringLen + n, RingBytes)

\* Mutant: the ring is pushed to outside the lock.
PushUnlocked ==
  /\ pc = "publish"
  /\ pushed' = pushed + chunk.size
  /\ ringLen' = RingAfter(chunk.size)
  /\ pc' = "pushed"
  /\ UNCHANGED <<chunk, lastRx, markers, capVars, lock, ends, clientVars>>

\* publish_live takes the ring lock and pushes the chunk (push_ring).
PushRing ==
  /\ pc = "publish"
  /\ lock = NoHolder
  /\ lock' = PortTask
  /\ pushed' = pushed + chunk.size
  /\ ringLen' = RingAfter(chunk.size)
  /\ pc' = "pushed"
  /\ UNCHANGED <<chunk, lastRx, markers, capVars, ends, clientVars>>

\* publish_live broadcasts the chunk and drops the lock.
SendLive ==
  /\ pc = "pushed"
  /\ ends' = Append(ends, EndOf(Len(ends)) + chunk.size)
  /\ lock' = IF lock = PortTask THEN NoHolder ELSE lock
  /\ pc' = "idle"
  /\ UNCHANGED <<chunk, lastRx, markers, capVars, pushed, ringLen, clientVars>>

-----------------------------------------------------------------------------
(***************************************************************************)
(* The capture thread.                                                     *)
(***************************************************************************)

\* Health.evidence_through_seq after journaling chunk n.
EvidenceAfter(n, ok) == IF ok THEN n ELSE evidence

\* One chunk: into the line log, and a received one into the journal, which
\* may fail; then both watermarks are published under the status lock.
Capture ==
  /\ alive
  /\ queue # <<>>
  /\ queue' = Tail(queue)
  /\ \/ /\ Head(queue) = 0
        /\ UNCHANGED <<captured, evidence, fault, journaled>>
     \/ /\ Head(queue) # 0
        /\ captured' = Head(queue)
        /\ \E ok \in BOOLEAN :
             /\ evidence' = EvidenceAfter(Head(queue), ok)
             /\ fault' = (fault \/ ~ok)
             /\ journaled' = journaled \cup {n \in {Head(queue)} : ok}
  /\ UNCHANGED <<supVars, alive, captureAlive, ringVars, clientVars>>

\* The capture thread dies (a panic); what was queued is lost with it.
CaptureDies ==
  /\ alive
  /\ alive' = FALSE
  /\ queue' = <<>>
  /\ UNCHANGED <<supVars, captureAlive, captured, evidence, fault, journaled,
                 ringVars, clientVars>>

-----------------------------------------------------------------------------
(***************************************************************************)
(* Clients.                                                                *)
(***************************************************************************)

\* SerialHandle::attach, under the ring lock: subscribe ...
AttachSubscribe(c) ==
  /\ cst[c] = "out"
  /\ lock = NoHolder
  /\ lock' = c
  /\ cst' = [cst EXCEPT ![c] = "attaching"]
  /\ next' = [next EXCEPT ![c] = Len(ends) + 1]
  /\ first' = [first EXCEPT ![c] = Len(ends) + 1]
  /\ UNCHANGED <<supVars, capVars, pushed, ringLen, ends, from, shown, taken,
                 dropped>>

\* ... and copy the ring.  The snapshot is the first thing sent.
AttachSnapshot(c) ==
  /\ cst[c] = "attaching"
  /\ lock' = NoHolder
  /\ cst' = [cst EXCEPT ![c] = "live"]
  /\ from' = [from EXCEPT ![c] = pushed - ringLen]
  /\ shown' = [shown EXCEPT ![c] = ringLen]
  /\ UNCHANGED <<supVars, capVars, pushed, ringLen, ends, next, first, taken,
                 dropped>>

\* The oldest message the broadcast channel still holds.
Oldest == IF Len(ends) > BroadcastCap THEN Len(ends) - BroadcastCap + 1 ELSE 1

\* The send task receives a message and forwards it.
Forward(c) ==
  /\ cst[c] = "live"
  /\ next[c] <= Len(ends)
  /\ next[c] >= Oldest
  /\ shown' = [shown EXCEPT ![c] = @ + (ends[next[c]] - EndOf(next[c] - 1))]
  /\ taken' = [taken EXCEPT ![c] = @ + 1]
  /\ next' = [next EXCEPT ![c] = @ + 1]
  /\ UNCHANGED <<supVars, capVars, ringVars, cst, first, from, dropped>>

\* How many messages RecvError::Lagged reports.
Skipped(c) == Oldest - next[c]

\* The subscription fell behind: its loss goes into the stream as a marker.
Lagged(c) ==
  /\ cst[c] = "live"
  /\ next[c] < Oldest
  /\ dropped' = [dropped EXCEPT ![c] = @ + Skipped(c)]
  /\ next' = [next EXCEPT ![c] = Oldest]
  /\ UNCHANGED <<supVars, capVars, ringVars, cst, first, from, shown, taken>>

Detach(c) ==
  /\ cst[c] = "live"
  /\ cst' = [cst EXCEPT ![c] = "gone"]
  /\ UNCHANGED <<supVars, capVars, ringVars, next, first, from, shown, taken,
                 dropped>>

Client(c) ==
  AttachSubscribe(c) \/ AttachSnapshot(c) \/ Forward(c) \/ Lagged(c) \/ Detach(c)

Publish == Tee \/ PushRing \/ SendLive

Quiescent ==
  /\ pc = "idle"
  /\ lastRx = MaxRx
  /\ markers = MaxMarkers
  /\ queue = <<>>
  /\ UNCHANGED rxVars

RxNext ==
  \/ \E n \in Sizes : Receive(n) \/ EmitMarker(n)
  \/ Publish
  \/ Capture
  \/ CaptureDies
  \/ \E c \in Clients : Client(c)
  \/ Quiescent

RxSpec == RxInit /\ [][RxNext]_rxVars

\* The supervisor's task, the capture thread and the clients' send tasks keep
\* running; nothing obliges the target to send or a client to attach.
RxFairSpec ==
  /\ RxSpec
  /\ WF_rxVars(Publish)
  /\ WF_rxVars(Capture)
  /\ \A c \in Clients :
       /\ WF_rxVars(AttachSnapshot(c))
       /\ WF_rxVars(Forward(c) \/ Lagged(c))

-----------------------------------------------------------------------------
(***************************************************************************)
(* Properties.                                                             *)
(***************************************************************************)

\* A client's snapshot and subscription tile the stream: the messages it was
\* sent and those it was told it lost are all that followed its snapshot,
\* and with no loss it was shown exactly the bytes from the start of the
\* snapshot to the last message, none twice and none missing (attach,
\* publish_live, the lagged marker of handle_ws).
ExactlyOnce ==
  \A c \in Clients : cst[c] \in {"live", "gone"} =>
    /\ first[c] + taken[c] + dropped[c] = next[c]
    /\ dropped[c] = 0 => from[c] + shown[c] = EndOf(next[c] - 1)

\* The watermarks of GET /status never run ahead of what they count: the
\* journal's names a chunk the journal took, it never passes the capture's
\* nor that the receive counter, and while no fault is shown the journal has
\* every chunk up to both.
Watermarks ==
  /\ evidence <= captured
  /\ captured <= lastRx
  /\ evidence # 0 => evidence \in journaled
  /\ ~fault => evidence = captured /\ 1..captured \subseteq journaled

\* The capture thread gets every received chunk, once and in order: the
\* numbers in its channel are those from the watermark to the last chunk
\* handed over, ascending (the read arm's tee, spawn_capture).
CaptureComplete ==
  alive =>
    LET handed == IF pc = "tee" /\ chunk.rx # 0 THEN lastRx - 1 ELSE lastRx
    IN /\ {queue[i] : i \in DOMAIN queue} \ {0} = (captured + 1)..handed
       /\ \A i, j \in DOMAIN queue :
            i < j /\ queue[i] # 0 /\ queue[j] # 0 => queue[i] < queue[j]

\* A client that stays gets to the end of what was published, or is told
\* that it lost it.
ClientCatchesUp ==
  \A c \in Clients :
    cst[c] = "live" ~> (cst[c] = "gone" \/ next[c] = Len(ends) + 1)

\* While the capture thread lives, everything received is captured.
CaptureCatchesUp ==
  \A n \in 1..MaxRx : lastRx >= n ~> (captured >= n \/ ~alive)

\* No received chunk is lost, repeated or reordered on its way to a client or to the capture
\* thread without the client being told, or the status showing it (Shared, handle_ws, capture).
RxIsComplete ==
  /\ RxTypeOK
  /\ ExactlyOnce
  /\ Watermarks
  /\ CaptureComplete
=============================================================================
