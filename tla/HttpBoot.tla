------------------------------- MODULE HttpBoot -------------------------------
(***************************************************************************)
(* netbootd's HTTP boot server (src/netbootd/src/http.rs): the accept loop *)
(* and its slots, the request head and the body it declares, each on a     *)
(* clock, the answer written while the file it is read from changes, and   *)
(* keep-alive; with the path resolution it shares with TFTP (served.rs).   *)
(*                                                                         *)
(* The stream is counted in units.  A request is a record of its method,   *)
(* version, Connection header and target, of the units its head takes, of  *)
(* the units of body it declares and of those its client really sends.     *)
(***************************************************************************)
EXTENDS Integers, Sequences, FiniteSets, SequencesExt, FiniteSetsExt

CONSTANTS
    Clients,        \* TCP connections clients may open
    MaxConnections, \* MAX_CONNECTIONS: the slots
    MaxHead,        \* MAX_HEAD_BYTES, in units
    Window,         \* units the peer's kernel takes before the client reads
    Scripts,        \* the sequences of requests a client may send
    Tree,           \* the file system: path -> its kind and, for a link, where it leads
    HttpRoot,       \* the canonical path of --tftp-root
    Sizes,          \* the lengths a served file may have
    HttpFaults,     \* how many accepts and opens may fail
    FileChanges     \* how often a file may change length

ASSUME HttpAssumption ==
    /\ MaxConnections \in Nat \ {0} /\ MaxHead \in Nat \ {0} /\ Window \in Nat \ {0}
    /\ Sizes \subseteq Nat /\ Sizes # {}
    /\ HttpRoot \in DOMAIN Tree /\ Tree[HttpRoot].kind = "dir"

VARIABLES
    backlog,     \* connections the kernel queues, in order
    permits,     \* permits of the limiter
    holding,     \* the accept loop has taken its slot
    phase,       \* client -> where its handler is
    script,      \* client -> the requests it sends
    toSend,      \* client -> units it has not sent yet
    rx,          \* client -> units that arrived and were not read
    eof,         \* client -> it closed its side
    head,        \* client -> units of the head being read
    remaining,   \* client -> body units still to drain or to write
    answer,      \* client -> the header of the answer being written
    out,         \* client -> everything written to it
    unread,      \* client -> how many of those it has not read
    size,        \* served file -> its length now
    faults, fileChanges

httpVars == <<backlog, permits, holding, phase, script, toSend, rx, eof, head,
              remaining, answer, out, unread, size, faults, fileChanges>>
connVars == <<script, toSend, rx, eof, head, remaining, answer, out, unread>>

----------------------------------------------------------------------------
(* Paths.  A target is a sequence of characters; names have one character. *)

Gone == <<"gone">>
Files == {p \in DOMAIN Tree : Tree[p].kind = "file"}
Follow(p) == IF p \notin DOMAIN Tree THEN Gone
             ELSE IF Tree[p].kind = "link" THEN Tree[p].to ELSE p

(* One component of realpath: only a directory has entries. *)
Entered(at, name) ==
    IF at = Gone \/ Tree[at].kind # "dir" THEN Gone
    ELSE CASE name \in {<<>>, <<".">>} -> at
           [] name = <<".", ".">> -> IF at = <<>> THEN at ELSE Front(at)
           [] OTHER -> Follow(at \o name)

Canonicalize(from, chars) ==
    LET walk[i \in 0..Len(chars)] ==
            IF i = 0 THEN [at |-> from, name |-> <<>>]
            ELSE LET w == walk[i - 1]
                 IN IF chars[i] = "/" THEN [at |-> Entered(w.at, w.name), name |-> <<>>]
                    ELSE [at |-> w.at, name |-> Append(w.name, chars[i])]
        end == walk[Len(chars)]
    IN Entered(end.at, end.name)

Relative(chars) ==
    LET rel == SelectInSeq(chars, LAMBDA ch : ch # "/")
    IN IF rel = 0 THEN <<>> ELSE SubSeq(chars, rel, Len(chars))
Resolve(chars) ==
    LET canon == Canonicalize(HttpRoot, Relative(chars))
    IN IF canon # Gone /\ IsPrefix(HttpRoot, canon) THEN canon ELSE Gone

HexDigits == {"2", "5", "e", "f"}
Byte(hi, lo) == CASE hi = "2" /\ lo = "e" -> "." [] hi = "2" /\ lo = "f" -> "/"
                  [] hi = "2" /\ lo = "5" -> "%" [] OTHER -> "other"

(* Every escape is decoded once, from the left; a broken one stays as it is. *)
PercentDecode(s) ==
    LET IsEscape(i) == /\ s[i] = "%" /\ i + 2 <= Len(s)
                       /\ s[i + 1] \in HexDigits /\ s[i + 2] \in HexDigits
        decoded[i \in 1..(Len(s) + 3)] ==
            IF i > Len(s) THEN <<>>
            ELSE IF IsEscape(i) THEN <<Byte(s[i + 1], s[i + 2])>> \o decoded[i + 3]
            ELSE <<s[i]>> \o decoded[i + 1]
    IN decoded[1]

(* The request-target: an absolute form loses its authority, a query is cut. *)
ResolveTarget(target) ==
    LET slash == SelectInSeq(target.chars, LAMBDA ch : ch = "/")
        path == IF ~target.absolute THEN target.chars
                ELSE IF slash = 0 THEN <<"/">>
                ELSE SubSeq(target.chars, slash, Len(target.chars))
        cut == SelectInSeq(path, LAMBDA ch : ch \in {"?", "#"})
        plain == IF cut = 0 THEN path ELSE SubSeq(path, 1, cut - 1)
        found == Resolve(PercentDecode(plain))
    IN IF found \in Files THEN found ELSE Gone
FileOf == [t \in UNION {{sc[i].target : i \in DOMAIN sc} : sc \in Scripts} |-> ResolveTarget(t)]

----------------------------------------------------------------------------
(* The stream of a connection. *)

Units(i, r) ==
    [k \in 1..(r.head + r.body) |-> [req |-> i, kind |-> IF k <= r.head THEN "head" ELSE "body",
                                     last |-> (k = r.head /\ r.ends)]]
Stream(sc) == FlattenSeq([i \in 1..Len(sc) |-> Units(i, sc[i])])

RequestOf(c) == script[c][Last(head[c]).req]
IsHead(r) == r.method = "HEAD"
IsGet(r) == r.method = "GET"

(* HTTP/1.1 stays open unless told otherwise, anything else only if asked. *)
KeepAlive(r) == CASE r.connection = "close" -> FALSE
                  [] r.connection = "keep-alive" -> TRUE
                  [] OTHER -> r.version = "1.1"

HttpInit ==
    /\ backlog = <<>> /\ permits = MaxConnections /\ holding = FALSE
    /\ phase = [c \in Clients |-> "idle"]
    /\ script \in [Clients -> Scripts]
    /\ toSend = [c \in Clients |-> Stream(script[c])]
    /\ rx = [c \in Clients |-> <<>>] /\ eof = [c \in Clients |-> FALSE]
    /\ head = [c \in Clients |-> <<>>]
    /\ remaining = [c \in Clients |-> 0] /\ answer = [c \in Clients |-> <<>>]
    /\ out = [c \in Clients |-> <<>>] /\ unread = [c \in Clients |-> 0]
    /\ size \in [Files -> Sizes]
    /\ faults = HttpFaults /\ fileChanges = FileChanges

(* The peer and the files. *)
Connect(c) ==
    /\ phase[c] = "idle"
    /\ phase' = [phase EXCEPT ![c] = "queued"] /\ backlog' = Append(backlog, c)
    /\ UNCHANGED <<permits, holding, connVars, size, faults, fileChanges>>
ClientSend(c) ==
    /\ phase[c] \notin {"idle", "done"} /\ ~eof[c] /\ toSend[c] # <<>>
    /\ rx' = [rx EXCEPT ![c] = Append(@, Head(toSend[c]))]
    /\ toSend' = [toSend EXCEPT ![c] = Tail(@)]
    /\ UNCHANGED <<backlog, permits, holding, phase, script, eof, head, remaining,
                   answer, out, unread, size, faults, fileChanges>>
ClientClose(c) ==
    /\ phase[c] \notin {"idle", "done"} /\ ~eof[c]
    /\ eof' = [eof EXCEPT ![c] = TRUE]
    /\ UNCHANGED <<backlog, permits, holding, phase, script, toSend, rx, head, remaining,
                   answer, out, unread, size, faults, fileChanges>>
ClientRead(c) ==
    /\ unread[c] > 0
    /\ unread' = [unread EXCEPT ![c] = @ - 1]
    /\ UNCHANGED <<backlog, permits, holding, phase, script, toSend, rx, eof, head,
                   remaining, answer, out, size, faults, fileChanges>>
FileChange(f) ==
    /\ fileChanges > 0 /\ fileChanges' = fileChanges - 1
    /\ \E n \in Sizes \ {size[f]} : size' = [size EXCEPT ![f] = n]
    /\ UNCHANGED <<backlog, permits, holding, phase, connVars, faults>>

----------------------------------------------------------------------------
(* serve: the slot is taken before the connection is accepted. *)

Acquire ==
    /\ ~holding /\ permits > 0
    /\ holding' = TRUE /\ permits' = permits - 1
    /\ UNCHANGED <<backlog, phase, connVars, size, faults, fileChanges>>

AcceptConnection ==
    /\ holding /\ backlog # <<>>
    /\ phase' = [phase EXCEPT ![Head(backlog)] = "head"]
    /\ backlog' = Tail(backlog) /\ holding' = FALSE
    /\ UNCHANGED <<permits, connVars, size, faults, fileChanges>>

AcceptFails ==
    /\ holding /\ backlog # <<>> /\ faults > 0
    /\ faults' = faults - 1
    /\ holding' = FALSE /\ permits' = permits + 1
    /\ UNCHANGED <<backlog, phase, connVars, size, fileChanges>>

(* The handler returns, whatever the reason: its slot goes back. *)
HandlerEnds(c) ==
    /\ phase' = [phase EXCEPT ![c] = "done"] /\ permits' = permits + 1
    /\ UNCHANGED <<backlog, holding, connVars, size, faults, fileChanges>>
AtEof(c) == rx[c] = <<>> /\ eof[c]

HeadUnit(c) ==
    /\ LET got == Append(head[c], Head(rx[c]))
           r == script[c][Last(got).req]
       IN /\ head' = [head EXCEPT ![c] = got]
          /\ rx' = [rx EXCEPT ![c] = Tail(@)]
          /\ IF Last(got).last
             THEN /\ phase' = [phase EXCEPT ![c] = "drain"]
                  /\ remaining' = [remaining EXCEPT ![c] = r.declared]
             ELSE UNCHANGED <<phase, remaining>>
    /\ UNCHANGED <<backlog, permits, holding, script, toSend, eof, answer, out, unread, size,
                   faults, fileChanges>>
ReadHead(c) == phase[c] = "head" /\ rx[c] # <<>> /\ Len(head[c]) < MaxHead /\ HeadUnit(c)
(* An EOF, a head past the limit, or the clock. *)
HeadEnds(c) ==
    /\ phase[c] = "head"
    /\ AtEof(c) \/ (rx[c] # <<>> /\ Len(head[c]) >= MaxHead)
    /\ HandlerEnds(c)
HeadTimeout(c) == phase[c] = "head" /\ HandlerEnds(c)

DrainBody(c) ==
    /\ phase[c] = "drain" /\ remaining[c] > 0 /\ rx[c] # <<>>
    /\ rx' = [rx EXCEPT ![c] = Tail(@)]
    /\ remaining' = [remaining EXCEPT ![c] = @ - 1]
    /\ UNCHANGED <<backlog, permits, holding, phase, script, toSend, eof, head, answer,
                   out, unread, size, faults, fileChanges>>
BodyEnds(c) == phase[c] = "drain" /\ remaining[c] > 0 /\ AtEof(c) /\ HandlerEnds(c)
BodyTimeout(c) == phase[c] = "drain" /\ remaining[c] > 0 /\ HandlerEnds(c)

(* The answer's header: a status with its own text, or the file at the     *)
(* length it has now.  A status body is one unit.                          *)
StatusLen == 1
Status(c, code) == [kind |-> "header", req |-> Last(head[c]).req, code |-> code, len |-> StatusLen,
                    keep |-> KeepAlive(RequestOf(c)), file |-> Gone]
FileHeader(c, f) == [kind |-> "header", req |-> Last(head[c]).req, code |-> 200, len |-> size[f],
                     keep |-> KeepAlive(RequestOf(c)), file |-> f]

(* A body follows unless only the head was asked for. *)
BodyUnits(r, len) == IF IsHead(r) THEN 0 ELSE len

DispatchRequest(c) ==
    /\ phase[c] = "drain" /\ remaining[c] = 0
    /\ LET r == RequestOf(c)
           found == FileOf[r.target]
           hdr == CASE ~IsGet(r) /\ ~IsHead(r) -> Status(c, 405)
                    [] found = Gone -> Status(c, 404)
                    [] OTHER -> FileHeader(c, found)
       IN answer' = [answer EXCEPT ![c] = hdr]
    /\ phase' = [phase EXCEPT ![c] = "header"]
    /\ UNCHANGED <<backlog, permits, holding, script, toSend, rx, eof, head, remaining,
                   out, unread, size, faults, fileChanges>>

(* The file was there when it was resolved and cannot be opened. *)
OpenFails(c) ==
    /\ phase[c] = "drain" /\ remaining[c] = 0 /\ faults > 0
    /\ IsGet(RequestOf(c)) \/ IsHead(RequestOf(c))
    /\ FileOf[RequestOf(c).target] # Gone
    /\ faults' = faults - 1
    /\ answer' = [answer EXCEPT ![c] = Status(c, 404)]
    /\ phase' = [phase EXCEPT ![c] = "header"]
    /\ UNCHANGED <<backlog, permits, holding, script, toSend, rx, eof, head, remaining,
                   out, unread, size, fileChanges>>

(* write_all waits for the peer to read, on no clock. *)
CanWrite(c) == unread[c] < Window
Written(c, u) ==
    /\ out' = [out EXCEPT ![c] = Append(@, u)]
    /\ unread' = [unread EXCEPT ![c] = @ + 1]

WriteHeader(c) ==
    /\ phase[c] = "header" /\ CanWrite(c)
    /\ Written(c, answer[c])
    /\ remaining' = [remaining EXCEPT ![c] = BodyUnits(RequestOf(c), answer[c].len)]
    /\ phase' = [phase EXCEPT ![c] = "body"]
    /\ UNCHANGED <<backlog, permits, holding, script, toSend, rx, eof, head, answer,
                   size, faults, fileChanges>>

(* The next chunk is what the file holds past what was already copied. *)
Copied(c) == answer[c].len - remaining[c]
HasChunk(c) == IF answer[c].code = 200 THEN Copied(c) < size[answer[c].file] ELSE TRUE
WriteBody(c) ==
    /\ phase[c] = "body" /\ remaining[c] > 0 /\ HasChunk(c) /\ CanWrite(c)
    /\ Written(c, [kind |-> "body", req |-> answer[c].req, at |-> Copied(c)])
    /\ remaining' = [remaining EXCEPT ![c] = @ - 1]
    /\ UNCHANGED <<backlog, permits, holding, phase, script, toSend, rx, eof, head, answer,
                   size, faults, fileChanges>>

(* The file shrank, or the peer is gone: the connection is dropped. *)
ShrankEndsBody(c) ==
    /\ phase[c] = "body" /\ remaining[c] > 0 /\ ~HasChunk(c)
    /\ remaining' = [remaining EXCEPT ![c] = 0]
    /\ UNCHANGED <<backlog, permits, holding, phase, script, toSend, rx, eof, head, answer,
                   out, unread, size, faults, fileChanges>>
Shrank(c) == phase[c] = "body" /\ remaining[c] > 0 /\ ~HasChunk(c) /\ HandlerEnds(c)
WriteFails(c) ==
    /\ eof[c] /\ phase[c] \in {"header", "body"}
    /\ phase[c] = "body" => remaining[c] > 0
    /\ HandlerEnds(c)

Answered(c) ==
    /\ phase[c] = "body" /\ remaining[c] = 0
    /\ IF answer[c].keep
       THEN /\ phase' = [phase EXCEPT ![c] = "head"]
            /\ head' = [head EXCEPT ![c] = <<>>]
            /\ UNCHANGED <<backlog, permits, holding, script, toSend, rx, eof, remaining,
                           answer, out, unread, size, faults, fileChanges>>
       ELSE HandlerEnds(c)

HandlerStep(c) ==
    \/ ReadHead(c) \/ HeadEnds(c) \/ DrainBody(c) \/ BodyEnds(c) \/ DispatchRequest(c)
    \/ WriteHeader(c) \/ WriteBody(c) \/ Shrank(c) \/ WriteFails(c) \/ Answered(c)
ReadTimeout(c) == HeadTimeout(c) \/ BodyTimeout(c)
ServerStep == Acquire \/ AcceptConnection \/ (\E c \in Clients : HandlerStep(c) \/ ReadTimeout(c))
HttpNext ==
    \/ ServerStep \/ AcceptFails
    \/ \E c \in Clients : OpenFails(c) \/ Connect(c) \/ ClientSend(c) \/ ClientClose(c) \/ ClientRead(c)
    \/ \E f \in Files : FileChange(f)
HttpSpec == HttpInit /\ [][HttpNext]_httpVars

----------------------------------------------------------------------------
Serving == {c \in Clients : phase[c] \in {"head", "drain", "header", "body"}}
Headers(c) == SelectSeq(out[c], LAMBDA u : u.kind = "header")

(* Type: every handler is where the code can be, with a bounded peer. *)
HttpTypeOK ==
    /\ permits \in 0..MaxConnections /\ holding \in BOOLEAN
    /\ \A c \in Clients :
        /\ phase[c] \in {"idle", "queued", "head", "drain", "header", "body", "done"}
        /\ unread[c] \in 0..Window /\ Len(head[c]) <= MaxHead
        /\ phase[c] = "queued" <=> c \in Range(backlog)

(* A failed accept, a dropped handler and a finished one all give their    *)
(* slot back, and only once (serve, http.rs 134-157).                      *)
EverySlotAccounted ==
    permits + (IF holding THEN 1 ELSE 0) + Cardinality(Serving) = MaxConnections

(* "keep-alive framing can never desync" (http.rs 38-40): what a client    *)
(* reads is the answers to its requests, in order, each with exactly the   *)
(* body its header announces, except that the last may be cut short; and   *)
(* a head is never put together from two requests or from a body.          *)
FramingHolds ==
    \A c \in Clients :
        LET starts == {i \in 1..Len(out[c]) : out[c][i].kind = "header"}
            Next1(i) == Min({j \in starts : j > i} \union {Len(out[c]) + 1})
            Body(i) == IF script[c][out[c][i].req].method = "HEAD" THEN 0 ELSE out[c][i].len
        IN /\ out[c] # <<>> => 1 \in starts
           /\ \A k \in 1..Len(Headers(c)) : Headers(c)[k].req = k
           /\ \A i \in starts :
                /\ Next1(i) - i - 1 <= Body(i)
                /\ Next1(i) <= Len(out[c]) \/ phase[c] = "head" => Next1(i) - i - 1 = Body(i)
                /\ \A j \in (i + 1)..(Next1(i) - 1) : out[c][j].at = j - i - 1
           /\ \A i \in 1..Len(head[c]) :
                head[c][i].kind = "head" /\ head[c][i].req = head[c][1].req

(* Whatever its spelling (escapes, an absolute form, a query, dots, links), *)
(* a target is served the file it names and only from inside the root       *)
(* (resolve_target, served.rs 40-46).                                       *)
ServedIsNamed ==
    \A c \in Clients : \A k \in 1..Len(Headers(c)) :
        LET h == Headers(c)[k]
            r == script[c][h.req]
        IN /\ h.code = 200 => IsPrefix(HttpRoot, h.file) /\ h.file = r.target.names
           /\ h.code = 404 => (r.target.names = Gone \/ faults < HttpFaults)

(* A client that did not ask to keep the connection, or cannot, gets one   *)
(* answer and then the end of the connection (read_head, http.rs 198-219). *)
ClosedWhenDone ==
    \A c \in Clients : \A k \in 1..Len(Headers(c)) :
        LET r == script[c][Headers(c)[k].req]
        IN r.connection = "close" \/ (r.version = "1.0" /\ r.connection = "none")
            => k = Len(Headers(c)) /\ phase[c] \in {"body", "done"}

(* "every handler is bounded by the head timeout, so a slot always comes   *)
(* back" (http.rs 135-137): every connection is accepted in turn and ends. *)
ConnectionSlotReturns == \A c \in Clients : phase[c] # "idle" ~> phase[c] = "done"
=============================================================================
