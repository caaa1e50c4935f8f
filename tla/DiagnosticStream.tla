-------------------------- MODULE DiagnosticStream --------------------------
(***************************************************************************)
(* One stdout or stderr pipe of a Session process or of a Command, from    *)
(* the guest's bounded buffer to the record accepted by the control plane. *)
(*                                                                         *)
(* The guest never waits: what does not fit its buffer becomes a gap. It   *)
(* exposes one head at a time to the attached worker, which appends it to  *)
(* the producer's row and answers only after a committed receipt. Replies  *)
(* and connections are lost, requests are handled late, and the accepted   *)
(* head may pass its retention before the guest hears of it.               *)
(*                                                                         *)
(* Abstractions.                                                           *)
(*  - A record's content is its range and its number of bytes; its digest  *)
(*    is the record itself. out[s] is what the program wrote through       *)
(*    sequence s, a history the code does not keep.                        *)
(*  - MaxInt stands for math.MaxInt64, for sequences and for byte counts.  *)
(*  - A busy gate or a full queue refuses without effect and is retried:   *)
(*    other producers share both, so a refusal may happen at any time.     *)
(*  - A frame in a live socket is taken as received. A lost VM ends the    *)
(*    stream where it stands.                                              *)
(***************************************************************************)
EXTENDS Integers, Sequences

CONSTANTS
    MaxInt,         \* the largest sequence and byte count
    ChunkBytes,     \* diagnosticLimits of the buffer
    BufferBytes,
    BufferRecords,
    Sizes,          \* bound: the sizes of the chunks written
    MaxFaults       \* bound: lost replies and connections, late requests, expiries

ASSUME LimitAssumption ==
    /\ MaxInt \in Nat \ {0} /\ MaxFaults \in Nat
    /\ ChunkBytes \in 1..MaxInt /\ BufferBytes \in Nat /\ ChunkBytes <= BufferBytes
    /\ BufferRecords \in Nat \ {0} /\ Sizes \subseteq 1..ChunkBytes

VARIABLES
    source,         \* "session" or "command": who owns the stream
    out,            \* out[s]: bytes written through sequence s
    records, bytes, next, acknowledged, pendingGap, end, closed,    \* diagnosticBuffer
    spool,          \* of a Command: whether output was dropped, and the boundary of its result
    relay,          \* the guest's end of the transport
    link,           \* the worker's end, with the record it is appending
    progress,       \* the stream's columns of the owner's row
    chunks,         \* the diagnostic_chunks rows inserted so far
    late,           \* requests whose client has given up
    faults

buffer == <<records, bytes, next, acknowledged, pendingGap, end, closed>>
vars == <<source, out, buffer, spool, relay, link, progress, chunks, late, faults>>

Record(kind, seq, thru, n, complete) ==
    [kind |-> kind, seq |-> seq, thru |-> thru, bytes |-> n, complete |-> complete]
None == Record("none", 0, 0, 0, FALSE)
Boundary(thru, complete, gapped) == [thru |-> thru, complete |-> complete, gapped |-> gapped]
NoBoundary == Boundary(0, FALSE, FALSE)
NoLink == [attachment |-> 0, phase |-> "none", record |-> None]

Written(s) == IF s = 0 THEN 0 ELSE out[s]

Init ==
    /\ source \in {"session", "command"}
    /\ out = <<>>
    /\ records = <<>> /\ bytes = 0 /\ next = 1 /\ acknowledged = 0
    /\ pendingGap = None /\ end = None /\ closed = FALSE
    /\ spool = [gapped |-> FALSE, boundary |-> NoBoundary]
    /\ relay = [attachment |-> 0, connected |-> FALSE, sent |-> 0]
    /\ link = NoLink
    /\ progress = [attachment |-> 0, stopped |-> FALSE, through |-> 0, offset |-> 0,
                   ended |-> FALSE, complete |-> FALSE, expired |-> 0, last |-> 0,
                   digest |-> None, aged |-> FALSE, gapped |-> FALSE, final |-> NoBoundary]
    /\ chunks = <<>>
    /\ late = {}
    /\ faults = 0

Fault == faults < MaxFaults /\ faults' = faults + 1

-----------------------------------------------------------------------------
(* The buffer of the guest *)

(* promoteGapLocked: a pending gap enters the ring as soon as there is room. *)
Promotes == pendingGap # None /\ Len(records) < BufferRecords
Promoted == IF Promotes THEN Append(records, pendingGap) ELSE records
StillPending == IF Promotes THEN None ELSE pendingGap

CloseLocked(seq, complete) ==
    /\ closed' = TRUE
    /\ end' = Record("end", seq, seq, 0, complete)

Exhausted == next = MaxInt

(* append of n bytes to an open buffer.                                    *)
Store(n) ==
    /\ ~Exhausted
    /\ StillPending = None /\ Len(Promoted) < BufferRecords /\ n <= BufferBytes - bytes
    /\ records' = Append(Promoted, Record("data", next, next, n, FALSE))
    /\ bytes' = bytes + n /\ pendingGap' = None
    /\ next' = next + 1 /\ out' = Append(out, Written(next - 1) + n)
    /\ UNCHANGED <<end, closed, spool>>

\* Mutant: a gap counts the chunks it drops, not their bytes.
DropInto_chunks(gap, n) == Record("gap", gap.seq, next, gap.bytes + 1, FALSE)

DropInto(gap, n) == Record("gap", gap.seq, next, gap.bytes + n, FALSE)

Drop(n) ==
    /\ ~Exhausted
    /\ ~(StillPending = None /\ Len(Promoted) < BufferRecords /\ n <= BufferBytes - bytes)
    /\ records' = Promoted
    /\ \/ /\ StillPending = None
          /\ pendingGap' = Record("gap", next, next, n, FALSE)
          /\ next' = next + 1 /\ out' = Append(out, Written(next - 1) + n)
          /\ UNCHANGED <<end, closed>>
       \/ /\ StillPending # None /\ n <= MaxInt - StillPending.bytes
          /\ pendingGap' = DropInto(StillPending, n)
          /\ next' = next + 1 /\ out' = Append(out, Written(next - 1) + n)
          /\ UNCHANGED <<end, closed>>
       \/ /\ StillPending # None /\ n > MaxInt - StillPending.bytes
          /\ CloseLocked(next, FALSE)
          /\ UNCHANGED <<pendingGap, next, out>>
    /\ spool' = [spool EXCEPT !.gapped = TRUE]
    /\ UNCHANGED bytes

Exhaust ==
    /\ Exhausted /\ CloseLocked(next, FALSE)
    /\ spool' = [spool EXCEPT !.gapped = TRUE]
    /\ UNCHANGED <<out, records, bytes, next, pendingGap>>

Write(n) ==
    /\ ~closed
    /\ Store(n) \/ Drop(n) \/ Exhaust
    /\ UNCHANGED <<source, acknowledged, relay, link, progress, chunks, late, faults>>

\* Mutant: the boundary of the result is the last output, not the end that follows it.
Close_beforeEnd(complete) ==
    /\ IF closed
       THEN source = "command" /\ spool.boundary = NoBoundary /\ end # None /\ UNCHANGED <<end, closed>>
       ELSE CloseLocked(next, complete)
    /\ spool' = IF source = "command"
                THEN [spool EXCEPT !.boundary = Boundary(end'.thru - 1, end'.complete, spool.gapped)]
                ELSE spool
    /\ UNCHANGED <<source, out, records, bytes, next, acknowledged, pendingGap,
                   relay, link, progress, chunks, late, faults>>

(* logLoop, finish: the pipe ended, with an exact EOF or not. A Command's  *)
(* result names the boundary of its pipe, which may have closed before.    *)
(* Left out: a pipe closed at MaxInt and settled by then, which has no end *)
(* record left; finish reads its boundary from that record.                *)
Close(complete) ==
    /\ IF closed
       THEN source = "command" /\ spool.boundary = NoBoundary /\ end # None /\ UNCHANGED <<end, closed>>
       ELSE CloseLocked(next, complete)
    /\ spool' = IF source = "command"
                THEN [spool EXCEPT !.boundary = Boundary(end'.thru, end'.complete, spool.gapped)]
                ELSE spool
    /\ UNCHANGED <<source, out, records, bytes, next, acknowledged, pendingGap,
                   relay, link, progress, chunks, late, faults>>

(* peek freezes a pending gap before exposing it.                          *)
Freeze == records' = Promoted /\ pendingGap' = StillPending

Peek ==
    IF records # <<>> THEN Head(records)
    ELSE IF pendingGap # None THEN pendingGap ELSE end

(* acknowledge releases only the exact head, then promotes.                *)
Released(thru) ==
    \/ thru <= acknowledged
    \/ records # <<>> /\ thru = Head(records).thru
    \/ records = <<>> /\ pendingGap = None /\ end # None /\ thru = end.thru

Acknowledge(thru) ==
    IF thru <= acknowledged THEN UNCHANGED buffer
    ELSE IF records # <<>>
    THEN /\ records' = IF pendingGap # None THEN Append(Tail(records), pendingGap) ELSE Tail(records)
         /\ pendingGap' = None
         /\ bytes' = bytes - (IF Head(records).kind = "data" THEN Head(records).bytes ELSE 0)
         /\ acknowledged' = thru
         /\ UNCHANGED <<next, end, closed>>
    ELSE /\ end' = None /\ acknowledged' = thru
         /\ UNCHANGED <<records, bytes, next, pendingGap, closed>>
-----------------------------------------------------------------------------
(* Admission of a record by the control plane *)

(* Record.Validate.                                                        *)
Valid(r) ==
    CASE r.kind = "data" -> r.seq = r.thru /\ r.thru # MaxInt /\ r.bytes \in 1..ChunkBytes
      [] r.kind = "gap" -> r.seq <= r.thru /\ r.thru # MaxInt /\ r.bytes >= r.thru - r.seq + 1
      [] OTHER -> r.kind = "end" /\ r.seq = r.thru

(* AppendSessionLog admits the current attachment only. AppendLog of a     *)
(* Command checks its lease, which every attachment of the stream shares,  *)
(* and, once the Command is terminal, the boundary of its result.          *)
Admitted(attachment, r) ==
    /\ source = "session" => progress.attachment = attachment
    /\ progress.final # NoBoundary =>
          /\ r.thru <= progress.final.thru
          /\ r.kind = "end" => r.thru = progress.final.thru /\ r.complete = progress.final.complete
          /\ r.kind = "gap" => progress.final.gapped

(* The head accepted last has passed its retention.                        *)
Expired == IF progress.through > 0 /\ progress.aged THEN progress.through ELSE progress.expired
Digest == IF progress.through > 0 /\ progress.aged THEN None ELSE progress.digest

\* Mutant: a repeat of the last head is compared although its digest has expired.
Disposition_unexpired(attachment, r) ==
    IF ~Valid(r) THEN "invalid"
    ELSE IF ~Admitted(attachment, r) THEN "denied"
    ELSE IF r.seq <= progress.through
    THEN IF r.seq # progress.last THEN "stale"
         ELSE IF r # Digest THEN "conflict"
         ELSE "replayed"
    ELSE IF progress.ended THEN "closed"
    ELSE IF r.seq # progress.through + 1 THEN "sequence"
    ELSE IF progress.offset > MaxInt - r.bytes THEN "invalid"
    ELSE "accepted"

(* Append.                                                                 *)
Disposition(attachment, r) ==
    IF ~Valid(r) THEN "invalid"
    ELSE IF ~Admitted(attachment, r) THEN "denied"
    ELSE IF r.seq <= progress.through
    THEN IF r.thru <= Expired THEN "expired"
         ELSE IF r.seq # progress.last THEN "stale"
         ELSE IF r # Digest THEN "conflict"
         ELSE "replayed"
    ELSE IF progress.ended THEN "closed"
    ELSE IF r.seq # progress.through + 1 THEN "sequence"
    ELSE IF progress.offset > MaxInt - r.bytes THEN "invalid"
    ELSE "accepted"

Receipts == {"accepted", "replayed", "expired"}

Appended(disposition, r) ==
    CASE disposition = "accepted" ->
           /\ chunks' = Append(chunks, r)
           /\ progress' = [progress EXCEPT !.through = r.thru, !.offset = @ + r.bytes,
                                           !.ended = r.kind = "end", !.complete = r.complete,
                                           !.expired = Expired, !.last = r.seq, !.digest = r,
                                           !.aged = FALSE, !.gapped = @ \/ r.kind = "gap"]
      [] disposition \in {"replayed", "expired"} ->
           /\ progress' = [progress EXCEPT !.expired = Expired, !.digest = Digest]
           /\ UNCHANGED chunks
      [] OTHER -> UNCHANGED <<progress, chunks>>

(* DiagnosticRetention has passed since the last acceptance.               *)
Age ==
    /\ progress.through > 0 /\ ~progress.aged
    /\ progress' = [progress EXCEPT !.aged = TRUE]
    /\ Fault
    /\ UNCHANGED <<source, out, buffer, spool, relay, link, chunks, late>>

-----------------------------------------------------------------------------
(* The transport between guest and worker *)

(* AcquireRuntimeAttachment, or the claim that reattaches a Command.       *)
Acquire ==
    /\ link = NoLink /\ ~progress.stopped
    /\ progress' = [progress EXCEPT !.attachment = @ + 1]
    /\ link' = [attachment |-> progress.attachment + 1, phase |-> "attaching", record |-> None]
    /\ UNCHANGED <<source, out, buffer, spool, relay, chunks, late, faults>>

\* Mutant: a new attachment starts after what the previous one sent.
Attach_keepsSent ==
    /\ link.phase = "attaching" /\ link.attachment > relay.attachment
    /\ relay' = [relay EXCEPT !.attachment = link.attachment, !.connected = TRUE]
    /\ link' = [link EXCEPT !.phase = "idle"]
    /\ UNCHANGED <<source, out, buffer, spool, progress, chunks, late, faults>>

(* attach, streamOutput: what the previous attachment sent is sent again.  *)
Attach ==
    /\ link.phase = "attaching" /\ link.attachment > relay.attachment
    /\ relay' = [attachment |-> link.attachment, connected |-> TRUE, sent |-> 0]
    /\ link' = [link EXCEPT !.phase = "idle"]
    /\ UNCHANGED <<source, out, buffer, spool, progress, chunks, late, faults>>

(* The connection breaks. The guest may go on writing to its half for a    *)
(* while; what it writes is lost.                                          *)
Disconnect ==
    /\ link # NoLink /\ link' = NoLink
    /\ \E connected \in BOOLEAN :
          relay' = [relay EXCEPT !.connected = relay.connected /\ connected]
    /\ Fault
    /\ UNCHANGED <<source, out, buffer, spool, progress, chunks, late>>

(* sendLoop: one head, once per attachment. A worker that gets a second    *)
(* one before it acknowledged the first ends the attachment.               *)
Send ==
    /\ relay.connected /\ Peek # None /\ Peek.thru > relay.sent
    /\ Freeze
    /\ relay' = [relay EXCEPT !.sent = Peek.thru]
    /\ link' = IF link.attachment # relay.attachment THEN link
               ELSE IF link.phase = "idle" THEN [link EXCEPT !.phase = "appending", !.record = Peek]
               ELSE NoLink
    /\ UNCHANGED <<source, out, bytes, next, acknowledged, end, closed, spool, progress, chunks, late, faults>>

(* appendSessionLog, appendCommandOutput. A rejected stream stays so for   *)
(* this attachment; the guest keeps the record.                            *)
AppendLog ==
    /\ link.phase = "appending"
    /\ LET disposition == Disposition(link.attachment, link.record) IN
       /\ Appended(disposition, link.record)
       /\ link' = [link EXCEPT !.phase = IF disposition \in Receipts THEN "acknowledging" ELSE "rejected"]
    /\ UNCHANGED <<source, out, buffer, spool, relay, late, faults>>

(* The reply is lost and the worker asks again, or the request stays       *)
(* behind in the control plane while its client goes on.                   *)
LoseReply ==
    /\ link.phase = "appending"
    /\ Appended(Disposition(link.attachment, link.record), link.record)
    /\ Fault
    /\ UNCHANGED <<source, out, buffer, spool, relay, link, late>>

Delay ==
    /\ link.phase = "appending"
    /\ late' = late \cup {[attachment |-> link.attachment, record |-> link.record]}
    /\ Fault
    /\ UNCHANGED <<source, out, buffer, spool, relay, link, progress, chunks>>

HandleLate(q) ==
    /\ q \in late /\ late' = late \ {q}
    /\ Appended(Disposition(q.attachment, q.record), q.record)
    /\ UNCHANGED <<source, out, buffer, spool, relay, link, faults>>

(* The acknowledgement reaches the guest, which refuses one that does not  *)
(* match its head and gives up the connection.                             *)
AcknowledgeLog ==
    /\ link.phase = "acknowledging" /\ link.attachment = relay.attachment /\ relay.connected
    /\ link.record.thru <= relay.sent
    /\ LET released == Released(link.record.thru) IN
       /\ IF released THEN Acknowledge(link.record.thru) ELSE UNCHANGED buffer
       /\ relay' = [relay EXCEPT !.connected = released]
       /\ link' = IF released THEN [link EXCEPT !.phase = "idle", !.record = None] ELSE NoLink
    /\ UNCHANGED <<source, out, spool, progress, chunks, late, faults>>

(* The stop of a Session process is recorded. Its retained tail is         *)
(* delivered over the present attachment or not at all.                    *)
ObserveStopped ==
    /\ source = "session" /\ closed /\ ~progress.stopped
    /\ link.phase \in {"idle", "appending", "acknowledging", "rejected"}
    /\ progress' = [progress EXCEPT !.stopped = TRUE]
    /\ UNCHANGED <<source, out, buffer, spool, relay, link, chunks, late, faults>>

(* The output accepted so far lies within the boundary of the result.      *)
Settles(b) ==
    /\ progress.through <= b.thru
    /\ progress.ended => progress.through = b.thru /\ progress.complete = b.complete
    /\ progress.gapped => b.gapped

(* Complete: the result of the Command, reported over the attachment,      *)
(* becomes terminal; its tail may still follow.                            *)
Complete ==
    /\ source = "command" /\ spool.boundary # NoBoundary /\ progress.final = NoBoundary
    /\ link.phase \in {"idle", "appending", "acknowledging", "rejected"}
    /\ Settles(spool.boundary)
    /\ progress' = [progress EXCEPT !.final = spool.boundary]
    /\ UNCHANGED <<source, out, buffer, spool, relay, link, chunks, late, faults>>

-----------------------------------------------------------------------------
Next ==
    \/ \E n \in Sizes : Write(n)
    \/ \E complete \in BOOLEAN : Close(complete)
    \/ Acquire \/ Attach \/ Disconnect \/ Send
    \/ AppendLog \/ LoseReply \/ Delay \/ AcknowledgeLog \/ ObserveStopped \/ Complete \/ Age
    \/ \E q \in late : HandleLate(q)

Spec == Init /\ [][Next]_vars

(* The relay's send loop, the worker's append jobs and its reattachment    *)
(* run while the guest and the lease live.                                 *)
Fairness == WF_vars(Acquire) /\ WF_vars(Attach) /\ WF_vars(Send) /\ WF_vars(AppendLog)
            /\ WF_vars(AcknowledgeLog)
LiveSpec == Spec /\ Fairness

-----------------------------------------------------------------------------
(* Properties *)

Range == [kind : {"data", "gap", "end", "none"}, seq : 0..MaxInt, thru : 0..MaxInt,
          bytes : 0..MaxInt, complete : BOOLEAN]
Boundaries == [thru : 0..MaxInt, complete : BOOLEAN, gapped : BOOLEAN]

(* The buffer, the transport and the row keep within their types and       *)
(* limits: sequences and byte counts never exceed MaxInt64, the ring never *)
(* exceeds its records and bytes.                                          *)
TypeOK ==
    /\ source \in {"session", "command"}
    /\ out \in Seq(Nat)
    /\ records \in Seq(Range) /\ Len(records) <= BufferRecords
    /\ bytes \in 0..BufferBytes /\ next \in 1..MaxInt /\ acknowledged \in 0..MaxInt
    /\ pendingGap \in Range /\ end \in Range /\ closed \in BOOLEAN
    /\ spool \in [gapped : BOOLEAN, boundary : Boundaries]
    /\ relay \in [attachment : Nat, connected : BOOLEAN, sent : 0..MaxInt]
    /\ link \in [attachment : Nat, record : Range,
                phase : {"none", "attaching", "idle", "appending", "acknowledging", "rejected"}]
    /\ progress \in [attachment : Nat, stopped : BOOLEAN, through : 0..MaxInt, offset : 0..MaxInt,
                     ended : BOOLEAN, complete : BOOLEAN, expired : 0..MaxInt, last : 0..MaxInt,
                     digest : Range, aged : BOOLEAN, gapped : BOOLEAN, final : Boundaries]
    /\ chunks \in Seq(Range)
    /\ late \subseteq [attachment : Nat, record : Range]
    /\ faults \in 0..MaxFaults

Follows(r, before) == r.seq = before + 1 /\ r.seq <= r.thru

(* What record r says of the bytes in its range.                           *)
Tells(r) ==
    CASE r.kind = "data" -> r.seq = r.thru /\ r.thru <= Len(out) /\ r.bytes = Written(r.thru) - Written(r.seq - 1)
      [] r.kind = "gap" -> r.thru <= Len(out) /\ r.bytes = Written(r.thru) - Written(r.seq - 1)
      [] OTHER -> r.kind = "end" /\ r.seq = r.thru /\ r.bytes = 0

(* The accepted records are one account of the pipe: each starts where the *)
(* previous one stops, tells how many bytes its range really had, and the  *)
(* row's frontier and byte offset are those of the last one, whatever was  *)
(* dropped, repeated, handled late or expired (Append, promoteGapLocked).  *)
AccountIsExact ==
    /\ \A i \in 1..Len(chunks) :
          Follows(chunks[i], IF i = 1 THEN 0 ELSE chunks[i - 1].thru) /\ Tells(chunks[i])
    /\ progress.through = IF chunks = <<>> THEN 0 ELSE chunks[Len(chunks)].thru
    /\ progress.offset = Written(IF progress.ended THEN progress.through - 1 ELSE progress.through)

(* The retry protocol never contradicts itself: the only append of the     *)
(* current attachment that is rejected is one whose byte offset cannot be  *)
(* represented. No lost reply, late request or expiry makes a stream stale,*)
(* conflicting or out of sequence (Append's replay and expiry cases).       *)
OnlyOverflowRejects ==
    link.phase = "rejected" => progress.offset > MaxInt - link.record.bytes

(* The boundary a Command's result names is the one its output reaches:    *)
(* Complete never refuses a result for the output accepted before it, and  *)
(* output accepted after it stays within it (applyCompletion, appendLog).  *)
ResultSettles == spool.boundary # NoBoundary => Settles(spool.boundary)

(* Once the pipe has closed its end is accepted, unless the stop of the    *)
(* Session was recorded and the last attachment then broke, or the byte    *)
(* offset overflowed (ServeAgentSession's tail, streamOutput).             *)
OutputSettles ==
    closed ~> \/ progress.ended
              \/ progress.stopped /\ link = NoLink
              \/ link.phase = "rejected"
=============================================================================
