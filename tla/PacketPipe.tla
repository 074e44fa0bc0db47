----------------------------- MODULE PacketPipe -----------------------------
(***************************************************************************)
(* One data pipe of the packet processing service (Motion, Safety and      *)
(* OnVIF have one each): DeviceService captures, a task per packet hands   *)
(* it to HandlerService.OnNext, handler workers parse from the raw channel *)
(* into the parsed channel, and DbWriterService's workers batch from there *)
(* into QuestDB.  Both channels are bounded and in Wait mode: a writer     *)
(* that finds one full is parked, and the read that makes room takes its   *)
(* item in.                                                                *)
(***************************************************************************)
EXTENDS Integers, SequencesExt

CONSTANTS
    Packet,      \* what is captured
    Unparsable,  \* the Packets Parse returns null for
    Handler, Writer,                     \* the workers of the two services
    RawCapacity, ParsedCapacity,         \* of the bounded channels
    Burst,                               \* RAW_READ_BURST
    BatchSize,
    Faults,      \* which of "ingress", "lost", "other", "stop"
    MaxFaults,   \* failed writes to and connections with QuestDB, at most
    None

ASSUME PipeAssumption ==
    /\ RawCapacity \in Nat \ {0} /\ ParsedCapacity \in Nat \ {0}
    /\ Burst \in Nat \ {0} /\ BatchSize \in Nat \ {0} /\ MaxFaults \in Nat
    /\ Unparsable \subseteq Packet /\ None \notin Packet
    /\ Handler # {} /\ Writer # {}

VARIABLES
    captured,      \* history: the Packets captured so far
    capturing,     \* a device captures for the handler
    offloaded,     \* the tasks that have yet to call OnNext
    raw, rawParked,        \* the raw channel, and its parked writers
    hpc, batch, current,   \* a handler worker: where, rawBatch, its WriteAsync
    parsed, parsedParked,
    wpc, buffer, sender,   \* a writer worker: where, its batch, its sender
    rows,          \* how often each Packet was committed to QuestDB
    dropped, failed,       \* counted by RecordParseFailure, RecordFlushFailure
    stopping,      \* the host's stoppingToken
    faults

device == <<captured, capturing>>
rawChannel == <<raw, rawParked>>
handlers == <<hpc, batch, current>>
parsedChannel == <<parsed, parsedParked>>
writers == <<wpc, buffer, sender>>
counts == <<dropped, failed>>
pipeVars == <<device, offloaded, rawChannel, handlers, parsedChannel, writers, rows, counts, stopping, faults>>

(* What each variable holds; the channels are bounded. *)
PipeTypeOK ==
    /\ captured \subseteq Packet /\ capturing \in BOOLEAN
    /\ offloaded \subseteq Packet
    /\ raw \in Seq(Packet) /\ Len(raw) <= RawCapacity /\ rawParked \in Seq(Packet)
    /\ parsed \in Seq(Packet) /\ Len(parsed) <= ParsedCapacity /\ parsedParked \in Seq(Packet)
    /\ hpc \in [Handler -> {"first", "more", "process", "parked", "exited"}]
    /\ batch \in [Handler -> Seq(Packet)] /\ current \in [Handler -> Packet \cup {None}]
    /\ wpc \in [Writer -> {"start", "wait", "first", "more", "flush", "retry", "final", "finalRetry",
                           "exited", "dead"}]
    /\ buffer \in [Writer -> Seq(Packet)] /\ sender \in [Writer -> {"none", "open", "disposed"}]
    /\ rows \in [Packet -> Nat] /\ dropped \subseteq Packet /\ failed \subseteq Packet
    /\ stopping \in BOOLEAN /\ faults \in 0..MaxFaults

PipeInit ==
    /\ captured = {} /\ capturing = FALSE /\ offloaded = {}
    /\ raw = <<>> /\ rawParked = <<>>
    /\ hpc = [h \in Handler |-> "first"] /\ batch = [h \in Handler |-> <<>>]
    /\ current = [h \in Handler |-> None]
    /\ parsed = <<>> /\ parsedParked = <<>>
    /\ wpc = [w \in Writer |-> "start"] /\ buffer = [w \in Writer |-> <<>>]
    /\ sender = [w \in Writer |-> "none"]
    /\ rows = [p \in Packet |-> 0] /\ dropped = {} /\ failed = {}
    /\ stopping = FALSE /\ faults = 0

(* A bounded channel once an item is read: the first parked writer's item is in. *)
FirstParked(parked) == IF parked = <<>> THEN <<>> ELSE <<Head(parked)>>
AfterRead(queue, parked) == Tail(queue) \o FirstParked(parked)
ParkedAfterRead(parked) == IF parked = <<>> THEN <<>> ELSE Tail(parked)

-----------------------------------------------------------------------------
(* DeviceService. *)

(* Bound: with every Packet captured, nothing depends on the device. *)
MoreToCapture == captured # Packet

(* SubscribeWithFilterAsync.  A device that cannot be opened changes       *)
(* nothing; nor does a second one, which is not in _activeSubscriptions:   *)
(* it goes on capturing when the first is stopped.                         *)
Subscribe ==
    /\ ~capturing /\ capturing' = TRUE /\ MoreToCapture
    /\ UNCHANGED <<captured, offloaded, rawChannel, handlers, parsedChannel, writers, rows, counts, stopping, faults>>

(* OnPacketArrival: a task per packet. *)
Arrives(p) ==
    /\ capturing /\ p \notin captured
    /\ captured' = captured \cup {p} /\ offloaded' = offloaded \cup {p}
    /\ UNCHANGED <<capturing, rawChannel, handlers, parsedChannel, writers, rows, counts, stopping, faults>>

(* HandlerService.UnsubscribeAsync, as RealtimeService.StopAsync calls it, with *)
(* no second device left: what was captured stays on its way.                   *)
Unsubscribe ==
    /\ capturing /\ capturing' = FALSE /\ MoreToCapture
    /\ UNCHANGED <<captured, offloaded, rawChannel, handlers, parsedChannel, writers, rows, counts, stopping, faults>>

-----------------------------------------------------------------------------
(* HandlerService. *)

(* OnNext: TryWrite, or WriteAsync waited for when the channel is full. *)
OnNext(p) ==
    /\ p \in offloaded /\ offloaded' = offloaded \ {p}
    /\ \/ /\ Len(raw) < RawCapacity
          /\ raw' = Append(raw, p) /\ UNCHANGED rawParked
       \/ /\ Len(raw) = RawCapacity
          /\ rawParked' = Append(rawParked, p) /\ UNCHANGED raw
    /\ UNCHANGED <<device, handlers, parsedChannel, writers, rows, counts, stopping, faults>>

(* A read, which may let a parked writer's packet in. *)
TakesRaw(h) ==
    /\ raw # <<>>
    /\ batch' = [batch EXCEPT ![h] = Append(@, Head(raw))]
    /\ raw' = AfterRead(raw, rawParked) /\ rawParked' = ParkedAfterRead(rawParked)

(* ReadBatchFromChannelAsync: the first item is waited for. *)
ReadsFirst(h) ==
    /\ hpc[h] = "first" /\ ~stopping /\ TakesRaw(h)
    /\ hpc' = [hpc EXCEPT ![h] = "more"]
    /\ UNCHANGED <<device, offloaded, current, parsedChannel, writers, rows, counts, stopping, faults>>

(* Then what is there, up to RAW_READ_BURST. *)
ReadsMore(h) ==
    /\ hpc[h] = "more" /\ Len(batch[h]) < Burst /\ TakesRaw(h)
    /\ UNCHANGED <<device, offloaded, hpc, current, parsedChannel, writers, rows, counts, stopping, faults>>

ReadsEnough(h) ==
    /\ hpc[h] = "more" /\ (Len(batch[h]) = Burst \/ raw = <<>>)
    /\ hpc' = [hpc EXCEPT ![h] = "process"]
    /\ UNCHANGED <<device, offloaded, rawChannel, batch, current, parsedChannel, writers, rows, counts, stopping, faults>>

RecordParseFailure(p) == dropped' = dropped \cup {p}

(* ProcessBatchAsync's next packet: dropped if it cannot be parsed, else *)
(* ForwardToParsedChannelAsync's TryWrite, or its WriteAsync.            *)
Processes(h) ==
    /\ hpc[h] = "process" /\ batch[h] # <<>>
    /\ batch' = [batch EXCEPT ![h] = Tail(@)]
    /\ LET p == Head(batch[h]) IN
        \/ /\ p \in Unparsable /\ RecordParseFailure(p)
           /\ UNCHANGED <<hpc, current, parsedChannel>>
        \/ /\ p \notin Unparsable /\ Len(parsed) < ParsedCapacity
           /\ parsed' = Append(parsed, p)
           /\ UNCHANGED <<hpc, current, parsedParked, dropped>>
        \/ /\ p \notin Unparsable /\ Len(parsed) = ParsedCapacity
           /\ hpc' = [hpc EXCEPT ![h] = "parked"] /\ current' = [current EXCEPT ![h] = p]
           /\ parsedParked' = Append(parsedParked, p)
           /\ UNCHANGED <<parsed, dropped>>
    /\ UNCHANGED <<device, offloaded, rawChannel, writers, rows, failed, stopping, faults>>

(* Its WriteAsync is answered. *)
Forwarded(h) ==
    /\ hpc[h] = "parked" /\ current[h] \notin ToSet(parsedParked)
    /\ hpc' = [hpc EXCEPT ![h] = "process"] /\ current' = [current EXCEPT ![h] = None]
    /\ UNCHANGED <<device, offloaded, rawChannel, batch, parsedChannel, writers, rows, counts, stopping, faults>>

(* Mutant: the WriteAsync without the token. *)
NeverCancelled(h) ==
    hpc[h] = "never" /\ UNCHANGED pipeVars

(* Its WriteAsync is cancelled: the packet counts as a parse failure. *)
Cancelled(h) ==
    /\ stopping /\ hpc[h] = "parked"
    /\ \E i \in DOMAIN parsedParked :
        parsedParked[i] = current[h] /\ parsedParked' = RemoveAt(parsedParked, i)
    /\ hpc' = [hpc EXCEPT ![h] = "process"] /\ current' = [current EXCEPT ![h] = None]
    /\ RecordParseFailure(current[h])
    /\ UNCHANGED <<device, offloaded, rawChannel, batch, parsed, writers, rows, failed, stopping, faults>>

BatchDone(h) ==
    /\ hpc[h] = "process" /\ batch[h] = <<>>
    /\ hpc' = [hpc EXCEPT ![h] = "first"]
    /\ UNCHANGED <<device, offloaded, rawChannel, batch, current, parsedChannel, writers, rows, counts, stopping, faults>>

(* Its loop's condition, or its ReadAsync, sees the token. *)
HandlerExits(h) ==
    /\ stopping /\ hpc[h] = "first" /\ hpc' = [hpc EXCEPT ![h] = "exited"]
    /\ UNCHANGED <<device, offloaded, rawChannel, batch, current, parsedChannel, writers, rows, counts, stopping, faults>>

-----------------------------------------------------------------------------
(* DbWriterService. *)

(* Its sender is opened. *)
Starts(w) ==
    /\ wpc[w] = "start" /\ wpc' = [wpc EXCEPT ![w] = "wait"]
    /\ sender' = [sender EXCEPT ![w] = "open"]
    /\ UNCHANGED <<device, offloaded, rawChannel, handlers, parsedChannel, buffer, rows, counts, stopping, faults>>

(* Sender.New throws: as the worker starts, or where a failed batch would  *)
(* be retried, in the catch and outside the inner try.  The worker dies    *)
(* with its buffer, and nothing counts it.                                 *)
SenderFails(w) ==
    /\ wpc[w] \in {"start", "retry", "finalRetry"}
    /\ "ingress" \in Faults /\ faults < MaxFaults /\ faults' = faults + 1
    /\ wpc' = [wpc EXCEPT ![w] = "dead"]
    /\ UNCHANGED <<device, offloaded, rawChannel, handlers, parsedChannel, buffer, sender, rows, counts, stopping>>

(* WaitToReadAsync came first; another worker may still take the item. *)
Wakes(w) ==
    /\ wpc[w] = "wait" /\ ~stopping /\ parsed # <<>>
    /\ wpc' = [wpc EXCEPT ![w] = "first"]
    /\ UNCHANGED <<device, offloaded, rawChannel, handlers, parsedChannel, buffer, sender, rows, counts, stopping, faults>>

(* ReadFromChannel: its first TryRead does not look at the room left. *)
Reads(w) ==
    /\ wpc[w] = "first" \/ (wpc[w] = "more" /\ Len(buffer[w]) < BatchSize)
    /\ parsed # <<>>
    /\ wpc' = [wpc EXCEPT ![w] = "more"]
    /\ buffer' = [buffer EXCEPT ![w] = Append(@, Head(parsed))]
    /\ parsed' = AfterRead(parsed, parsedParked) /\ parsedParked' = ParkedAfterRead(parsedParked)
    /\ UNCHANGED <<device, offloaded, rawChannel, handlers, sender, rows, counts, stopping, faults>>

(* ShouldFlush: full, or its oldest is over _batchTimeout old. *)
ShouldFlush(n, aged) == n >= BatchSize \/ (n > 0 /\ aged)

(* The reads end, and the batch is flushed if it is time. *)
ReadsEnd(w) ==
    /\ \/ wpc[w] = "first" /\ parsed = <<>>
       \/ wpc[w] = "more" /\ (Len(buffer[w]) >= BatchSize \/ parsed = <<>>)
    /\ \E aged \in BOOLEAN :
        wpc' = [wpc EXCEPT ![w] = IF ShouldFlush(Len(buffer[w]), aged) THEN "flush" ELSE "wait"]
    /\ UNCHANGED <<device, offloaded, rawChannel, handlers, parsedChannel, buffer, sender, rows, counts, stopping, faults>>

(* Mutant: the tick flushes full batches only. *)
TicksForFull(w) ==
    /\ wpc[w] = "wait" /\ ~stopping /\ Len(buffer[w]) >= BatchSize
    /\ wpc' = [wpc EXCEPT ![w] = "flush"]
    /\ UNCHANGED <<device, offloaded, rawChannel, handlers, parsedChannel, buffer, sender, rows, counts, stopping, faults>>

(* The timer ticks: whatever is pending is flushed. *)
Ticks(w) ==
    /\ wpc[w] = "wait" /\ ~stopping /\ buffer[w] # <<>>
    /\ wpc' = [wpc EXCEPT ![w] = "flush"]
    /\ UNCHANGED <<device, offloaded, rawChannel, handlers, parsedChannel, buffer, sender, rows, counts, stopping, faults>>

(* QuestDB commits the worker's batch. *)
WritesBatch(w) == rows' = [p \in Packet |-> rows[p] + (IF p \in ToSet(buffer[w]) THEN 1 ELSE 0)]

(* FlushInternalAsync's first write is committed. *)
Flushes(w) ==
    /\ wpc[w] = "flush" /\ ~stopping /\ sender[w] = "open" /\ WritesBatch(w)
    /\ wpc' = [wpc EXCEPT ![w] = "wait"] /\ buffer' = [buffer EXCEPT ![w] = <<>>]
    /\ UNCHANGED <<device, offloaded, rawChannel, handlers, parsedChannel, sender, counts, stopping, faults>>

(* Mutant: a batch nobody counts. *)
FlushNotRecorded(w) == w = w /\ UNCHANGED failed

RecordFlushFailure(w) == failed' = failed \cup ToSet(buffer[w])

(* A write that fails may have been committed, with only its answer lost. *)
CommittedUnseen(w) == UNCHANGED rows \/ ("lost" \in Faults /\ WritesBatch(w))

WriteFails(w) ==
    /\ "ingress" \in Faults /\ faults < MaxFaults /\ faults' = faults + 1
    /\ CommittedUnseen(w)

(* It fails as IOException, SocketException or an Ingress error: the sender is *)
(* disposed, and another used for this batch's retry only.  A disposed sender  *)
(* always fails.                                                               *)
FlushFails(w) ==
    /\ wpc[w] \in {"flush", "final"} /\ (wpc[w] = "flush" => ~stopping)
    /\ \/ sender[w] = "disposed" /\ UNCHANGED <<rows, faults>>
       \/ sender[w] = "open" /\ WriteFails(w)
    /\ sender' = [sender EXCEPT ![w] = "disposed"]
    /\ wpc' = [wpc EXCEPT ![w] = IF @ = "flush" THEN "retry" ELSE "finalRetry"]
    /\ UNCHANGED <<device, offloaded, rawChannel, handlers, parsedChannel, buffer, counts, stopping>>

(* It fails otherwise, a cancelled token included: counted, and the worker goes on. *)
FlushErrs(w) ==
    /\ wpc[w] = "flush"
    /\ \/ stopping /\ UNCHANGED faults
       \/ "other" \in Faults /\ faults < MaxFaults /\ faults' = faults + 1
    /\ CommittedUnseen(w) /\ RecordFlushFailure(w)
    /\ wpc' = [wpc EXCEPT ![w] = "wait"] /\ buffer' = [buffer EXCEPT ![w] = <<>>]
    /\ UNCHANGED <<device, offloaded, rawChannel, handlers, parsedChannel, sender, dropped, stopping>>

(* The retry is committed. *)
RetriesFlush(w) ==
    /\ wpc[w] = "retry" /\ ~stopping /\ WritesBatch(w)
    /\ wpc' = [wpc EXCEPT ![w] = "wait"] /\ buffer' = [buffer EXCEPT ![w] = <<>>]
    /\ UNCHANGED <<device, offloaded, rawChannel, handlers, parsedChannel, sender, counts, stopping, faults>>

(* The retry fails too: counted and rethrown, which ends the worker. *)
RetryFails(w) ==
    /\ wpc[w] = "retry" /\ ~stopping /\ WriteFails(w)
    /\ RecordFlushFailure(w)
    /\ wpc' = [wpc EXCEPT ![w] = "dead"] /\ buffer' = [buffer EXCEPT ![w] = <<>>]
    /\ UNCHANGED <<device, offloaded, rawChannel, handlers, parsedChannel, sender, dropped, stopping>>

(* The retry is cancelled: counted and rethrown, with the buffer still full, to *)
(* the catch that flushes it again.                                             *)
RetryCancelled(w) ==
    /\ wpc[w] = "retry" /\ stopping /\ CommittedUnseen(w)
    /\ RecordFlushFailure(w) /\ wpc' = [wpc EXCEPT ![w] = "final"]
    /\ UNCHANGED <<device, offloaded, rawChannel, handlers, parsedChannel, buffer, sender, dropped, stopping, faults>>

(* The token is seen while the worker waits.  The loop's condition, and .Result *)
(* throwing AggregateException, leave the buffer; only the tick's own           *)
(* OperationCanceledException leads to FinalFlushAsync.                         *)
WriterStops(w) ==
    /\ stopping /\ wpc[w] = "wait"
    /\ \E to \in {"exited", "dead"} \cup (IF buffer[w] = <<>> THEN {} ELSE {"final"}) : wpc' = [wpc EXCEPT ![w] = to]
    /\ UNCHANGED <<device, offloaded, rawChannel, handlers, parsedChannel, buffer, sender, rows, counts, stopping, faults>>

(* FinalFlushAsync, with no token: its write or its retry is committed. *)
FinalFlushes(w) ==
    /\ \/ wpc[w] = "final" /\ sender[w] = "open"
       \/ wpc[w] = "finalRetry"
    /\ WritesBatch(w)
    /\ wpc' = [wpc EXCEPT ![w] = "exited"] /\ buffer' = [buffer EXCEPT ![w] = <<>>]
    /\ UNCHANGED <<device, offloaded, rawChannel, handlers, parsedChannel, sender, counts, stopping, faults>>

(* Its write fails otherwise, or its retry fails. *)
FinalFlushFails(w) ==
    /\ \/ wpc[w] = "final" /\ "other" \in Faults /\ faults < MaxFaults /\ faults' = faults + 1 /\ CommittedUnseen(w)
       \/ wpc[w] = "finalRetry" /\ WriteFails(w)
    /\ RecordFlushFailure(w)
    /\ wpc' = [wpc EXCEPT ![w] = IF @ = "final" THEN "exited" ELSE "dead"]
    /\ buffer' = [buffer EXCEPT ![w] = <<>>]
    /\ UNCHANGED <<device, offloaded, rawChannel, handlers, parsedChannel, sender, dropped, stopping>>

-----------------------------------------------------------------------------
(* The host stops, and so cancels both services' stoppingToken: when it is told *)
(* to, or when the last writer worker dies and ExecuteAsync's task with it.     *)
Stop ==
    /\ ~stopping /\ stopping' = TRUE
    /\ "stop" \in Faults \/ \A w \in Writer : wpc[w] = "dead"
    /\ UNCHANGED <<device, offloaded, rawChannel, handlers, parsedChannel, writers, rows, counts, faults>>

DeviceSteps == Subscribe \/ Unsubscribe \/ \E p \in Packet : Arrives(p)
HandlerSteps(h) ==
    \/ ReadsFirst(h) \/ ReadsMore(h) \/ ReadsEnough(h) \/ Processes(h) \/ Forwarded(h)
    \/ Cancelled(h) \/ BatchDone(h) \/ HandlerExits(h)
WriterSteps(w) ==
    \/ Starts(w) \/ SenderFails(w) \/ Wakes(w) \/ Reads(w) \/ ReadsEnd(w) \/ Ticks(w) \/ Flushes(w) \/ FlushFails(w) \/ FlushErrs(w)
    \/ RetriesFlush(w) \/ RetryFails(w) \/ RetryCancelled(w) \/ WriterStops(w) \/ FinalFlushes(w) \/ FinalFlushFails(w)

PipeNext ==
    \/ DeviceSteps \/ Stop
    \/ \E p \in Packet : OnNext(p)
    \/ \E h \in Handler : HandlerSteps(h)
    \/ \E w \in Writer : WriterSteps(w)

PipeSpec == PipeInit /\ [][PipeNext]_pipeVars

(* Every task and worker thread is scheduled while it can go on, and the timer *)
(* ticks; nothing is assumed of the device, the operator or the host.          *)
PipeFairSpec ==
    /\ PipeSpec
    /\ \A p \in Packet : WF_pipeVars(OnNext(p))
    /\ \A h \in Handler : WF_pipeVars(HandlerSteps(h))
    /\ \A w \in Writer : WF_pipeVars(WriterSteps(w))

-----------------------------------------------------------------------------
One(b) == IF b THEN 1 ELSE 0

Ended(w) == wpc[w] \in {"exited", "dead"}
AllDead == \A w \in Writer : wpc[w] = "dead"

Unparsed == offloaded \cup ToSet(raw) \cup ToSet(rawParked)
Parsed == ToSet(parsed) \cup ToSet(parsedParked)

(* A Packet is on its way: a worker has it, or there is one to take it. *)
OnItsWay(p) ==
    \/ p \in Unparsed /\ \E h \in Handler : hpc[h] # "exited"
    \/ \E h \in Handler : hpc[h] # "exited" /\ p \in ToSet(batch[h])
    \/ p \in Parsed /\ \E w \in Writer : ~Ended(w)
    \/ \E w \in Writer : ~Ended(w) /\ p \in ToSet(buffer[w])

(* It went with the batch of a writer that found no sender to retry with. *)
DiedWith(p) ==
    \E w \in Writer : wpc[w] = "dead" /\ sender[w] = "disposed" /\ p \in ToSet(buffer[w])

(* It is where nobody will take it from, and nobody counted it. *)
LeftBehind(p) == p \in Unparsed \cup Parsed \/ \E w \in Writer : Ended(w) /\ p \in ToSet(buffer[w])

(* How often its end is accounted for. *)
Settled(p) == rows[p] + One(p \in dropped) + One(p \in failed)

(* While the host runs and a writer is alive, a captured Packet has a       *)
(* worker to take it on, is stored or counted lost, or went with the one    *)
(* batch of a writer that could not open another sender, which nothing      *)
(* counts (DbWriterService.cs:275).  Only a host that stops, or whose last  *)
(* writer died, leaves others behind: in a channel, or in the buffer of a   *)
(* writer that ended without FinalFlushAsync (:155).  A retry may store a   *)
(* batch twice, and a stopped worker may count what it then stores.         *)
NothingVanishes ==
    \A p \in captured :
        \/ OnItsWay(p) \/ Settled(p) > 0 \/ DiedWith(p)
        \/ (stopping \/ AllDead) /\ LeftBehind(p)

(* ReadFromChannel never writes past the end of its BatchSize buffer, though    *)
(* its first read does not look at the room left.                               *)
NeverOverrun == \A w \in Writer : Len(buffer[w]) <= BatchSize

(* While a writer is alive and the host is not stopped, a captured Packet is    *)
(* stored, counted as dropped or failed, or gone with its writer, in the end,   *)
(* however little room the channels have and whichever other writer died: no    *)
(* worker waits for a full batch that never comes, and no two stages wait for   *)
(* each other.                                                                  *)
Delivered ==
    \A p \in Packet : (p \in captured) ~> (Settled(p) > 0 \/ DiedWith(p) \/ stopping \/ AllDead)

(* When the host stops, every worker ends, one parked on a full channel that    *)
(* nothing reads any more included.                                             *)
StopEnds ==
    stopping ~> (/\ \A h \in Handler : hpc[h] = "exited"
                 /\ \A w \in Writer : wpc[w] \in {"exited", "dead"})
=============================================================================
