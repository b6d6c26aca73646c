------------------------------ MODULE Pipeline ------------------------------
(***************************************************************************)
(* engine.BackupStream: one reader that cuts a stream into chunks in       *)
(* order, a bounded pool of read buffers, workers that store the chunks    *)
(* out of order, and the coalescing of uploads of equal chunks in          *)
(* storeChunkWithHash.  A chunk is its content; the target keeps a set of  *)
(* contents (the index and the object behind it are ChunkStore's concern). *)
(***************************************************************************)
EXTENDS Naturals, Sequences, SequencesExt, FiniteSets

CONSTANTS Workers,   \* upload workers
          Contents,  \* what a chunk may hold
          MaxChunks, \* bound on the length of a stream
          Nobody     \* no worker

ASSUME WorkersAssumption ==
  IsFiniteSet(Workers) /\ Workers # {} /\ MaxChunks \in Nat /\ Nobody \notin Workers

VARIABLES stream,      \* what the source will deliver, chunk by chunk
          present,     \* what the target held before the call
          stored,      \* what it holds now
          reader,      \* readChunks: pc, chunks read so far, how the last read ended
          worker,      \* each worker: pc, the chunk in hand, whose upload it awaits
          inflight,    \* Engine.inflight: who uploads a content
          free,        \* buffers on the free list
          allocated,   \* bufPool.allocated
          chunks,      \* the manifest as placed so far
          uploaded,    \* Stats.ChunksUploaded
          deduped,     \* Stats.ChunksDeduped
          failed,      \* firstErr is set, and with it the context cancelled
          parentDone,  \* the caller's context is done
          result       \* what BackupStream returned

pool == <<free, allocated>>
target == <<stored, inflight>>
manifest == <<chunks, uploaded, deduped>>
source == <<stream, present>>
vars == <<stream, present, stored, reader, worker, inflight, free, allocated, chunks, uploaded,
          deduped, failed, parentDone, result>>

ctxDone == parentDone \/ failed
MaxBuffers == Cardinality(Workers) + 1
Resting == [pc |-> "idle", seq |-> 0, on |-> Nobody]
Hole == "hole"  \* Chunk{}: a place that no worker has filled yet

Init ==
  /\ stream \in UNION {[1..n -> Contents] : n \in 0..MaxChunks}
  /\ present \in SUBSET Contents
  /\ stored = present
  /\ reader = [pc |-> "check", seq |-> 0, end |-> "more"]
  /\ worker = [w \in Workers |-> Resting]
  /\ inflight = [c \in Contents |-> Nobody]
  /\ free = 0 /\ allocated = 0
  /\ chunks = <<>>
  /\ uploaded = 0 /\ deduped = 0
  /\ failed = FALSE /\ parentDone = FALSE
  /\ result = "none"

-----------------------------------------------------------------------------
(* bufPool and the reader.                                                 *)

\* put drops a buffer that the free list has no room for.
Put(n) == IF n < MaxBuffers THEN n + 1 ELSE n

ReaderStops(pc, end) == reader' = [reader EXCEPT !.pc = pc, !.end = end]

\* The context is looked at before every read.
CheckContext ==
  /\ reader.pc = "check"
  /\ IF ctxDone THEN ReaderStops("done", "ctx") ELSE ReaderStops("get", "more")
  /\ UNCHANGED <<source, target, worker, pool, manifest, failed, parentDone, result>>

\* get: a free buffer, or one more while the pool may grow, or wait.  (That the wait
\* may also be cut by the context is left out: BuffersConserved says there is none.)
GetFree ==
  /\ reader.pc \in {"get", "wait"}
  /\ free > 0
  /\ free' = free - 1
  /\ ReaderStops("read", "more")
  /\ UNCHANGED <<source, target, worker, allocated, manifest, failed, parentDone, result>>

GetNone ==
  /\ reader.pc = "get"
  /\ free = 0
  /\ ReaderStops("grow", "more")
  /\ UNCHANGED <<source, target, worker, pool, manifest, failed, parentDone, result>>

Grow ==
  /\ reader.pc = "grow"
  /\ IF allocated < MaxBuffers
       THEN allocated' = allocated + 1 /\ ReaderStops("read", "more")
       ELSE UNCHANGED allocated /\ ReaderStops("wait", "more")
  /\ UNCHANGED <<source, target, worker, free, manifest, failed, parentDone, result>>

\* A chunk was read; the last one may come with the end of the stream, and a
\* failing read may deliver a part.
ReadChunk ==
  /\ reader.pc = "read"
  /\ reader.seq < Len(stream)
  /\ \E end \in {"more", "error"} \cup (IF reader.seq + 1 = Len(stream) THEN {"eof"} ELSE {}) :
       reader' = [pc |-> "send", seq |-> reader.seq + 1, end |-> end]
  /\ UNCHANGED <<source, target, worker, pool, manifest, failed, parentDone, result>>

\* Nothing was read: the stream is over, or the read failed.
ReadNothing ==
  /\ reader.pc = "read"
  /\ free' = Put(free)
  /\ \/ reader.seq = Len(stream) /\ ReaderStops("done", "eof")
     \/ ReaderStops("done", "error")
  /\ UNCHANGED <<source, target, worker, allocated, manifest, failed, parentDone, result>>

\* The unbuffered channel: the reader meets an idle worker ...
Send(w) ==
  /\ reader.pc = "send"
  /\ worker[w].pc = "idle"
  /\ worker' = [worker EXCEPT ![w] = [pc |-> "look", seq |-> reader.seq, on |-> Nobody]]
  /\ ReaderStops(IF reader.end = "more" THEN "check" ELSE "done", reader.end)
  /\ UNCHANGED <<source, target, pool, manifest, failed, parentDone, result>>

\* ... or gives up because the context is done.
SendCut ==
  /\ reader.pc = "send"
  /\ ctxDone
  /\ free' = Put(free)
  /\ ReaderStops("done", "ctx")
  /\ UNCHANGED <<source, target, worker, allocated, manifest, failed, parentDone, result>>

-----------------------------------------------------------------------------
(* The workers.                                                            *)

Go(w, pc) == worker' = [worker EXCEPT ![w].pc = pc]
Rest(w) == [worker EXCEPT ![w] = Resting]
content(w) == stream[worker[w].seq]

\* place: the manifest grows with holes up to the chunk's own position.
place(w) ==
  [i \in 1..(IF Len(chunks) < worker[w].seq THEN worker[w].seq ELSE Len(chunks)) |->
     IF i = worker[w].seq THEN content(w) ELSE IF i <= Len(chunks) THEN chunks[i] ELSE Hole]

\* Slip: a chunk met after a failure is dropped with its buffer.
LookDropping(w) ==
  /\ worker[w].pc = "look"
  /\ IF ctxDone THEN worker' = Rest(w) ELSE Go(w, "claim")
  /\ UNCHANGED <<source, target, reader, pool, manifest, failed, parentDone, result>>

\* A unit received after the context is done is not stored, only its buffer is
\* handed back.
Look(w) ==
  /\ worker[w].pc = "look"
  /\ IF ctxDone THEN worker' = Rest(w) /\ free' = Put(free)
                ELSE Go(w, "claim") /\ UNCHANGED free
  /\ UNCHANGED <<source, target, reader, allocated, manifest, failed, parentDone, result>>

\* Slip: every worker uploads for itself.
ClaimAlone(w) ==
  /\ worker[w].pc = "claim"
  /\ Go(w, "ask")
  /\ inflight' = [inflight EXCEPT ![content(w)] = w]
  /\ UNCHANGED <<source, stored, reader, pool, manifest, failed, parentDone, result>>

\* storeChunkWithHash under inflightMu: wait for the upload of an equal chunk, or
\* register one's own.
Claim(w) ==
  /\ worker[w].pc = "claim"
  /\ IF inflight[content(w)] # Nobody
       THEN /\ worker' = [worker EXCEPT ![w].pc = "await", ![w].on = inflight[content(w)]]
            /\ UNCHANGED inflight
       ELSE /\ Go(w, "ask")
            /\ inflight' = [inflight EXCEPT ![content(w)] = w]
  /\ UNCHANGED <<source, stored, reader, pool, manifest, failed, parentDone, result>>

\* putChunk: is it on the target already?
AskTarget(w) ==
  /\ worker[w].pc = "ask"
  /\ Go(w, IF content(w) \in stored THEN "had" ELSE "upload")
  /\ UNCHANGED <<source, target, reader, pool, manifest, failed, parentDone, result>>

Upload(w) ==
  /\ worker[w].pc = "upload"
  /\ stored' = stored \cup {content(w)}
  /\ Go(w, "put")
  /\ UNCHANGED <<source, inflight, reader, pool, manifest, failed, parentDone, result>>

StoreFails(w) ==
  /\ worker[w].pc \in {"ask", "upload"}
  /\ Go(w, "broken")
  /\ UNCHANGED <<source, target, reader, pool, manifest, failed, parentDone, result>>

\* The upload is over: it is taken out of inflight ...
Unregister(w) ==
  /\ worker[w].pc \in {"had", "put", "broken"}
  /\ inflight[content(w)] = w
  /\ inflight' = [inflight EXCEPT ![content(w)] = Nobody]
  /\ UNCHANGED <<source, stored, reader, worker, pool, manifest, failed, parentDone, result>>

\* Slip: who waits on w learns of a failure only.
ToldOfFailure(w) ==
  [v \in Workers |->
     IF v = w THEN Resting
     ELSE IF worker[v].pc = "await" /\ worker[v].on = w /\ worker[w].pc = "broken"
       THEN [worker[v] EXCEPT !.pc = "claim", !.on = Nobody]
       ELSE worker[v]]

\* Who waits on w learns how its upload ended.
Told(w) ==
  [v \in Workers |->
     IF v = w THEN Resting
     ELSE IF worker[v].pc = "await" /\ worker[v].on = w
       THEN [worker[v] EXCEPT !.pc = IF worker[w].pc = "broken" THEN "claim" ELSE "told",
                              !.on = Nobody]
       ELSE worker[v]]

\* Slip: the outcome of a failed upload is forgotten.
SettleQuietly(w) ==
  /\ worker[w].pc \in {"had", "put", "broken"}
  /\ inflight[content(w)] # w
  /\ worker' = Told(w)
  /\ free' = Put(free)
  /\ IF worker[w].pc = "broken" THEN UNCHANGED manifest
       ELSE /\ chunks' = place(w)
            /\ uploaded' = uploaded + (IF worker[w].pc = "put" THEN 1 ELSE 0)
            /\ deduped' = deduped + (IF worker[w].pc = "had" THEN 1 ELSE 0)
  /\ UNCHANGED <<source, target, reader, allocated, failed, parentDone, result>>

\* ... then whoever waited is told, and the worker places the chunk and accounts
\* for it, or fails the stream, and hands its buffer back.
Settle(w) ==
  /\ worker[w].pc \in {"had", "put", "broken"}
  /\ inflight[content(w)] # w
  /\ worker' = Told(w)
  /\ free' = Put(free)
  /\ IF worker[w].pc = "broken" THEN failed' = TRUE /\ UNCHANGED manifest
       ELSE /\ chunks' = place(w)
            /\ uploaded' = uploaded + (IF worker[w].pc = "put" THEN 1 ELSE 0)
            /\ deduped' = deduped + (IF worker[w].pc = "had" THEN 1 ELSE 0)
            /\ UNCHANGED failed
  /\ UNCHANGED <<source, target, reader, allocated, parentDone, result>>

\* A worker whose chunk somebody else stored counts it as deduplicated.
Credited(w) ==
  /\ worker[w].pc = "told"
  /\ worker' = Rest(w)
  /\ free' = Put(free)
  /\ chunks' = place(w)
  /\ deduped' = deduped + 1
  /\ UNCHANGED <<source, target, reader, allocated, uploaded, failed, parentDone, result>>

\* The wait for somebody else's upload is cut by the context.
AwaitCut(w) ==
  /\ worker[w].pc \in {"await", "told"}
  /\ ctxDone
  /\ worker' = Rest(w)
  /\ free' = Put(free)
  /\ failed' = TRUE
  /\ UNCHANGED <<source, target, reader, allocated, manifest, parentDone, result>>

-----------------------------------------------------------------------------

\* BackupStream itself: the channel is closed, the workers are waited for, and
\* the manifest is looked over for holes.
Return ==
  /\ result = "none"
  /\ reader.pc = "done"
  /\ \A w \in Workers : worker[w].pc = "idle"
  /\ result' = IF failed \/ reader.end # "eof" \/ \E i \in DOMAIN chunks : chunks[i] = Hole
                 THEN "error" ELSE "ok"
  /\ UNCHANGED <<source, target, reader, worker, pool, manifest, failed, parentDone>>

\* The caller's context is cancelled.
CancelStream ==
  /\ result = "none" /\ ~parentDone
  /\ parentDone' = TRUE
  /\ UNCHANGED <<source, target, reader, worker, pool, manifest, failed, result>>

ReaderStep ==
  \/ CheckContext
  \/ GetFree
  \/ GetNone
  \/ Grow
  \/ ReadChunk
  \/ ReadNothing
  \/ SendCut

WorkerStep(w) ==
  \/ Send(w)
  \/ Look(w)
  \/ Claim(w)
  \/ AskTarget(w)
  \/ Upload(w)
  \/ StoreFails(w)
  \/ Unregister(w)
  \/ Settle(w)
  \/ Credited(w)
  \/ AwaitCut(w)

Next == ReaderStep \/ (\E w \in Workers : WorkerStep(w)) \/ Return \/ CancelStream

Spec == Init /\ [][Next]_vars

\* Goroutines that can run do run, the source delivers, and the target answers.
FairSpec ==
  Spec /\ WF_vars(ReaderStep) /\ WF_vars(Return) /\ \A w \in Workers : WF_vars(WorkerStep(w))

-----------------------------------------------------------------------------

\* "It never allocates more than max" (pipeline.go:27) and "every buffer finds its
\* way back" (pipeline.go:151): the buffers on the free list, with the workers and
\* with the reader are all there are, and never more than one per worker and one;
\* that is "enough to keep every worker fed" (pipeline.go:113): the reader never
\* finds the free list empty with the pool at its cap, however slow the workers are.
BuffersConserved ==
  /\ reader.pc # "wait"
  /\ allocated <= MaxBuffers
  /\ allocated = free + Cardinality({w \in Workers : worker[w].pc # "idle"})
                      + (IF reader.pc \in {"read", "send"} THEN 1 ELSE 0)

\* "DiskManifest.Chunks is always in stream order" (pipeline.go:106): a stream that
\* is reported stored lists chunks of the stream at their own places, all of them
\* on the target, whatever order uploads finish in; and unless the caller's context
\* was cancelled, it lists every one.
WholeStreamStored ==
  result = "ok" =>
    /\ IsPrefix(chunks, stream)
    /\ ToSet(chunks) \subseteq stored
    /\ parentDone \/ chunks = stream

\* "the byte accounting does not depend on the worker count" (engine.go:284): a
\* stored stream counts as uploaded the contents that were new, once each, and
\* everything else as deduplicated.
SerialAccounting ==
  result = "ok" /\ chunks = stream =>
    /\ uploaded = Cardinality(ToSet(stream) \ present)
    /\ uploaded + deduped = Len(stream)

\* Nobody waits for ever on a buffer, a worker or an equal chunk's upload.
StreamReturns == <>(result # "none")
=============================================================================
