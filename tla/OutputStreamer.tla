--------------------------- MODULE OutputStreamer ---------------------------
(***************************************************************************)
(* What becomes of the output of a command.  The sandbox gives nsjail an   *)
(* OutputStreamer (internal/sandbox/output_streamer.go): a buffer that is  *)
(* flushed to the platform when it is large enough, by a ticker goroutine  *)
(* and once more by Stop.  The plain executor gives its command a          *)
(* limitedBuffer (internal/executor/executor.go) that keeps a prefix.      *)
(* Both are fed the same bytes here, numbered in the order they come.      *)
(***************************************************************************)
EXTENDS Integers, Sequences

CONSTANTS
    MaxBytes,   \* bound: bytes the command writes
    MaxChunk,   \* bound: bytes of one write
    flushSize,  \* size at which Write flushes
    maxOutput   \* limit of the limitedBuffer

ASSUME StreamAssumption == {MaxBytes, MaxChunk, flushSize, maxOutput} \subseteq Nat

VARIABLES
    produced,   \* bytes written so far
    sbuf,       \* os.buf
    sent,       \* what the sender was given
    full,       \* Write found the buffer large enough and is about to flush
    exited,     \* the command is over
    stopCh,     \* Stop closed the channel
    streamStopped,    \* Stop has returned
    tickerUp,   \* the flush goroutine runs
    kept,       \* limitedBuffer.buf
    cut         \* limitedBuffer.truncated

streamVars == <<produced, sbuf, sent, full, exited, stopCh, streamStopped, tickerUp, kept, cut>>

\* The bytes of a write of n.
Chunk(n) == [j \in 1 .. n |-> produced + j]

\* limitedBuffer.Write: what fits; the rest is dropped and noted.
limitedWrite(p) ==
    LET remaining == maxOutput - Len(kept)
    IN  IF remaining > 0
        THEN /\ kept' = kept \o SubSeq(p, 1, IF Len(p) > remaining THEN remaining ELSE Len(p))
             /\ cut' = (cut \/ Len(p) > remaining)
        ELSE cut' = TRUE /\ UNCHANGED kept

\* OutputStreamer.Write: append under the lock, flush after it.
Write(n) ==
    /\ ~exited /\ ~full /\ produced + n <= MaxBytes
    /\ produced' = produced + n
    /\ sbuf' = sbuf \o Chunk(n)
    /\ full' = (Len(sbuf') >= flushSize)
    /\ limitedWrite(Chunk(n))
    /\ UNCHANGED <<sent, exited, stopCh, streamStopped, tickerUp>>

\* Variant: the buffer is not cleared.
FlushKeeps == sent' = sent \o sbuf /\ UNCHANGED sbuf

\* The sender is called with the lock held.
Flush == sent' = sent \o sbuf /\ sbuf' = <<>>

WriteFlushes ==
    /\ full
    /\ Flush /\ full' = FALSE
    /\ UNCHANGED <<produced, exited, stopCh, streamStopped, tickerUp, kept, cut>>

\* The command exits and its output is closed: cmd.Run returns.
Exits ==
    /\ ~exited /\ ~full
    /\ exited' = TRUE
    /\ UNCHANGED <<produced, sbuf, sent, full, stopCh, streamStopped, tickerUp, kept, cut>>

Stop ==
    /\ exited /\ ~streamStopped
    /\ \/ ~stopCh /\ stopCh' = TRUE /\ UNCHANGED <<sbuf, sent, streamStopped>>
       \/ stopCh /\ Flush /\ streamStopped' = TRUE /\ UNCHANGED stopCh
    /\ UNCHANGED <<produced, full, exited, tickerUp, kept, cut>>

\* intervalFlush: a tick, also one that is pending when the channel is closed.
Tick ==
    /\ tickerUp
    /\ Flush
    /\ UNCHANGED <<produced, full, exited, stopCh, streamStopped, tickerUp, kept, cut>>

TickerStops ==
    /\ tickerUp /\ stopCh
    /\ tickerUp' = FALSE
    /\ UNCHANGED <<produced, sbuf, sent, full, exited, stopCh, streamStopped, kept, cut>>

StreamInit ==
    /\ produced = 0 /\ sbuf = <<>> /\ sent = <<>> /\ full = FALSE /\ exited = FALSE
    /\ stopCh = FALSE /\ streamStopped = FALSE /\ tickerUp = TRUE /\ kept = <<>> /\ cut = FALSE

StreamNext ==
    \/ \E n \in 1 .. MaxChunk : Write(n)
    \/ WriteFlushes \/ Exits \/ Stop \/ Tick \/ TickerStops

StreamSpec == StreamInit /\ [][StreamNext]_streamVars

(***************************************************************************)
(* Properties.                                                             *)
(***************************************************************************)

\* Nothing is lost, doubled or put in another order between the command and
\* the platform, whoever flushes, and when Stop has returned all of it is out.
StreamInOrder ==
    /\ sent \o sbuf = [j \in 1 .. produced |-> j]
    /\ streamStopped => sbuf = <<>>

\* The plain executor keeps the first bytes up to its limit, and says that the
\* output was truncated exactly when there was more.
KeptIsPrefix ==
    /\ kept = [j \in 1 .. (IF produced < maxOutput THEN produced ELSE maxOutput) |-> j]
    /\ cut <=> produced > maxOutput

\* The bytes a command writes reach the platform, and the result kept of it, in
\* their order and without gaps.
OutputInOrder == StreamInOrder /\ KeptIsPrefix
============================================================================
