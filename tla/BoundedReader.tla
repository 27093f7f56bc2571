---------------------------- MODULE BoundedReader ---------------------------
(***************************************************************************)
(* _read_bounded: the reader of a managed process's output                 *)
(* (src/codex_dispatch/managed_runner.py).  The stream comes in chunks of  *)
(* any size; the reader takes all of it, so that the process never blocks, *)
(* keeps the first Limit bytes and says whether there were more.           *)
(***************************************************************************)
EXTENDS Integers, Sequences, FiniteSetsExt

CONSTANTS
    Byte,       \* what a stream is made of
    OutputMax,  \* output_max_bytes
    Chunk,      \* _READ_CHUNK: the most one read returns
    MaxOutput   \* bound: length of the stream

ASSUME ReaderAssumption == OutputMax \in Nat /\ Chunk \in Nat \ {0} /\ MaxOutput \in Nat

VARIABLES
    stream,    \* what the process has written so far, all of it read
    captured,  \* what the reader keeps
    truncated,
    done       \* the end of the stream was read

readerVars == <<stream, captured, truncated, done>>

Chunks == UNION {[1..n -> Byte] : n \in 1..Chunk}

ReaderTypeOK == /\ stream \in Seq(Byte) /\ captured \in Seq(Byte)
                /\ truncated \in BOOLEAN /\ done \in BOOLEAN

ReaderInit == stream = <<>> /\ captured = <<>> /\ truncated = FALSE /\ done = FALSE

Remaining == OutputMax - Len(captured)

Overflows(c) == Len(c) > Max({Remaining, 0}) \/ Remaining <= 0

Keep(c) == IF Remaining > 0 THEN captured \o SubSeq(c, 1, Min({Remaining, Len(c)}))
           ELSE captured

Read(c) == /\ ~done /\ Len(stream) + Len(c) <= MaxOutput
           /\ stream' = stream \o c
           /\ captured' = Keep(c)
           /\ truncated' = (truncated \/ Overflows(c))
           /\ UNCHANGED done

EndOfStream == ~done /\ done' = TRUE /\ UNCHANGED <<stream, captured, truncated>>

Finished == done /\ UNCHANGED readerVars

ReaderNext == (\E c \in Chunks : Read(c)) \/ EndOfStream \/ Finished

ReaderSpec == ReaderInit /\ [][ReaderNext]_readerVars

-----------------------------------------------------------------------------
(* Properties.                                                              *)

\* The reader keeps the beginning of the output, up to the limit, however the
\* output was cut into chunks.
KeepsTheBeginning == captured = SubSeq(stream, 1, Min({OutputMax, Len(stream)}))

\* It says "truncated" exactly if something was left out; an output that ends at
\* the limit is complete.
TruncatedIffCut == truncated <=> Len(stream) > OutputMax
=============================================================================
