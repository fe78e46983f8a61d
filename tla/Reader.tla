-------------------------------- MODULE Reader --------------------------------
(***************************************************************************)
(* The reader task of a talk (_read() of src/conffy/worker/pipeline.py),    *)
(* with the generator it reads from (ffmpeg_pcm() of                       *)
(* src/conffy/worker/audio.py), the ffmpeg process behind that, and the     *)
(* segmenter it feeds.                                                     *)
(*                                                                         *)
(* Audio is counted in units, a fraction of a frame: chunks do not end     *)
(* where frames do.  Which frames are speech is chosen when they are fed.  *)
(***************************************************************************)
EXTENDS Segmenter

CONSTANTS
    FrameUnits,  \* FRAME_BYTES
    ChunkUnits   \* chunk_bytes

ASSUME ReaderAssumption ==
    FrameUnits \in Nat \ {0} /\ ChunkUnits \in Nat \ {0}

VARIABLES
    ffmpeg,      \* the process: "none", "running", "exited" (with 0), "failed",
                 \* "killed", or "blocked": its stderr pipe is full
    reader,      \* the reader task: the await it is suspended at, "framing"
                 \* while it runs, or how it was over
    abandoned,   \* the generator is suspended and nobody reads from it
    pending      \* len(pending), in units

task == <<ffmpeg, reader, abandoned, pending>>

Over == {"ended", "failed", "cancelled"}

ReaderInit ==
    /\ Init
    /\ ffmpeg = "none" /\ reader = "starting"
    /\ abandoned = FALSE /\ pending = 0

\* The process is there until it has exited or was killed.
Alive == ffmpeg \in {"running", "blocked"}

-----------------------------------------------------------------------------
(* ffmpeg.                                                                 *)

\* The source ends, or cannot be read (any more).
FfmpegExits ==
    /\ ffmpeg = "running"
    /\ ffmpeg' \in {"exited", "failed"}
    /\ UNCHANGED <<vars, reader, abandoned, pending>>

\* stderr is only read once stdout has ended: ffmpeg waits for ever with a full
\* pipe.
FfmpegBlocks ==
    /\ ffmpeg = "running"
    /\ ffmpeg' = "blocked"
    /\ UNCHANGED <<vars, reader, abandoned, pending>>

-----------------------------------------------------------------------------
(* The reader and its generator.                                           *)

Start ==
    /\ reader = "starting"
    /\ ffmpeg' = "running" /\ reader' = "reading"
    /\ UNCHANGED <<vars, abandoned, pending>>

\* A source that ffmpeg does not take, or no ffmpeg.
StartFails ==
    /\ reader = "starting"
    /\ reader' = "failed"
    /\ UNCHANGED <<vars, ffmpeg, abandoned, pending>>

\* stdout.read() returns what there is, up to a chunk; the pipe may still hold
\* audio when ffmpeg has exited.
ReadChunk(n) ==
    /\ reader = "reading"
    /\ FrameUnits * idx + pending + n <= FrameUnits * (MaxFrames + 1) - 1
    /\ pending' = pending + n
    /\ reader' = "framing"
    /\ UNCHANGED <<vars, ffmpeg, abandoned>>

\* Mutant of WholeFrame: the last frame of a chunk waits for the next chunk.
WholeFrameBehind == pending > FrameUnits

WholeFrame == pending >= FrameUnits

Feed ==
    /\ reader = "framing" /\ WholeFrame
    /\ pending' = pending - FrameUnits
    /\ Onset \/ \E p \in FrameClass : IdleFrame(p) \/ ExtendFrame(p) \/ CutFrame(p)
    /\ UNCHANGED <<ffmpeg, reader, abandoned>>

\* await asyncio.sleep(0): the generator is suspended at its yield.
Sleep ==
    /\ reader = "framing" /\ ~WholeFrame
    /\ reader' = "between"
    /\ UNCHANGED <<vars, ffmpeg, abandoned, pending>>

Resume ==
    /\ reader = "between"
    /\ reader' = "reading"
    /\ UNCHANGED <<vars, ffmpeg, abandoned, pending>>

\* Mutant of StdoutEnds: the empty chunk is a chunk.
StdoutEndsUnseen ==
    /\ reader = "reading" /\ ffmpeg \in {"exited", "failed"}
    /\ reader' = "framing"
    /\ UNCHANGED <<vars, ffmpeg, abandoned, pending>>

\* An empty read.
StdoutEnds ==
    /\ reader = "reading" /\ ffmpeg \in {"exited", "failed"}
    /\ reader' = "waiting"
    /\ UNCHANGED <<vars, ffmpeg, abandoned, pending>>

\* The process has returned 0.
Succeeded == ffmpeg = "exited"

\* What is left of a frame is dropped, the utterance in progress is flushed.
ReadEnds ==
    /\ reader = "waiting" /\ Succeeded
    /\ reader' = "ended"
    /\ FlushActive \/ FlushIdle
    /\ UNCHANGED <<ffmpeg, abandoned, pending>>

\* AudioSourceError: the utterance in progress is not flushed.
ReadFails ==
    /\ reader = "waiting" /\ ~Succeeded
    /\ reader' = "failed"
    /\ UNCHANGED <<vars, ffmpeg, abandoned, pending>>

-----------------------------------------------------------------------------
(* Cancellation, when the ASR loop or the talk is over.                    *)

\* Mutant of AfterCancel: the generator has no finally.
AfterCancelNothing == ffmpeg

\* The finally of the generator kills a process that is still there.
AfterCancel == IF Alive THEN "killed" ELSE ffmpeg

\* At an await in the generator: its finally runs, and waits for the process.
CancelInGenerator ==
    /\ reader \in {"reading", "waiting"}
    /\ ffmpeg' = AfterCancel
    /\ reader' = IF Alive THEN "closing" ELSE "cancelled"
    /\ UNCHANGED <<vars, abandoned, pending>>

Closed ==
    /\ reader = "closing"
    /\ reader' = "cancelled"
    /\ UNCHANGED <<vars, ffmpeg, abandoned, pending>>

CancelAtStart ==
    /\ reader = "starting"
    /\ reader' = "cancelled"
    /\ UNCHANGED <<vars, ffmpeg, abandoned, pending>>

\* At the sleep of the reader the generator is suspended, and stays so.
CancelBetween ==
    /\ reader = "between"
    /\ reader' = "cancelled" /\ abandoned' = TRUE
    /\ UNCHANGED <<vars, ffmpeg, pending>>

\* The event loop closes a generator that nothing refers to: its finally runs.
Collect ==
    /\ abandoned
    /\ ffmpeg' = AfterCancel /\ abandoned' = FALSE
    /\ UNCHANGED <<vars, reader, pending>>

-----------------------------------------------------------------------------
ReaderStep ==
    \/ Start \/ StartFails
    \/ \E n \in 1..ChunkUnits : ReadChunk(n)
    \/ Feed \/ Sleep \/ Resume
    \/ StdoutEnds \/ ReadEnds \/ ReadFails
    \/ Closed \/ Collect

Cancel == CancelInGenerator \/ CancelAtStart \/ CancelBetween

ReaderNext == FfmpegExits \/ FfmpegBlocks \/ ReaderStep \/ Cancel

ReaderSpec == ReaderInit /\ [][ReaderNext]_<<vars, task>>

\* The event loop runs whoever can run.  ffmpeg need not end, nor a talk be
\* cancelled.
FairReaderSpec == ReaderSpec /\ WF_<<vars, task>>(ReaderStep)

-----------------------------------------------------------------------------
\* A talk is over for the reader only if its source has come to a regular end
\* and all of its audio was fed and flushed: no cancellation, failure of the
\* process or split of a frame over two chunks passes for an end.
EndIsComplete ==
    reader = "ended" => ffmpeg = "exited" /\ pending < FrameUnits /\ mode = "ended"

\* ffmpeg does not outlive its reader for ever, wherever the reader was
\* cancelled, and also if it was blocked: nobody else would end it.
NoOrphan == reader \in Over ~> ~Alive

\* The end of the source, regular or not, gets to the reader.
SourceEnds == ffmpeg \in {"exited", "failed"} ~> reader \in Over

=============================================================================
