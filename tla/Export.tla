-------------------------------- MODULE Export ---------------------------------
(***************************************************************************)
(* The times of the captions of a Talk, and the export of its streams       *)
(* (all_finals of src/conffy/bus.py), which is sorted by them: the clock of *)
(* a run goes on from the last caption of the run before it, if its look-up *)
(* finds one.                                                              *)
(*                                                                         *)
(* A translation has the times of what it translates.                      *)
(***************************************************************************)
EXTENDS Talk

CONSTANTS
    Pauses,    \* bound of the model: silences before an utterance
    Lengths    \* bound of the model: lengths of an utterance

ASSUME ExportAssumption == Pauses \subseteq Nat /\ Lengths \subseteq Nat \ {0}

VARIABLES
    offset,   \* time_offset_s
    heard,    \* end of the last utterance of the run, in its own time
    times     \* t0 and t1 of each number, as it was said last

export == <<talk, offset, heard, times>>

Span(start, end) == [t0 |-> start, t1 |-> end]

ExportInit == TalkInit /\ offset = 0 /\ heard = 0 /\ times = <<>>

\* Mutant of Resumed: where the last caption begins.
ResumedEarly == IF Found = 0 THEN 0 ELSE times[Found].t0

\* Where the caption ends that the run has found.
Resumed == IF Found = 0 THEN 0 ELSE times[Found].t1

\* A new run has a new segmenter, which counts from 0.
Restarts ==
    /\ StartRun \/ StartTool
    /\ offset' = Resumed /\ heard' = 0
    /\ UNCHANGED times

\* An utterance begins where the last one has ended, or later (Segmenter).
Utters ==
    /\ Speaks \/ SpeaksTwice
    /\ \E pause \in Pauses, length \in Lengths :
         /\ heard' = heard + pause + length
         /\ times' = [n \in DOMAIN times \cup {submitted + 1} |->
                IF n = submitted + 1
                THEN Span(offset + heard + pause, offset + heard + pause + length)
                ELSE times[n]]
    /\ UNCHANGED offset

Continues == Goes /\ UNCHANGED <<offset, heard, times>>

ExportNext == Restarts \/ Utters \/ Continues

ExportSpec == ExportInit /\ [][ExportNext]_export

-----------------------------------------------------------------------------
\* all_finals: each number once, as it was said last, in the order of (t0, seq).
Exported(s) == Seqs(Stream(s))
Before(m, n) == times[m].t0 < times[n].t0 \/ (times[m].t0 = times[n].t0 /\ m < n)

\* However often a talk is taken over, its export has the captions in the order
\* of their numbers, and no two subtitles at the same time: in every language, and
\* even where the stream itself is out of order or has a caption twice.  Only after
\* a lull, when a run has begun at 0 again, is this not so.
SubtitlesInOrder ==
    ~Lulled(source) => \A s \in Streams : \A m, n \in Exported(s) :
        m < n => Before(m, n) /\ times[m].t1 <= times[n].t0

=============================================================================
