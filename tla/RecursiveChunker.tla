--------------------------- MODULE RecursiveChunker ---------------------------
(***************************************************************************)
(* pkg/ai/rag/chunker_recursive.go: Chunk cuts a document into windows of  *)
(* ChunkSize runes, each Overlap runes over the one before, and may be     *)
(* cancelled before any of them.  A document is its length in runes; a     *)
(* chunk is the half-open window [from, to) its content is cut from, its   *)
(* index is the number in its ID.                                          *)
(***************************************************************************)
EXTENDS Integers, Sequences

CONSTANTS
  Lengths,           \* lengths of documents
  Sizes, Overlaps    \* RecursiveChunkerConfig, invalid values included

ASSUME ChunkerAssumption ==
  /\ Lengths \subseteq Nat
  /\ Sizes \subseteq Int
  /\ Overlaps \subseteq Int

VARIABLES
  document,    \* [length, blank]: blank is a content of white space only
  config,      \* c.config
  cuts,        \* chunks
  start,       \* start of the next window
  chunking     \* "called", "cutting", or how Chunk ended

chunkerVars == <<document, config, cuts, start, chunking>>

ChunkerInit ==
  /\ document \in {d \in [length : Lengths, blank : BOOLEAN] :
                     d.length = 0 => d.blank}
  /\ config \in [size : Sizes, overlap : Overlaps]
  /\ cuts = <<>>
  /\ start = 0
  /\ chunking = "called"

\* validateRecursiveConfig
ValidConfig == config.size > 0 /\ 0 <= config.overlap /\ config.overlap < config.size

\* Mutant: windows are a whole chunk apart.
StepOfSize == config.size

Step == config.size - config.overlap

-------------------------------------------------------------------------------

\* An error drops the chunks cut so far.
Ends(how, result) ==
  /\ chunking' = how
  /\ cuts' = result
  /\ UNCHANGED <<document, config, start>>

RejectsConfig ==
  /\ chunking = "called"
  /\ ~ValidConfig
  /\ Ends("invalid", <<>>)

SkipsBlank ==
  /\ chunking = "called"
  /\ ValidConfig
  /\ document.blank
  /\ Ends("done", <<>>)

StartsCutting ==
  /\ chunking = "called"
  /\ ValidConfig
  /\ ~document.blank
  /\ Ends("cutting", <<>>)

\* Mutant: the last window is not shortened but left out.
WindowEndWhole == IF start + config.size > document.length THEN start
                  ELSE start + config.size

WindowEnd == IF start + config.size > document.length THEN document.length
             ELSE start + config.size

Cuts ==
  /\ chunking = "cutting"
  /\ start < document.length
  /\ cuts' = Append(cuts, [from |-> start, to |-> WindowEnd])
  /\ start' = start + Step
  /\ UNCHANGED <<document, config, chunking>>

FinishesCutting ==
  /\ chunking = "cutting"
  /\ start >= document.length
  /\ Ends("done", cuts)

\* Mutant: what was cut before the context ended is returned.
KeptOnCancel == cuts

KeptOnError == <<>>

\* The context is looked at on entry and before every window.
ChunkingCancelled ==
  /\ \/ chunking = "called"
     \/ chunking = "cutting" /\ start < document.length
  /\ Ends("cancelled", KeptOnError)

ChunkerNext ==
  \/ RejectsConfig
  \/ SkipsBlank
  \/ StartsCutting
  \/ Cuts
  \/ FinishesCutting
  \/ ChunkingCancelled

ChunkerSpec == ChunkerInit /\ [][ChunkerNext]_chunkerVars

-------------------------------------------------------------------------------
(* Properties. *)

Window == [from : Nat, to : Nat]

\* Types; every window is one of the document, as long as a chunk at most, and
\* not empty; the next one starts a step after the last.
ChunkerTypeOK ==
  /\ document \in [length : Lengths, blank : BOOLEAN]
  /\ config \in [size : Sizes, overlap : Overlaps]
  /\ cuts \in Seq(Window)
  /\ start \in Nat
  /\ chunking \in {"called", "cutting", "done", "invalid", "cancelled"}
  /\ cuts # <<>> => ValidConfig
  /\ \A i \in 1 .. Len(cuts) :
       /\ cuts[i].from < cuts[i].to
       /\ cuts[i].to <= document.length
       /\ cuts[i].to - cuts[i].from <= config.size

\* No rune of a document is lost between two windows or at its end, whatever
\* the sizes, and neighbours share exactly Overlap runes, fewer only if the
\* first of them has already reached the end of the document.
ChunksCoverText ==
  chunking = "done" /\ ~document.blank =>
    /\ cuts[1].from = 0
    /\ cuts[Len(cuts)].to = document.length
    /\ \A i \in 1 .. Len(cuts) - 1 :
         LET shared == cuts[i].to - cuts[i + 1].from IN
         \/ shared = config.overlap
         \/ shared < config.overlap /\ cuts[i].to = document.length

\* A call that fails has no chunks; in particular, one cancelled half-way
\* never passes for a short document.
ChunksAllOrNothing ==
  chunking \in {"cancelled", "invalid"} => cuts = <<>>

\* stableChunkID, chunker_recursive.go:39: where a window lies follows from its
\* number and the configuration alone, so the same document is cut alike.
ChunksDeterministic ==
  \A i \in 1 .. Len(cuts) : cuts[i].from = (i - 1) * (config.size - config.overlap)

\* What the chunker promises: the whole document in windows that its length and
\* the configuration determine, or nothing.
ChunksWhole ==
  ChunkerTypeOK /\ ChunksCoverText /\ ChunksAllOrNothing /\ ChunksDeterministic
===============================================================================
