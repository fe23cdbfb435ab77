----------------------------- MODULE ParseChunks -----------------------------
(***************************************************************************)
(* What parsing promises to the phases after it: the files of each chunk   *)
(* enter the graph once and in order, one chunk after the other, and all   *)
(* of them in the end.  The graph is a sequence because a later definition *)
(* of a name meets the earlier ones.                                       *)
(***************************************************************************)
EXTENDS Naturals, Sequences

CONSTANT Chunks   \* a sequence of sequences of files

VARIABLES graph, parsed

ParseInit == graph = <<>> /\ parsed = 0

ParseChunk ==
  /\ parsed < Len(Chunks)
  /\ graph' = graph \o Chunks[parsed + 1]
  /\ parsed' = parsed + 1

ParseSpec ==
  /\ ParseInit
  /\ [][ParseChunk]_<<graph, parsed>>
  /\ WF_<<graph, parsed>>(ParseChunk)
=============================================================================
