------------------------------ MODULE MCSpeaker ------------------------------
(***************************************************************************)
(* Two sessions and two voices.  The sessions use one chunk id for         *)
(* different voices, session 1 has a chunk with a deadline and one         *)
(* without, and session 2 a chunk for another bucket.                      *)
(***************************************************************************)
EXTENDS SpeakerService

CONSTANTS ann, ben

Chunk(s, id, voice, length, due) ==
    [session |-> s, id |-> id, voice |-> voice, length |-> length, due |-> due]

MCChunks ==
    { Chunk(1, "x", ann, 500, NoDeadline),
      Chunk(1, "y", ben, 500, 1),
      Chunk(2, "x", ben, 500, NoDeadline),
      Chunk(2, "z", ben, 4000, 0) }

MCWorkerLists == { <<TRUE, FALSE>> }
=============================================================================
