----------------------------- MODULE AudioChunks -----------------------------
(***************************************************************************)
(* AudioChunk (event_schema.py): what a client sends of one session's      *)
(* audio.  The samples are the voice they are of, the span of the chunk is *)
(* its length in milliseconds; silence is filtered before anything else.   *)
(***************************************************************************)
EXTENDS Integers

CONSTANTS
    Sessions,      \* session ids: numbers, in the order of the names
    Voices,
    Chunks         \* the chunks clients may send

NoDeadline == -1   \* deadline_ms is None

AudioChunk ==
    [ session: Sessions, id: STRING, voice: Voices,
      length: Nat \ {0}, due: Nat \cup {NoDeadline} ]

ASSUME ChunkAssumption == Sessions \subseteq Nat /\ Chunks \subseteq AudioChunk

=============================================================================
