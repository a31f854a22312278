---------------------------- MODULE MCTranscript ----------------------------
(***************************************************************************)
(* Transcript for TLC.                                                     *)
(***************************************************************************)
EXTENDS Transcript

MCSeparator == 0

\* Two texts that share a prefix, one that extends the first, one unrelated.
MCTexts == {<<1>>, <<1, 2>>, <<1, 2, 3>>, <<1, 3>>, <<2>>}

=============================================================================
