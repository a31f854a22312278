---------------------------- MODULE SpeakerStore -----------------------------
(***************************************************************************)
(* SpeakerSessionStore (speaker/session_store.py): the speakers of each    *)
(* session, numbered in the order they were first heard.  An embedding is  *)
(* the voice it belongs to: two embeddings of one voice are as similar as  *)
(* the assignment threshold asks, two of different voices are not.         *)
(***************************************************************************)
EXTENDS AudioChunks, Sequences, SequencesExt

VARIABLES
    store,         \* _sessions: the next number and the profiles, by number
    exported,      \* the latest payload of export_session for each session
    forgotten      \* sessions of which a restore has dropped speakers

storeVars == <<store, exported, forgotten>>

\* The numbers of the speakers are the order they were first heard in.
SpeakerSession ==
    {sp \in [next: Nat \ {0}, profiles: Seq([voice: Voices, named: BOOLEAN])] :
        sp.next = Len(sp.profiles) + 1}

\* What setdefault, and export_session for an unknown session, start from
NoSpeakers == [next |-> 1, profiles |-> <<>>]

StoreInit ==
    /\ store = [s \in Sessions |-> NoSpeakers]
    /\ exported = [s \in Sessions |-> NoSpeakers]
    /\ forgotten = {}

\* The profile that is similar enough to a voice, 0 when there is none
SpeakerOf(speakers, voice) ==
    LET known == {k \in DOMAIN speakers.profiles : speakers.profiles[k].voice = voice}
    IN  IF known = {} THEN 0 ELSE CHOOSE k \in known : TRUE

\* assign: a voice that is not known becomes the speaker with the next number.
Assigned(speakers, voice) ==
    IF SpeakerOf(speakers, voice) # 0 THEN speakers
    ELSE [ next |-> speakers.next + 1,
           profiles |-> [k \in DOMAIN speakers.profiles \cup {speakers.next} |->
               IF k = speakers.next THEN [voice |-> voice, named |-> FALSE]
                                    ELSE speakers.profiles[k]] ]

\* An unknown session or speaker raises KeyError.
Rename(s, k) ==
    /\ k \in DOMAIN store[s].profiles
    /\ store' = [store EXCEPT ![s].profiles[k].named = TRUE]
    /\ UNCHANGED <<exported, forgotten>>

ExportSession(s) ==
    /\ exported' = [exported EXCEPT ![s] = store[s]]
    /\ UNCHANGED <<store, forgotten>>

\* Mutant of Payload: the counter is not restored.
PayloadUncounted(s) == [exported[s] EXCEPT !.next = 1]

Payload(s) == exported[s]

\* restore_session puts the payload in place of whatever the session has.
RestoreAll(ss) ==
    /\ store' = [s \in Sessions |-> IF s \in ss THEN Payload(s) ELSE store[s]]
    /\ forgotten' = forgotten \cup {s \in ss : store[s].next > exported[s].next}
    /\ UNCHANGED exported

=============================================================================
