---------------------------- MODULE BridgeProofs -----------------------------
(***************************************************************************)
(* Theorems about modules Bridge and InputStream, for every bound, any ids *)
(* and any limit of a session's queue.  They all rest on StreamMoves:      *)
(* whatever a step is, it makes one of nine moves with each stream.        *)
(***************************************************************************)
EXTENDS Bridge, SequenceTheorems, TLAPS

-----------------------------------------------------------------------------
(***************************************************************************)
(* One stream                                                              *)
(***************************************************************************)

LEMMA Constants == MaxPending \in Nat \ {0} /\ MaxUpdates \in Nat /\ MaxStreams \in Nat
BY StreamAssumption, BridgeAssumption

LEMMA StreamFields ==
    ASSUME NEW s \in Stream
    PROVE  /\ s.queue \in Seq(Items) /\ s.limit \in Nat \ {0} /\ s.closed \in BOOLEAN
           /\ s.waiting \in Seq(Items) /\ s.woken \in Seq(Items)
           /\ s.direct \in SUBSET Updates /\ s.delivered \in Seq(Updates)
           /\ s.ended \in BOOLEAN
           /\ Len(s.queue) \in Nat
BY DEF Stream

LEMMA NewStreamType ==
    ASSUME NEW limit \in Nat \ {0}
    PROVE  /\ NewStream(limit) \in Stream
           /\ Len(NewStream(limit).queue) = 0 /\ NewStream(limit).limit = limit
BY DEF NewStream, Stream

LEMMA WithUpdateType ==
    ASSUME NEW s \in Stream, NEW u \in Updates
    PROVE  /\ WithUpdate(s, u) \in Stream
           /\ WithUpdate(s, u) = [s EXCEPT !.queue = Append(s.queue, u), !.direct = s.direct \cup {u}]
           /\ Len(WithUpdate(s, u).queue) = Len(s.queue) + 1
<1>1. Append(s.queue, u) \in Seq(Items) /\ Len(Append(s.queue, u)) = Len(s.queue) + 1
  BY StreamFields, AppendProperties DEF Items
<1>2. s.direct \cup {u} \in SUBSET Updates
  BY StreamFields
<1>3. WithUpdate(s, u) = [s EXCEPT !.queue = Append(s.queue, u), !.direct = s.direct \cup {u}]
  BY DEF WithUpdate, Enqueue
<1> QED
  BY <1>1, <1>2, <1>3 DEF Stream

-----------------------------------------------------------------------------
(***************************************************************************)
(* The moves of one stream                                                 *)
(***************************************************************************)

Rests(i) == streams'[i] = streams[i]

Publishes(i) ==
    /\ ~streams[i].closed
    /\ published' = published + 1
    /\ streams'[i] = [streams[i] EXCEPT !.queue = Append(@, published + 1),
                                        !.direct = @ \cup {published + 1}]

PutWaits(i) ==
    /\ ~streams[i].closed
    /\ published' = published + 1
    /\ streams'[i] = [streams[i] EXCEPT !.waiting = Append(@, published + 1)]

ClosesWithMarker(i) ==
    streams'[i] = [streams[i] EXCEPT !.closed = TRUE, !.queue = Append(@, Marker)]

ClosesWithout(i) ==
    streams'[i] = [streams[i] EXCEPT !.closed = TRUE]

MarkerWaits(i) ==
    streams'[i] = [streams[i] EXCEPT !.closed = TRUE, !.waiting = Append(@, Marker)]

PutResumes(i) ==
    /\ streams[i].woken # <<>>
    /\ \/ streams'[i] = [streams[i] EXCEPT !.woken = Tail(@), !.queue = Append(@, Head(streams[i].woken))]
       \/ streams'[i] = [streams[i] EXCEPT !.woken = Tail(@), !.waiting = Append(@, Head(streams[i].woken))]

\* A slot is freed: the oldest waiting put, if any, is woken.
Wakes(i) ==
    \/ /\ streams[i].waiting = <<>>
       /\ streams'[i].waiting = <<>> /\ streams'[i].woken = streams[i].woken
    \/ /\ streams[i].waiting # <<>>
       /\ streams'[i].waiting = Tail(streams[i].waiting)
       /\ streams'[i].woken = Append(streams[i].woken, Head(streams[i].waiting))

Reads(i) ==
    /\ streams[i].queue # <<>>
    /\ streams'[i].queue = Tail(streams[i].queue)
    /\ Wakes(i)
    /\ streams'[i].closed = streams[i].closed
    /\ streams'[i].direct = streams[i].direct

Delivers(i) ==
    /\ Reads(i)
    /\ Head(streams[i].queue) # Marker
    /\ streams'[i].delivered = Append(streams[i].delivered, Head(streams[i].queue))

Ends(i) ==
    /\ Reads(i)
    /\ Head(streams[i].queue) = Marker
    /\ streams'[i].delivered = streams[i].delivered

Moves(i) ==
    \/ Rests(i)
    \/ Publishes(i) \/ PutWaits(i) \/ PutResumes(i)
    \/ ClosesWithMarker(i) \/ ClosesWithout(i) \/ MarkerWaits(i)
    \/ Delivers(i) \/ Ends(i)

\* A stream keeps its type and its limit, and makes one of the moves.
Moved(i) ==
    /\ streams'[i] \in Stream
    /\ Len(streams'[i].queue) <= streams'[i].limit
    /\ streams'[i].limit = streams[i].limit
    /\ Moves(i)

\* Only the stream k changes.
OnlyStream(k) ==
    /\ k \in DOMAIN streams
    /\ streams' = [streams EXCEPT ![k] = streams'[k]]
    /\ Len(streams') = Len(streams) /\ DOMAIN streams' = DOMAIN streams
    /\ \A i \in DOMAIN streams : i # k => streams'[i] = streams[i]
    /\ published' = published \/ (published < MaxUpdates /\ published' = published + 1)

LEMMA RestsMoved ==
    ASSUME StreamTypeOK, NEW i \in DOMAIN streams, streams'[i] = streams[i]
    PROVE  Moved(i)
<1>1. streams[i] \in Stream /\ Len(streams[i].queue) <= streams[i].limit
  BY ElementOfSeq DEF StreamTypeOK
<1> QED
  BY <1>1 DEF Moved, Moves, Rests

LEMMA HolderMoves ==
    ASSUME StreamTypeOK, NEW k \in DOMAIN streams, Holder(k) \/ Resume(k) \/ Take(k)
    PROVE  OnlyStream(k) /\ Moved(k)
<1> DEFINE s == streams[k]
<1>1. /\ streams \in Seq(Stream) /\ Len(streams) \in Nat /\ DOMAIN streams = 1 .. Len(streams)
      /\ s \in Stream /\ Len(s.queue) <= s.limit
      /\ published \in Nat /\ published <= MaxUpdates
  BY ElementOfSeq, Constants DEF StreamTypeOK
<1>2. /\ s.queue \in Seq(Items) /\ s.limit \in Nat \ {0} /\ s.closed \in BOOLEAN
      /\ s.waiting \in Seq(Items) /\ s.woken \in Seq(Items)
      /\ s.direct \in SUBSET Updates /\ s.delivered \in Seq(Updates)
      /\ Len(s.queue) \in Nat
  BY <1>1, StreamFields
<1>3. Marker \in Items /\ Updates \subseteq Items
  BY DEF Items
<1>4. ~Full(s) => Len(s.queue) + 1 <= s.limit
  BY <1>1, <1>2 DEF Full
<1>5. ASSUME NEW w, streams' = [streams EXCEPT ![k] = w]
      PROVE  /\ streams' = [streams EXCEPT ![k] = streams'[k]]
             /\ Len(streams') = Len(streams) /\ DOMAIN streams' = DOMAIN streams
             /\ \A i \in DOMAIN streams : i # k => streams'[i] = streams[i]
             /\ streams'[k] = w
  BY <1>1, <1>5
<1>6. CASE PublishAtOnce(k)
  <2>1. published < MaxUpdates /\ ~s.closed /\ ~Full(s)
        /\ streams' = [streams EXCEPT ![k] = WithUpdate(s, published + 1)]
        /\ published' = published + 1
    BY <1>6 DEF PublishAtOnce, Publishing
  <2>2. published + 1 \in Updates
    BY <1>1, <2>1, Constants DEF Updates
  <2>3. streams'[k] = WithUpdate(s, published + 1)
    BY <1>5, <2>1
  <2>4. /\ WithUpdate(s, published + 1) \in Stream
        /\ WithUpdate(s, published + 1) =
              [s EXCEPT !.queue = Append(s.queue, published + 1), !.direct = s.direct \cup {published + 1}]
        /\ Len(WithUpdate(s, published + 1).queue) = Len(s.queue) + 1
    BY <1>1, <2>2, WithUpdateType
  <2>5. WithUpdate(s, published + 1).limit = s.limit
    BY <1>1, <2>4 DEF Stream
  <2>6. Publishes(k)
    BY <2>1, <2>3, <2>4 DEF Publishes
  <2>7. OnlyStream(k)
    BY <1>5, <2>1 DEF OnlyStream
  <2> QED
    BY <1>4, <2>1, <2>3, <2>4, <2>5, <2>6, <2>7 DEF Moved, Moves
<1>7. CASE PublishWaits(k)
  <2>1. /\ published < MaxUpdates /\ ~s.closed
        /\ streams' = [streams EXCEPT ![k] = [s EXCEPT !.waiting = Append(@, published + 1)]]
        /\ published' = published + 1
    BY <1>7 DEF PublishWaits, Publishing
  <2>2. published + 1 \in Items
    BY <1>1, <2>1, Constants DEF Updates, Items
  <2>3. streams'[k] = [s EXCEPT !.waiting = Append(@, published + 1)]
    BY <1>5, <2>1
  <2>4. streams'[k] \in Stream /\ streams'[k].queue = s.queue /\ streams'[k].limit = s.limit
    <3>1. Append(s.waiting, published + 1) \in Seq(Items)
      BY <1>2, <2>2, AppendProperties
    <3> QED
      BY <1>1, <2>3, <3>1 DEF Stream
  <2>5. PutWaits(k) /\ OnlyStream(k)
    BY <1>5, <2>1, <2>3 DEF PutWaits, OnlyStream
  <2> QED
    BY <1>1, <2>4, <2>5 DEF Moved, Moves
<1>8. CASE CloseNowait(k)
  <2>1. streams' = [streams EXCEPT ![k] = Closed(s)] /\ published' = published /\ ~s.closed
    BY <1>8 DEF CloseNowait
  <2>2. OnlyStream(k) /\ streams'[k] = Closed(s)
    BY <1>5, <2>1 DEF OnlyStream
  <2>3. CASE Full(s)
    <3>1. streams'[k] = [s EXCEPT !.closed = TRUE]
      BY <1>1, <2>1, <2>2, <2>3 DEF Closed, Stream
    <3>2. streams'[k] \in Stream /\ streams'[k].queue = s.queue /\ streams'[k].limit = s.limit
      BY <1>1, <3>1 DEF Stream
    <3> QED
      BY <1>1, <2>2, <3>1, <3>2 DEF Moved, Moves, ClosesWithout
  <2>4. CASE ~Full(s)
    <3>1. streams'[k] = [s EXCEPT !.closed = TRUE, !.queue = Append(@, Marker)]
      BY <1>1, <2>1, <2>2, <2>4 DEF Closed, Enqueue
    <3>2. Append(s.queue, Marker) \in Seq(Items) /\ Len(Append(s.queue, Marker)) = Len(s.queue) + 1
      BY <1>2, <1>3, AppendProperties
    <3>3. /\ streams'[k] \in Stream /\ streams'[k].queue = Append(s.queue, Marker)
          /\ streams'[k].limit = s.limit
      BY <1>1, <3>1, <3>2 DEF Stream
    <3> QED
      BY <1>4, <2>2, <2>4, <3>1, <3>2, <3>3 DEF Moved, Moves, ClosesWithMarker
  <2> QED
    BY <2>3, <2>4
<1>9. CASE CloseWaits(k)
  <2>1. /\ streams' = [streams EXCEPT ![k] = [s EXCEPT !.closed = TRUE, !.waiting = Append(@, Marker)]]
        /\ published' = published
    BY <1>1, <1>9 DEF CloseWaits, Stream
  <2>2. streams'[k] = [s EXCEPT !.closed = TRUE, !.waiting = Append(@, Marker)] /\ OnlyStream(k)
    BY <1>5, <2>1 DEF OnlyStream
  <2>3. streams'[k] \in Stream /\ streams'[k].queue = s.queue /\ streams'[k].limit = s.limit
    <3>1. Append(s.waiting, Marker) \in Seq(Items)
      BY <1>2, <1>3, AppendProperties
    <3> QED
      BY <1>1, <2>2, <3>1 DEF Stream
  <2> QED
    BY <1>1, <2>2, <2>3 DEF Moved, Moves, MarkerWaits
<1>10. CASE Resume(k)
  <2>1. /\ s.woken # <<>> /\ published' = published
        /\ \/ /\ Full(s)
              /\ streams' = [streams EXCEPT ![k] =
                   [s EXCEPT !.woken = Tail(@), !.waiting = Append(@, Head(s.woken))]]
           \/ /\ ~Full(s)
              /\ streams' = [streams EXCEPT ![k] =
                   [s EXCEPT !.woken = Tail(@), !.queue = Append(@, Head(s.woken))]]
    BY <1>1, <1>10 DEF Resume, Enqueue, Stream
  <2>2. Head(s.woken) \in Items /\ Tail(s.woken) \in Seq(Items)
    BY <1>2, <2>1, HeadTailProperties
  <2>3. OnlyStream(k) /\ PutResumes(k)
    BY <1>5, <2>1 DEF OnlyStream, PutResumes
  <2>4. CASE Full(s)
    <3>1. streams'[k] = [s EXCEPT !.woken = Tail(@), !.waiting = Append(@, Head(s.woken))]
      BY <1>5, <2>1, <2>4
    <3>2. Append(s.waiting, Head(s.woken)) \in Seq(Items)
      BY <1>2, <2>2, AppendProperties
    <3>3. streams'[k] \in Stream /\ streams'[k].queue = s.queue /\ streams'[k].limit = s.limit
      BY <1>1, <2>2, <3>1, <3>2 DEF Stream
    <3> QED
      BY <1>1, <2>3, <3>3 DEF Moved, Moves
  <2>5. CASE ~Full(s)
    <3>1. streams'[k] = [s EXCEPT !.woken = Tail(@), !.queue = Append(@, Head(s.woken))]
      BY <1>5, <2>1, <2>5
    <3>2. /\ Append(s.queue, Head(s.woken)) \in Seq(Items)
          /\ Len(Append(s.queue, Head(s.woken))) = Len(s.queue) + 1
      BY <1>2, <2>2, AppendProperties
    <3>3. /\ streams'[k] \in Stream /\ streams'[k].queue = Append(s.queue, Head(s.woken))
          /\ streams'[k].limit = s.limit
      BY <1>1, <1>2, <2>2, <3>1, <3>2 DEF Stream
    <3> QED
      BY <1>4, <2>3, <2>5, <3>2, <3>3 DEF Moved, Moves
  <2> QED
    BY <2>4, <2>5
<1>11. CASE Take(k)
  <2> DEFINE head == Head(s.queue)
             w == IF head = Marker THEN [Taken(s) EXCEPT !.ended = TRUE]
                                   ELSE [Taken(s) EXCEPT !.delivered = Append(@, head)]
  <2>1. /\ s.queue # <<>> /\ published' = published
        /\ streams' = [streams EXCEPT ![k] = w]
    BY <1>1, <1>11 DEF Take, Taken, Stream
  <2>2. /\ Head(s.queue) \in Items /\ Tail(s.queue) \in Seq(Items)
        /\ Len(Tail(s.queue)) = Len(s.queue) - 1
        /\ s.waiting # <<>> => Head(s.waiting) \in Items /\ Tail(s.waiting) \in Seq(Items)
    BY <1>2, <2>1, HeadTailProperties
  <2>3. Head(s.queue) # Marker => Head(s.queue) \in Updates
    BY <2>2 DEF Items
  <2>4. OnlyStream(k) /\ streams'[k] = w
    BY <1>5, <2>1 DEF OnlyStream
  <2>5. /\ Taken(s) \in Stream
        /\ Taken(s).queue = Tail(s.queue)
        /\ Taken(s).limit = s.limit /\ Taken(s).closed = s.closed
        /\ Taken(s).direct = s.direct /\ Taken(s).delivered = s.delivered
        /\ Taken(s).waiting = IF s.waiting = <<>> THEN s.waiting ELSE Tail(s.waiting)
        /\ Taken(s).woken = IF s.waiting = <<>> THEN s.woken ELSE Append(s.woken, Head(s.waiting))
    <3>1. CASE s.waiting = <<>>
      <4>1. Taken(s) = [s EXCEPT !.queue = Tail(s.queue)]
        BY <1>1, <3>1 DEF Taken, Stream
      <4> QED
        BY <1>1, <2>2, <3>1, <4>1 DEF Stream
    <3>2. CASE s.waiting # <<>>
      <4>1. Taken(s) = [s EXCEPT !.queue = Tail(s.queue), !.waiting = Tail(s.waiting),
                                 !.woken = Append(s.woken, Head(s.waiting))]
        BY <1>1, <3>2 DEF Taken, Stream
      <4>2. Append(s.woken, Head(s.waiting)) \in Seq(Items)
        BY <1>2, <2>2, <3>2, AppendProperties
      <4> QED
        BY <1>1, <2>2, <3>2, <4>1, <4>2 DEF Stream
    <3> QED
      BY <3>1, <3>2
  <2> HIDE DEF s
  <2>6. /\ w \in Stream
        /\ w.queue = Tail(s.queue) /\ w.limit = s.limit /\ w.closed = s.closed
        /\ w.direct = s.direct
        /\ w.waiting = Taken(s).waiting /\ w.woken = Taken(s).woken
        /\ w.delivered = IF head = Marker THEN s.delivered ELSE Append(s.delivered, head)
    <3>1. CASE head = Marker
      BY <2>5, <3>1 DEF Stream
    <3>2. CASE head # Marker
      <4>1. Append(s.delivered, head) \in Seq(Updates)
        BY <1>2, <2>3, <3>2, AppendProperties
      <4> QED
        BY <2>5, <3>2, <4>1 DEF Stream
    <3> QED
      BY <3>1, <3>2
  <2> HIDE DEF w
  <2>7. Delivers(k) \/ Ends(k)
    BY <2>1, <2>4, <2>5, <2>6 DEF s, Delivers, Ends, Reads, Wakes
  <2>8. Len(w.queue) <= w.limit
    BY <1>1, <1>2, <2>2, <2>6
  <2> QED
    BY <2>4, <2>6, <2>7, <2>8 DEF s, Moved, Moves
<1> QED
  BY <1>6, <1>7, <1>8, <1>9, <1>10, <1>11 DEF Holder

-----------------------------------------------------------------------------
(***************************************************************************)
(* What a move does to the items of a stream                               *)
(***************************************************************************)

LEMMA AppendRange ==
    ASSUME NEW S, NEW q \in Seq(S), NEW x \in S
    PROVE  Range(Append(q, x)) = Range(q) \cup {x}
<1>1. /\ Append(q, x) \in Seq(S) /\ Len(Append(q, x)) = Len(q) + 1 /\ Len(q) \in Nat
      /\ \A i \in 1 .. Len(q) : Append(q, x)[i] = q[i]
      /\ Append(q, x)[Len(q) + 1] = x
  BY AppendProperties, LenProperties
<1>2. /\ Range(q) = {q[i] : i \in 1 .. Len(q)}
      /\ Range(Append(q, x)) = {Append(q, x)[i] : i \in 1 .. Len(q) + 1}
  BY <1>1, RangeEquality
<1>3. 1 .. Len(q) + 1 = (1 .. Len(q)) \cup {Len(q) + 1}
  BY <1>1
<1> QED
  BY <1>1, <1>2, <1>3

LEMMA TailRange ==
    ASSUME NEW S, NEW q \in Seq(S), q # <<>>
    PROVE  /\ Range(Tail(q)) \subseteq Range(q) /\ Head(q) \in Range(q)
           /\ Range(q) = {Head(q)} \cup Range(Tail(q))
<1>1. /\ Tail(q) \in Seq(S) /\ Len(Tail(q)) = Len(q) - 1
      /\ \A i \in 1 .. Len(Tail(q)) : Tail(q)[i] = q[i + 1]
      /\ Len(q) \in Nat \ {0} /\ Head(q) = q[1]
  BY HeadTailProperties, EmptySeq
<1>2. /\ Range(q) = {q[i] : i \in 1 .. Len(q)}
      /\ Range(Tail(q)) = {Tail(q)[i] : i \in 1 .. Len(q) - 1}
  BY <1>1, RangeEquality
<1>3. ASSUME NEW i \in 1 .. Len(q) PROVE q[i] \in {Head(q)} \cup Range(Tail(q))
  <2>1. CASE i = 1
    BY <1>1, <2>1
  <2>2. CASE i # 1
    <3>1. i - 1 \in 1 .. Len(q) - 1 /\ Tail(q)[i - 1] = q[i]
      BY <1>1, <2>2
    <3> QED
      BY <1>2, <3>1
  <2> QED
    BY <2>1, <2>2
<1>4. ASSUME NEW i \in 1 .. Len(q) - 1 PROVE Tail(q)[i] \in Range(q)
  BY <1>1, <1>2
<1> QED
  BY <1>1, <1>2, <1>3, <1>4

\* The items a stream has accepted and not lost
Held(s) == Range(s.delivered) \cup Range(s.queue) \cup Range(s.woken) \cup Range(s.waiting)

\* What the engine has read or will read next, in order
Passed(s) == s.delivered \o s.queue

LEMMA AcceptedIsHeld ==
    ASSUME NEW i \in DOMAIN streams, streams[i] \in Stream
    PROVE  Accepted(i) = Held(streams[i]) \ {Marker}
<1> DEFINE s == streams[i]
<1>1. /\ s.queue \in Seq(Items) /\ s.waiting \in Seq(Items) /\ s.woken \in Seq(Items)
      /\ s.delivered \in Seq(Items)
  BY StreamFields, SeqMonotonic DEF Items
<1>2. /\ s.delivered \o s.queue \in Seq(Items)
      /\ s.delivered \o s.queue \o s.woken \in Seq(Items)
  BY <1>1, ConcatProperties
<1>3. /\ Range(s.delivered \o s.queue) = Range(s.delivered) \cup Range(s.queue)
      /\ Range(s.delivered \o s.queue \o s.woken) = Range(s.delivered \o s.queue) \cup Range(s.woken)
      /\ Range(s.delivered \o s.queue \o s.woken \o s.waiting) =
            Range(s.delivered \o s.queue \o s.woken) \cup Range(s.waiting)
  <2> DEFINE p == s.delivered \o s.queue
             q == p \o s.woken
  <2>1. Range(s.delivered \o s.queue) = Range(s.delivered) \cup Range(s.queue)
    BY <1>1, RangeConcatenation
  <2>2. p \in Seq(Items) /\ q \in Seq(Items)
    BY <1>2
  <2>3. Range(p \o s.woken) = Range(p) \cup Range(s.woken)
    <3> HIDE DEF p
    <3> QED
      BY <1>1, <2>2, RangeConcatenation
  <2>4. Range(q \o s.waiting) = Range(q) \cup Range(s.waiting)
    <3> HIDE DEF q
    <3> QED
      BY <1>1, <2>2, RangeConcatenation
  <2> QED
    BY <2>1, <2>3, <2>4
<1> QED
  BY <1>3 DEF Accepted, Held

\* The engine reads items that have been accepted.
LEMMA PassedProperties ==
    ASSUME NEW s \in Stream
    PROVE  /\ Passed(s) \in Seq(Items) /\ Len(Passed(s)) = Len(s.delivered) + Len(s.queue)
           /\ Len(Passed(s)) \in Nat /\ DOMAIN Passed(s) = 1 .. Len(Passed(s))
           /\ Len(s.delivered) \in Nat /\ Len(s.queue) \in Nat
           /\ \A j \in DOMAIN Passed(s) :
                /\ Passed(s)[j] = IF j <= Len(s.delivered) THEN s.delivered[j]
                                                           ELSE s.queue[j - Len(s.delivered)]
                /\ Passed(s)[j] \in Held(s)
<1>1. s.queue \in Seq(Items) /\ s.delivered \in Seq(Items)
  BY StreamFields, SeqMonotonic DEF Items
<1>2. /\ Passed(s) \in Seq(Items) /\ Len(Passed(s)) = Len(s.delivered) + Len(s.queue)
      /\ Len(Passed(s)) \in Nat /\ DOMAIN Passed(s) = 1 .. Len(Passed(s))
      /\ Len(s.delivered) \in Nat /\ Len(s.queue) \in Nat
      /\ \A j \in 1 .. Len(s.delivered) + Len(s.queue) :
           Passed(s)[j] = IF j <= Len(s.delivered) THEN s.delivered[j]
                                                   ELSE s.queue[j - Len(s.delivered)]
  BY <1>1, ConcatProperties, LenProperties DEF Passed
<1>3. Range(Passed(s)) = Range(s.delivered) \cup Range(s.queue)
  BY <1>1, RangeConcatenation DEF Passed
<1>4. \A j \in DOMAIN Passed(s) : Passed(s)[j] \in Range(Passed(s))
  BY DEF Range
<1> QED
  BY <1>2, <1>3, <1>4 DEF Held

\* An update enqueued at once is not behind a later one.
InOrder(s) ==
    \A j, k \in DOMAIN Passed(s) :
        j < k /\ Passed(s)[k] \in s.direct => Passed(s)[j] <= Passed(s)[k]

LEMMA OrderKeptByAppend ==
    ASSUME NEW s \in Stream, NEW t \in Stream, NEW x \in Items, InOrder(s),
           Passed(t) = Append(Passed(s), x),
           t.direct \cap Held(s) \subseteq s.direct,
           x \in t.direct => \A y \in Held(s) : y <= x
    PROVE  InOrder(t)
<1>1. /\ Passed(s) \in Seq(Items) /\ Len(Passed(s)) \in Nat
      /\ DOMAIN Passed(s) = 1 .. Len(Passed(s))
      /\ \A j \in DOMAIN Passed(s) : Passed(s)[j] \in Held(s)
  BY PassedProperties
<1>2. /\ Len(Passed(t)) = Len(Passed(s)) + 1 /\ DOMAIN Passed(t) = 1 .. Len(Passed(s)) + 1
      /\ \A j \in 1 .. Len(Passed(s)) : Passed(t)[j] = Passed(s)[j]
      /\ Passed(t)[Len(Passed(s)) + 1] = x
  <2>1. DOMAIN Passed(t) = 1 .. Len(Passed(t))
    BY PassedProperties
  <2> QED
    BY <1>1, <2>1, AppendProperties
<1> SUFFICES ASSUME NEW j \in DOMAIN Passed(t), NEW k \in DOMAIN Passed(t),
                    j < k, Passed(t)[k] \in t.direct
             PROVE  Passed(t)[j] <= Passed(t)[k]
  BY DEF InOrder
<1>3. /\ j \in DOMAIN Passed(s) /\ Passed(t)[j] = Passed(s)[j] /\ Passed(s)[j] \in Held(s)
      /\ k \in 1 .. Len(Passed(s)) + 1
  BY <1>1, <1>2
<1>4. CASE k \in 1 .. Len(Passed(s))
  <2>1. k \in DOMAIN Passed(s) /\ Passed(t)[k] = Passed(s)[k] /\ Passed(s)[k] \in Held(s)
    BY <1>1, <1>2, <1>4
  <2> QED
    BY <1>3, <2>1 DEF InOrder
<1>5. CASE k = Len(Passed(s)) + 1
  BY <1>2, <1>3, <1>5
<1> QED
  BY <1>1, <1>3, <1>4, <1>5

LEMMA OrderKeptByRemoval ==
    ASSUME NEW s \in Stream, NEW t \in Stream, InOrder(s),
           t.delivered = s.delivered, s.queue # <<>>, t.queue = Tail(s.queue),
           t.direct = s.direct
    PROVE  InOrder(t)
<1> DEFINE n == Len(s.delivered)
           old(j) == IF j <= n THEN j ELSE j + 1
<1>1. /\ n \in Nat /\ Len(s.queue) \in Nat /\ Len(t.queue) \in Nat
      /\ DOMAIN Passed(s) = 1 .. Len(Passed(s)) /\ DOMAIN Passed(t) = 1 .. Len(Passed(t))
      /\ Len(Passed(s)) = n + Len(s.queue) /\ Len(Passed(t)) = n + Len(t.queue)
      /\ \A j \in DOMAIN Passed(s) :
           Passed(s)[j] = IF j <= n THEN s.delivered[j] ELSE s.queue[j - n]
      /\ \A j \in DOMAIN Passed(t) :
           Passed(t)[j] = IF j <= n THEN s.delivered[j] ELSE t.queue[j - n]
  BY PassedProperties
<1>2. /\ Len(t.queue) = Len(s.queue) - 1
      /\ \A j \in 1 .. Len(t.queue) : t.queue[j] = s.queue[j + 1]
  BY StreamFields, HeadTailProperties
<1> HIDE DEF n
<1>3. ASSUME NEW j \in DOMAIN Passed(t)
      PROVE  old(j) \in DOMAIN Passed(s) /\ Passed(t)[j] = Passed(s)[old(j)]
  <2>1. CASE j <= n
    BY <1>1, <1>2, <2>1
  <2>2. CASE ~(j <= n)
    <3>1. /\ j \in Nat /\ j <= n + Len(t.queue) /\ j > n
          /\ j - n \in 1 .. Len(t.queue) /\ j + 1 \in 1 .. Len(Passed(s))
      BY <1>1, <1>2, <2>2
    <3>2. Passed(t)[j] = t.queue[j - n] /\ t.queue[j - n] = s.queue[(j - n) + 1]
      BY <1>1, <1>2, <2>2, <3>1
    <3>3. Passed(s)[j + 1] = s.queue[(j + 1) - n] /\ (j + 1) - n = (j - n) + 1
      BY <1>1, <2>2, <3>1
    <3> QED
      BY <1>1, <2>2, <3>1, <3>2, <3>3
  <2> QED
    BY <2>1, <2>2
<1>4. ASSUME NEW j \in DOMAIN Passed(t), NEW k \in DOMAIN Passed(t), j < k
      PROVE  old(j) < old(k)
  BY <1>1, <1>4
<1> HIDE DEF old
<1> QED
  BY <1>3, <1>4 DEF InOrder

LEMMA HeadToConcat ==
    ASSUME NEW S, NEW a \in Seq(S), NEW b \in Seq(S), b # <<>>
    PROVE  Append(a, Head(b)) \o Tail(b) = a \o b
<1>1. Head(b) \in S /\ Tail(b) \in Seq(S) /\ <<Head(b)>> \in Seq(S)
  BY HeadTailProperties
<1>2. Append(a, Head(b)) = a \o <<Head(b)>>
  BY <1>1, AppendIsConcat
<1>3. <<Head(b)>> \o Tail(b) = b
  BY <1>1
<1>4. (a \o <<Head(b)>>) \o Tail(b) = a \o (<<Head(b)>> \o Tail(b))
  BY <1>1, ConcatAssociative
<1> QED
  BY <1>2, <1>3, <1>4

\* Reading an update moves it from the queue to what was delivered.
LEMMA DeliveryKeepsPassed ==
    ASSUME NEW s \in Stream, NEW t \in Stream, s.queue # <<>>,
           t.delivered = Append(s.delivered, Head(s.queue)), t.queue = Tail(s.queue)
    PROVE  Passed(t) = Passed(s)
<1>1. /\ s.queue \in Seq(Items) /\ s.delivered \in Seq(Items)
      /\ Head(s.queue) \in Items /\ Tail(s.queue) \in Seq(Items)
  BY StreamFields, SeqMonotonic, HeadTailProperties DEF Items
<1> QED
  BY <1>1, HeadToConcat DEF Passed

LEMMA EnqueueAppendsPassed ==
    ASSUME NEW s \in Stream, NEW t \in Stream, NEW x \in Items,
           t.delivered = s.delivered, t.queue = Append(s.queue, x)
    PROVE  Passed(t) = Append(Passed(s), x)
<1> DEFINE d == Len(s.delivered)
           q == Len(s.queue)
           longer == Append(Passed(s), x)
<1>1. s.queue \in Seq(Items)
  BY StreamFields
<1>2. /\ Len(t.queue) = q + 1 /\ t.queue[q + 1] = x
      /\ \A j \in 1 .. q : t.queue[j] = s.queue[j]
  BY <1>1, AppendProperties
<1>3. /\ Passed(s) \in Seq(Items) /\ Passed(t) \in Seq(Items)
      /\ d \in Nat /\ q \in Nat /\ Len(Passed(s)) = d + q /\ Len(Passed(t)) = d + q + 1
      /\ DOMAIN Passed(s) = 1 .. d + q /\ DOMAIN Passed(t) = 1 .. d + q + 1
      /\ \A j \in 1 .. d + q : Passed(s)[j] = IF j <= d THEN s.delivered[j] ELSE s.queue[j - d]
      /\ \A j \in 1 .. d + q + 1 : Passed(t)[j] = IF j <= d THEN s.delivered[j] ELSE t.queue[j - d]
  <2>1. /\ Passed(s) \in Seq(Items) /\ Len(Passed(s)) = d + q
        /\ d \in Nat /\ q \in Nat /\ DOMAIN Passed(s) = 1 .. Len(Passed(s))
        /\ \A j \in DOMAIN Passed(s) :
             Passed(s)[j] = IF j <= d THEN s.delivered[j] ELSE s.queue[j - d]
    BY PassedProperties
  <2>2. /\ Passed(t) \in Seq(Items) /\ Len(Passed(t)) = d + Len(t.queue)
        /\ DOMAIN Passed(t) = 1 .. Len(Passed(t))
        /\ \A j \in DOMAIN Passed(t) :
             Passed(t)[j] = IF j <= d THEN s.delivered[j] ELSE t.queue[j - d]
    BY PassedProperties
  <2> HIDE DEF d, q, longer
  <2>3. Len(Passed(t)) = d + q + 1 /\ DOMAIN Passed(t) = 1 .. d + q + 1 /\ DOMAIN Passed(s) = 1 .. d + q
    BY <1>2, <2>1, <2>2
  <2> QED
    BY <2>1, <2>2, <2>3
<1>4. /\ longer \in Seq(Items) /\ Len(longer) = d + q + 1
      /\ \A j \in 1 .. d + q : longer[j] = Passed(s)[j]
      /\ longer[d + q + 1] = x
  <2>1. /\ longer \in Seq(Items) /\ Len(longer) = Len(Passed(s)) + 1
        /\ \A j \in 1 .. Len(Passed(s)) : longer[j] = Passed(s)[j]
        /\ longer[Len(Passed(s)) + 1] = x
    <3>1. Passed(s) \in Seq(Items)
      BY <1>3
    <3> QED
      BY <3>1, AppendProperties
  <2> HIDE DEF longer, d, q
  <2> QED
    BY <1>3, <2>1
<1> HIDE DEF d, q, longer
<1>5. ASSUME NEW j \in 1 .. d + q + 1 PROVE Passed(t)[j] = longer[j]
  <2>1. CASE j <= d
    BY <1>3, <1>4, <2>1
  <2>2. CASE j > d /\ j <= d + q
    <3>1. j - d \in 1 .. q /\ j \in 1 .. d + q
      BY <1>3, <2>2
    <3> QED
      BY <1>2, <1>3, <1>4, <2>2, <3>1
  <2>3. CASE j = d + q + 1
    <3>1. j - d = q + 1 /\ ~(j <= d)
      BY <1>3, <2>3
    <3> QED
      BY <1>2, <1>3, <1>4, <2>3, <3>1
  <2> QED
    BY <1>3, <2>1, <2>2, <2>3
<1>6. Passed(t) = longer
  BY <1>3, <1>4, <1>5, SeqEqual
<1> QED
  BY <1>6 DEF longer

-----------------------------------------------------------------------------
(***************************************************************************)
(* What every stream keeps                                                 *)
(***************************************************************************)

LEMMA MovedFields ==
    ASSUME NEW i \in DOMAIN streams, streams[i] \in Stream, Moved(i)
    PROVE  LET s == streams[i]  t == streams'[i] IN
           /\ t \in Stream
           /\ s.closed => t.closed
           /\ \/ t = s
              \/ /\ Publishes(i)
                 /\ t.queue = Append(s.queue, published + 1)
                 /\ t.direct = s.direct \cup {published + 1}
                 /\ t.delivered = s.delivered /\ t.woken = s.woken /\ t.waiting = s.waiting
              \/ /\ PutWaits(i)
                 /\ t.waiting = Append(s.waiting, published + 1)
                 /\ t.queue = s.queue /\ t.delivered = s.delivered
                 /\ t.woken = s.woken /\ t.direct = s.direct
              \/ /\ PutResumes(i)
                 /\ t.woken = Tail(s.woken)
                 /\ \/ t.queue = Append(s.queue, Head(s.woken)) /\ t.waiting = s.waiting
                    \/ t.queue = s.queue /\ t.waiting = Append(s.waiting, Head(s.woken))
                 /\ t.delivered = s.delivered /\ t.direct = s.direct
              \/ /\ t.closed
                 /\ \/ t.queue = Append(s.queue, Marker) /\ t.waiting = s.waiting
                    \/ t.queue = s.queue /\ t.waiting = s.waiting
                    \/ t.queue = s.queue /\ t.waiting = Append(s.waiting, Marker)
                 /\ t.delivered = s.delivered /\ t.woken = s.woken /\ t.direct = s.direct
              \/ Delivers(i) \/ Ends(i)
<1> DEFINE s == streams[i]
           t == streams'[i]
<1>1. s \in Stream /\ t \in Stream
  BY DEF Moved
<1>2. CASE Rests(i)
  BY <1>1, <1>2 DEF Rests
<1>3. CASE Publishes(i)
  BY <1>1, <1>3 DEF Publishes, Stream
<1>4. CASE PutWaits(i)
  BY <1>1, <1>4 DEF PutWaits, Stream
<1>5. CASE PutResumes(i)
  BY <1>1, <1>5 DEF PutResumes, Stream
<1>6. CASE ClosesWithMarker(i)
  BY <1>1, <1>6 DEF ClosesWithMarker, Stream
<1>7. CASE ClosesWithout(i)
  BY <1>1, <1>7 DEF ClosesWithout, Stream
<1>8. CASE MarkerWaits(i)
  BY <1>1, <1>8 DEF MarkerWaits, Stream
<1>9. CASE Delivers(i) \/ Ends(i)
  BY <1>1, <1>9 DEF Delivers, Ends, Reads
<1> QED
  BY <1>2, <1>3, <1>4, <1>5, <1>6, <1>7, <1>8, <1>9 DEF Moved, Moves

\* A move adds nothing but the marker and, to an open stream, the newest update.
Comes(i, x) ==
    \/ x \in Held(streams[i]) \cup {Marker}
    \/ ~streams[i].closed /\ published' = published + 1 /\ x = published + 1

Waits(s) == Range(s.woken) \cup Range(s.waiting)

LEMMA MovedHeld ==
    ASSUME NEW i \in DOMAIN streams, streams[i] \in Stream, Moved(i), published + 1 \in Nat
    PROVE  /\ \A x \in Held(streams'[i]) : Comes(i, x)
           /\ Waits(streams'[i]) \subseteq Waits(streams[i]) \cup {Marker, published + 1}
           /\ published + 1 \in Waits(streams'[i]) =>
                \/ published + 1 \in Waits(streams[i]) \/ PutWaits(i) \/ published + 1 = Marker
<1> DEFINE s == streams[i]
           t == streams'[i]
<1> DEFINE All == Items \cup {published + 1}
<1>1. /\ s \in Stream /\ t \in Stream
      /\ s.queue \in Seq(All) /\ s.waiting \in Seq(All) /\ s.woken \in Seq(All)
      /\ s.delivered \in Seq(All)
      /\ Marker \in All /\ published + 1 \in All
  <2>1. Items \subseteq All /\ Updates \subseteq All /\ Marker \in All
    BY DEF Items
  <2>2. s \in Stream /\ t \in Stream
    BY DEF Moved
  <2> QED
    BY <2>1, <2>2, StreamFields, SeqMonotonic
<1> HIDE DEF All
<1>2. ASSUME NEW q \in Seq(All), NEW x \in All
      PROVE  Range(Append(q, x)) = Range(q) \cup {x}
  BY AppendRange
<1>3. ASSUME NEW q \in Seq(All), q # <<>>
      PROVE  /\ Range(Tail(q)) \subseteq Range(q) /\ Head(q) \in Range(q) /\ Head(q) \in All
             /\ Tail(q) \in Seq(All)
  BY <1>3, TailRange, HeadTailProperties
<1>4. CASE t = s
  BY <1>4 DEF Comes
<1>5. CASE /\ Publishes(i)
           /\ t.queue = Append(s.queue, published + 1)
           /\ t.delivered = s.delivered /\ t.woken = s.woken /\ t.waiting = s.waiting
  BY <1>1, <1>2, <1>5 DEF Held, Waits, Comes, Publishes
<1>6. CASE /\ PutWaits(i)
           /\ t.waiting = Append(s.waiting, published + 1)
           /\ t.queue = s.queue /\ t.delivered = s.delivered /\ t.woken = s.woken
  BY <1>1, <1>2, <1>6 DEF Held, Waits, Comes, PutWaits
<1>7. CASE /\ PutResumes(i)
           /\ t.woken = Tail(s.woken)
           /\ \/ t.queue = Append(s.queue, Head(s.woken)) /\ t.waiting = s.waiting
              \/ t.queue = s.queue /\ t.waiting = Append(s.waiting, Head(s.woken))
           /\ t.delivered = s.delivered
  <2>1. s.woken # <<>>
    BY <1>7 DEF PutResumes
  <2>2. /\ Range(t.woken) \subseteq Range(s.woken) /\ Head(s.woken) \in Range(s.woken)
        /\ Head(s.woken) \in All
    BY <1>1, <1>3, <1>7, <2>1
  <2>3. /\ Range(t.queue) \subseteq Range(s.queue) \cup {Head(s.woken)}
        /\ Range(t.waiting) \subseteq Range(s.waiting) \cup {Head(s.woken)}
    BY <1>1, <1>2, <1>7, <2>2
  <2> QED
    BY <1>7, <2>2, <2>3 DEF Held, Waits, Comes
<1>8. CASE /\ \/ t.queue = Append(s.queue, Marker) /\ t.waiting = s.waiting
              \/ t.queue = s.queue /\ t.waiting = s.waiting
              \/ t.queue = s.queue /\ t.waiting = Append(s.waiting, Marker)
           /\ t.delivered = s.delivered /\ t.woken = s.woken
  <2>1. /\ Range(Append(s.queue, Marker)) = Range(s.queue) \cup {Marker}
        /\ Range(Append(s.waiting, Marker)) = Range(s.waiting) \cup {Marker}
    BY <1>1, <1>2
  <2>2. /\ Range(t.queue) \subseteq Range(s.queue) \cup {Marker}
        /\ Range(t.waiting) \subseteq Range(s.waiting) \cup {Marker}
    BY <1>8, <2>1
  <2> QED
    BY <1>8, <2>2 DEF Held, Waits, Comes
<1>9. CASE Delivers(i) \/ Ends(i)
  <2>1. /\ s.queue # <<>> /\ t.queue = Tail(s.queue) /\ Wakes(i)
        /\ t.delivered = s.delivered \/ t.delivered = Append(s.delivered, Head(s.queue))
    BY <1>9 DEF Delivers, Ends, Reads
  <2>2. Range(t.queue) \subseteq Range(s.queue) /\ Head(s.queue) \in Range(s.queue) /\ Head(s.queue) \in All
    BY <1>1, <1>3, <2>1
  <2>3. Range(t.delivered) \subseteq Range(s.delivered) \cup Range(s.queue)
    <3>1. Range(Append(s.delivered, Head(s.queue))) = Range(s.delivered) \cup {Head(s.queue)}
      BY <1>1, <1>2, <2>2
    <3> QED
      BY <2>1, <2>2, <3>1
  <2>4. Waits(t) \subseteq Waits(s)
    <3>1. CASE s.waiting = <<>>
      BY <2>1, <3>1 DEF Wakes, Waits
    <3>2. CASE s.waiting # <<>>
      <4>1. t.waiting = Tail(s.waiting) /\ t.woken = Append(s.woken, Head(s.waiting))
        BY <2>1, <3>2 DEF Wakes
      <4>2. Range(t.waiting) \subseteq Range(s.waiting) /\ Head(s.waiting) \in Range(s.waiting)
            /\ Head(s.waiting) \in All
        BY <1>1, <1>3, <3>2, <4>1
      <4>3. Range(t.woken) = Range(s.woken) \cup {Head(s.waiting)}
        BY <1>1, <1>2, <4>1, <4>2
      <4> QED
        BY <4>2, <4>3 DEF Waits
    <3> QED
      BY <3>1, <3>2
  <2> QED
    BY <2>2, <2>3, <2>4 DEF Held, Waits, Comes
<1>10. \/ t = s
       \/ /\ Publishes(i)
          /\ t.queue = Append(s.queue, published + 1)
          /\ t.delivered = s.delivered /\ t.woken = s.woken /\ t.waiting = s.waiting
       \/ /\ PutWaits(i)
          /\ t.waiting = Append(s.waiting, published + 1)
          /\ t.queue = s.queue /\ t.delivered = s.delivered /\ t.woken = s.woken
       \/ /\ PutResumes(i)
          /\ t.woken = Tail(s.woken)
          /\ \/ t.queue = Append(s.queue, Head(s.woken)) /\ t.waiting = s.waiting
             \/ t.queue = s.queue /\ t.waiting = Append(s.waiting, Head(s.woken))
          /\ t.delivered = s.delivered
       \/ /\ \/ t.queue = Append(s.queue, Marker) /\ t.waiting = s.waiting
             \/ t.queue = s.queue /\ t.waiting = s.waiting
             \/ t.queue = s.queue /\ t.waiting = Append(s.waiting, Marker)
          /\ t.delivered = s.delivered /\ t.woken = s.woken
       \/ Delivers(i) \/ Ends(i)
  BY MovedFields
<1> QED
  BY <1>4, <1>5, <1>6, <1>7, <1>8, <1>9, <1>10

\* What was enqueued at once waits nowhere, and is in order with all that is
\* read before it; n is the newest update.
Straight(s, n) ==
    /\ Held(s) \subseteq 0 .. n
    /\ s.direct \subseteq 1 .. n
    /\ s.direct \cap Waits(s) = {}
    /\ InOrder(s)

LEMMA MovedPassed ==
    ASSUME NEW i \in DOMAIN streams, streams[i] \in Stream, Moved(i)
    PROVE  LET s == streams[i]  t == streams'[i] IN
           \/ Passed(t) = Passed(s) /\ t.direct = s.direct
           \/ /\ \/ Publishes(i) /\ t.direct = s.direct \cup {published + 1}
                    /\ published + 1 \in Items
                    /\ Passed(t) = Append(Passed(s), published + 1)
                 \/ \E x \in Waits(s) \cup {Marker} :
                       x \in Items /\ Passed(t) = Append(Passed(s), x) /\ t.direct = s.direct
           \/ /\ s.queue # <<>> /\ Head(s.queue) = Marker /\ t.queue = Tail(s.queue)
              /\ t.delivered = s.delivered /\ t.direct = s.direct
<1> DEFINE s == streams[i]
           t == streams'[i]
<1>1. s \in Stream /\ t \in Stream /\ s.woken \in Seq(Items) /\ t.direct \subseteq Updates
      /\ Marker \in Items /\ Updates \subseteq Items
  BY StreamFields DEF Moved, Items
<1>2. CASE t = s
  BY <1>2
<1>3. CASE /\ Publishes(i)
           /\ t.queue = Append(s.queue, published + 1)
           /\ t.direct = s.direct \cup {published + 1}
           /\ t.delivered = s.delivered
  <2>1. published + 1 \in Items
    BY <1>1, <1>3
  <2>2. Passed(t) = Append(Passed(s), published + 1)
    BY <1>1, <1>3, <2>1, EnqueueAppendsPassed
  <2> QED
    BY <1>3, <2>1, <2>2
<1>4. CASE t.queue = s.queue /\ t.delivered = s.delivered /\ t.direct = s.direct
  BY <1>4 DEF Passed
<1>5. CASE /\ PutResumes(i)
           /\ t.queue = Append(s.queue, Head(s.woken))
           /\ t.delivered = s.delivered /\ t.direct = s.direct
  <2>1. s.woken # <<>>
    BY <1>5 DEF PutResumes
  <2>2. Head(s.woken) \in Items /\ Head(s.woken) \in Range(s.woken)
    BY <1>1, <2>1, HeadTailProperties, TailRange
  <2>3. Passed(t) = Append(Passed(s), Head(s.woken))
    BY <1>1, <1>5, <2>2, EnqueueAppendsPassed
  <2> QED
    BY <1>5, <2>2, <2>3 DEF Waits
<1>6. CASE t.queue = Append(s.queue, Marker) /\ t.delivered = s.delivered /\ t.direct = s.direct
  <2>1. Passed(t) = Append(Passed(s), Marker)
    BY <1>1, <1>6, EnqueueAppendsPassed
  <2> QED
    BY <1>1, <1>6, <2>1
<1>7. CASE Delivers(i)
  <2>1. /\ s.queue # <<>> /\ t.queue = Tail(s.queue) /\ t.direct = s.direct
        /\ t.delivered = Append(s.delivered, Head(s.queue))
    BY <1>7 DEF Delivers, Reads
  <2>2. Passed(t) = Passed(s)
    BY <1>1, <2>1, DeliveryKeepsPassed
  <2> QED
    BY <2>1, <2>2
<1>8. CASE Ends(i)
  BY <1>8 DEF Ends, Reads
<1> QED
  BY <1>2, <1>3, <1>4, <1>5, <1>6, <1>7, <1>8, MovedFields

LEMMA StraightKept ==
    ASSUME NEW i \in DOMAIN streams, streams[i] \in Stream, Moved(i),
           published \in Nat, published' \in {published, published + 1},
           Straight(streams[i], published)
    PROVE  Straight(streams'[i], published')
<1> DEFINE s == streams[i]
           t == streams'[i]
<1>1. /\ s \in Stream /\ t \in Stream /\ published + 1 \in Nat /\ published' \in Nat
      /\ Held(s) \subseteq 0 .. published /\ s.direct \subseteq 1 .. published
      /\ s.direct \cap Waits(s) = {} /\ InOrder(s)
      /\ Waits(s) \subseteq Held(s)
  BY DEF Moved, Straight, Waits, Held
<1>2. Held(t) \subseteq 0 .. published'
  <2>1. \A x \in Held(t) : Comes(i, x)
    BY <1>1, MovedHeld
  <2> QED
    BY <1>1, <2>1 DEF Comes, Marker
<1>3. /\ published + 1 \notin Held(s) /\ published + 1 \notin s.direct
      /\ Marker \notin s.direct /\ Marker # published + 1
  BY <1>1 DEF Marker
<1>4. t.direct \subseteq 1 .. published' /\ t.direct \cap Waits(t) = {}
  <2>1. CASE t.direct = s.direct
    <3>1. Waits(t) \subseteq Waits(s) \cup {Marker, published + 1}
      BY <1>1, MovedHeld
    <3>2. s.direct \subseteq 1 .. published'
      BY <1>1
    <3> QED
      BY <1>1, <1>3, <2>1, <3>1, <3>2
  <2>2. CASE /\ Publishes(i) /\ t.direct = s.direct \cup {published + 1}
             /\ t.woken = s.woken /\ t.waiting = s.waiting
    <3>1. Waits(t) = Waits(s) /\ published' = published + 1
      BY <2>2 DEF Waits, Publishes
    <3>2. t.direct \subseteq 1 .. published'
      BY <1>1, <2>2, <3>1
    <3> QED
      BY <1>1, <1>3, <2>2, <3>1, <3>2
  <2>3. \/ t.direct = s.direct
        \/ /\ Publishes(i) /\ t.direct = s.direct \cup {published + 1}
           /\ t.woken = s.woken /\ t.waiting = s.waiting
        \/ Delivers(i) \/ Ends(i)
    BY MovedFields
  <2>4. Delivers(i) \/ Ends(i) => t.direct = s.direct
    BY DEF Delivers, Ends, Reads
  <2> QED
    BY <2>1, <2>2, <2>3, <2>4
<1>5. InOrder(t)
  <2>1. CASE Passed(t) = Passed(s) /\ t.direct = s.direct
    BY <1>1, <2>1 DEF InOrder
  <2>2. CASE /\ t.direct = s.direct \cup {published + 1} /\ published + 1 \in Items
             /\ Passed(t) = Append(Passed(s), published + 1)
    <3>1. t.direct \cap Held(s) \subseteq s.direct
      BY <1>3, <2>2
    <3>2. \A y \in Held(s) : y <= published + 1
      BY <1>1
    <3> QED
      BY <1>1, <2>2, <3>1, <3>2, OrderKeptByAppend
  <2>3. CASE \E x \in Waits(s) \cup {Marker} :
                x \in Items /\ Passed(t) = Append(Passed(s), x) /\ t.direct = s.direct
    <3>1. PICK x \in Waits(s) \cup {Marker} :
                x \in Items /\ Passed(t) = Append(Passed(s), x) /\ t.direct = s.direct
      BY <2>3
    <3>2. x \notin t.direct /\ t.direct \cap Held(s) \subseteq s.direct
      BY <1>1, <1>3, <3>1
    <3> QED
      BY <1>1, <3>1, <3>2, OrderKeptByAppend
  <2>4. CASE /\ s.queue # <<>> /\ t.queue = Tail(s.queue)
             /\ t.delivered = s.delivered /\ t.direct = s.direct
    BY <1>1, <2>4, OrderKeptByRemoval
  <2> QED
    BY <2>1, <2>2, <2>3, <2>4, MovedPassed
<1> QED
  BY <1>2, <1>4, <1>5 DEF Straight

-----------------------------------------------------------------------------
(***************************************************************************)
(* The steps of the bridge                                                 *)
(***************************************************************************)

\* Every stream makes a move, and there are at most one more update.
StreamsMove ==
    /\ \A i \in DOMAIN streams : i \in DOMAIN streams' /\ Moved(i)
    /\ published' \in {published, published + 1} /\ published' <= MaxUpdates

\* No stream is constructed; an id may be given back while its stream is closed.
Carries ==
    /\ streams' \in Seq(Stream) /\ Len(streams') = Len(streams)
    /\ origin' = origin
    /\ \/ table' = table
       \/ \E id \in Ids :
             /\ Open(id) /\ streams'[table[id]].closed
             /\ table' = [table EXCEPT ![id] = 0]

\* A stream is constructed for id, with its fork request if it is a branch's.
Lists(id, fork) ==
    /\ ~Open(id) /\ Len(streams) < MaxStreams
    /\ \E s \in Stream :
          /\ streams' = Append(streams, s)
          /\ IF fork
             THEN /\ s = WithUpdate(NewStream(BranchLimit), published + 1)
                  /\ published' = published + 1
             ELSE s = NewStream(MaxPending)
    /\ table' = [table EXCEPT ![id] = Len(streams) + 1]
    /\ origin' = Append(origin, [id |-> id, fork |-> fork])

LEMMA OneStreamMoves ==
    ASSUME BridgeTypeOK, NEW k, OnlyStream(k), Moved(k)
    PROVE  /\ StreamsMove
           /\ streams' \in Seq(Stream) /\ Len(streams') = Len(streams)
<1>1. /\ StreamTypeOK /\ streams \in Seq(Stream) /\ published \in Nat /\ published <= MaxUpdates
      /\ k \in DOMAIN streams /\ DOMAIN streams = 1 .. Len(streams) /\ MaxUpdates \in Nat
  BY Constants, LenProperties DEF BridgeTypeOK, StreamTypeOK, OnlyStream
<1>2. streams' = [streams EXCEPT ![k] = streams'[k]] /\ streams'[k] \in Stream
  BY DEF OnlyStream, Moved
<1>3. streams' \in Seq(Stream) /\ Len(streams') = Len(streams)
  BY <1>1, <1>2, ExceptSeq DEF OnlyStream
<1>4. ASSUME NEW i \in DOMAIN streams PROVE i \in DOMAIN streams' /\ Moved(i)
  <2>1. i \in DOMAIN streams'
    BY DEF OnlyStream
  <2>2. CASE i = k
    BY <2>1, <2>2
  <2>3. CASE i # k
    BY <1>1, <2>1, <2>3, RestsMoved DEF OnlyStream
  <2> QED
    BY <2>2, <2>3
<1>5. published' \in {published, published + 1} /\ published' <= MaxUpdates
  BY <1>1 DEF OnlyStream
<1> QED
  BY <1>3, <1>4, <1>5 DEF StreamsMove

LEMMA ListMoves ==
    ASSUME BridgeTypeOK, NEW id \in Ids, NEW s \in Stream, NEW fork \in BOOLEAN,
           List(id, s, fork),
           published' \in {published, published + 1}, published' <= MaxUpdates
    PROVE  /\ StreamsMove /\ streams' \in Seq(Stream)
           /\ ~Open(id) /\ Len(streams) < MaxStreams
           /\ streams' = Append(streams, s)
           /\ table' = [table EXCEPT ![id] = Len(streams) + 1]
           /\ origin' = Append(origin, [id |-> id, fork |-> fork])
<1>1. /\ StreamTypeOK /\ streams \in Seq(Stream) /\ Len(streams) \in Nat
      /\ DOMAIN streams = 1 .. Len(streams)
      /\ streams' = Append(streams, s) /\ ~Open(id) /\ Len(streams) < MaxStreams
  BY LenProperties DEF BridgeTypeOK, StreamTypeOK, List, MayOpen
<1>2. /\ streams' \in Seq(Stream) /\ Len(streams') = Len(streams) + 1
      /\ \A i \in 1 .. Len(streams) : streams'[i] = streams[i]
  BY <1>1, AppendProperties
<1>3. ASSUME NEW i \in DOMAIN streams PROVE i \in DOMAIN streams' /\ Moved(i)
  <2>1. i \in DOMAIN streams' /\ streams'[i] = streams[i]
    BY <1>1, <1>2
  <2> QED
    BY <1>1, <2>1, RestsMoved
<1> QED
  BY <1>1, <1>2, <1>3 DEF StreamsMove, List

LEMMA ClosedBehindMoves ==
    ASSUME BridgeTypeOK, NEW k \in DOMAIN streams, streams' = ClosedBehind(k), published' = published
    PROVE  OnlyStream(k) /\ Moved(k) /\ streams'[k].closed
<1> DEFINE s == streams[k]
<1>1. /\ StreamTypeOK /\ streams \in Seq(Stream) /\ s \in Stream
      /\ Len(streams) \in Nat /\ DOMAIN streams = 1 .. Len(streams)
  BY ElementOfSeq, LenProperties DEF BridgeTypeOK, StreamTypeOK
<1>2. streams' = [streams EXCEPT ![k] = Closed(s)] /\ streams'[k] = Closed(s)
  BY <1>1 DEF ClosedBehind
<1>3. Closed(s).closed
  BY <1>1 DEF Closed, Stream
<1>4. CASE s.closed
  <2>1. streams'[k] = s
    BY <1>2, <1>4 DEF Closed
  <2>2. OnlyStream(k)
    BY <1>1, <1>2 DEF OnlyStream
  <2> QED
    BY <1>1, <1>2, <1>3, <2>1, <2>2, RestsMoved
<1>5. CASE ~s.closed
  <2>1. CloseNowait(k)
    BY <1>2, <1>5 DEF CloseNowait
  <2>2. OnlyStream(k) /\ Moved(k)
    BY <1>1, <2>1, HolderMoves DEF Holder
  <2> QED
    BY <1>2, <1>3, <2>2
<1> QED
  BY <1>4, <1>5

LEMMA BridgeMoves ==
    ASSUME BridgeTypeOK, [BridgeNext]_bridgeVars
    PROVE  /\ StreamsMove
           /\ Carries \/ \E id \in Ids, fork \in BOOLEAN : Lists(id, fork)
<1>1. /\ StreamTypeOK /\ streams \in Seq(Stream) /\ Len(streams) \in Nat
      /\ DOMAIN streams = 1 .. Len(streams)
      /\ published \in Nat /\ published <= MaxUpdates
      /\ MaxUpdates \in Nat /\ MaxPending \in Nat \ {0} /\ BranchLimit \in Nat \ {0}
      /\ table \in [Ids -> 0 .. Len(streams)]
  BY Constants, LenProperties DEF BridgeTypeOK, StreamTypeOK, BranchLimit
<1>2. CASE UNCHANGED bridgeVars
  <2>1. streams' = streams /\ published' = published /\ table' = table /\ origin' = origin
    BY <1>2 DEF bridgeVars, streamVars
  <2>2. \A i \in DOMAIN streams : i \in DOMAIN streams' /\ Moved(i)
    BY <1>1, <2>1, RestsMoved
  <2> QED
    BY <1>1, <2>1, <2>2 DEF StreamsMove, Carries
<1>3. ASSUME NEW id \in Ids, OpenSession(id) PROVE StreamsMove /\ Lists(id, FALSE)
  <2>1. NewStream(MaxPending) \in Stream
    BY <1>1, NewStreamType
  <2>2. List(id, NewStream(MaxPending), FALSE) /\ published' = published
    BY <1>3 DEF OpenSession
  <2> QED
    BY <1>1, <2>1, <2>2, ListMoves DEF Lists
<1>4. ASSUME NEW id \in Ids, NEW source \in Ids, OpenBranch(source, id)
      PROVE  StreamsMove /\ Lists(id, TRUE)
  <2> DEFINE s == WithUpdate(NewStream(BranchLimit), published + 1)
  <2>1. published < MaxUpdates /\ List(id, s, TRUE) /\ published' = published + 1
    BY <1>4 DEF OpenBranch
  <2>2. NewStream(BranchLimit) \in Stream /\ published + 1 \in Updates
    BY <1>1, <2>1, NewStreamType DEF Updates
  <2>3. s \in Stream
    BY <2>2, WithUpdateType
  <2>4. published' <= MaxUpdates
    BY <1>1, <2>1
  <2> HIDE DEF s
  <2>5. /\ StreamsMove /\ streams' \in Seq(Stream)
        /\ ~Open(id) /\ Len(streams) < MaxStreams
        /\ streams' = Append(streams, s)
        /\ table' = [table EXCEPT ![id] = Len(streams) + 1]
        /\ origin' = Append(origin, [id |-> id, fork |-> TRUE])
    BY <2>1, <2>3, <2>4, ListMoves
  <2> QED
    BY <2>1, <2>3, <2>5 DEF Lists, s
<1>5. ASSUME NEW id \in Ids, UpdateSession(id) PROVE StreamsMove /\ Carries
  <2>1. PublishAtOnce(table[id]) /\ table' = table /\ origin' = origin /\ table[id] \in DOMAIN streams
    BY <1>1, <1>5 DEF UpdateSession, Open
  <2>2. OnlyStream(table[id]) /\ Moved(table[id])
    BY <1>1, <2>1, HolderMoves DEF Holder
  <2> QED
    BY <2>1, <2>2, OneStreamMoves DEF Carries
<1>6. ASSUME NEW id \in Ids, CloseSessionNowait(id) PROVE StreamsMove /\ Carries
  <2>1. /\ Open(id) /\ table' = [table EXCEPT ![id] = 0]
        /\ streams' = ClosedBehind(table[id]) /\ published' = published /\ origin' = origin
        /\ table[id] \in DOMAIN streams
    BY <1>1, <1>6 DEF CloseSessionNowait, Open
  <2>2. OnlyStream(table[id]) /\ Moved(table[id]) /\ streams'[table[id]].closed
    BY <2>1, ClosedBehindMoves
  <2>3. StreamsMove /\ streams' \in Seq(Stream) /\ Len(streams') = Len(streams)
    BY <2>2, OneStreamMoves
  <2> QED
    BY <2>1, <2>2, <2>3 DEF Carries
<1>7. ASSUME NEW i \in DOMAIN streams, HolderStep(i) \/ ResumeStep(i) \/ TakeStep(i)
      PROVE  StreamsMove /\ Carries
  <2>1. (Holder(i) \/ Resume(i) \/ Take(i)) /\ table' = table /\ origin' = origin
    BY <1>7 DEF HolderStep, ResumeStep, TakeStep
  <2>2. OnlyStream(i) /\ Moved(i)
    BY <1>1, <2>1, HolderMoves
  <2> QED
    BY <2>1, <2>2, OneStreamMoves DEF Carries
<1> QED
  BY <1>2, <1>3, <1>4, <1>5, <1>6, <1>7 DEF BridgeNext

-----------------------------------------------------------------------------
(***************************************************************************)
(* The invariant                                                           *)
(***************************************************************************)

\* A branch's stream starts with an update that is no newer than its others.
Forked(s) ==
    /\ Passed(s) # <<>> /\ Passed(s)[1] # Marker
    /\ \A u \in Held(s) \ {Marker} : Passed(s)[1] <= u

\* The table leads from an id to a stream of that id, and to the only open one.
Filed ==
    /\ \A id \in Ids : Open(id) => origin[table[id]].id = id
    /\ \A i \in DOMAIN streams : table[origin[i].id] # i => streams[i].closed

\* Of two streams of an id the older is closed and holds older updates.
Lives ==
    \A i, j \in DOMAIN streams :
        i < j /\ origin[i].id = origin[j].id =>
            /\ streams[i].closed
            /\ \A u \in Held(streams[i]) \ {Marker}, v \in Held(streams[j]) \ {Marker} : u < v

BridgeInv ==
    /\ BridgeTypeOK
    /\ \A i \in DOMAIN streams : Straight(streams[i], published)
    /\ \A i \in DOMAIN streams : origin[i].fork => Forked(streams[i])
    /\ Filed
    /\ Lives

\* A stream just constructed holds its fork request, if it is a branch's.
LEMMA EmptyStream ==
    ASSUME NEW limit \in Nat \ {0}, NEW n \in Nat
    PROVE  /\ Held(NewStream(limit)) = {} /\ ~NewStream(limit).closed
           /\ Straight(NewStream(limit), n)
<1> DEFINE s == NewStream(limit)
<1>1. s \in Stream /\ s.queue = <<>> /\ s.delivered = <<>> /\ s.waiting = <<>> /\ s.woken = <<>>
      /\ s.direct = {} /\ ~s.closed
  BY NewStreamType DEF NewStream
<1>2. Range(<<>>) = {}
  BY DEF Range
<1>3. Held(s) = {} /\ Waits(s) = {}
  BY <1>1, <1>2 DEF Held, Waits
<1>4. InOrder(s)
  BY <1>1 DEF InOrder
<1> HIDE DEF s
<1>5. Straight(s, n) /\ ~s.closed
  BY <1>1, <1>3, <1>4 DEF Straight
<1> QED
  BY <1>3, <1>5 DEF s

LEMMA ForkStream ==
    ASSUME NEW limit \in Nat \ {0}, NEW u \in Updates, u \in Nat \ {0}
    PROVE  LET s == WithUpdate(NewStream(limit), u) IN
           /\ Held(s) = {u} /\ ~s.closed /\ s.limit = limit /\ Len(s.queue) = 1
           /\ Straight(s, u) /\ Forked(s)
<1> DEFINE e == NewStream(limit)
           s == WithUpdate(e, u)
<1>1. /\ e \in Stream /\ e.queue = <<>> /\ e.delivered = <<>> /\ e.waiting = <<>> /\ e.woken = <<>>
      /\ e.direct = {} /\ ~e.closed /\ e.limit = limit /\ Len(e.queue) = 0
  BY NewStreamType DEF NewStream
<1> HIDE DEF e
<1>2. /\ s \in Stream /\ Len(s.queue) = 1
      /\ s.queue = Append(<<>>, u) /\ s.delivered = <<>> /\ s.waiting = <<>> /\ s.woken = <<>>
      /\ s.direct = {u} /\ ~s.closed /\ s.limit = limit
  <2>1. /\ s \in Stream /\ Len(s.queue) = Len(e.queue) + 1
        /\ s = [e EXCEPT !.queue = Append(e.queue, u), !.direct = e.direct \cup {u}]
    BY <1>1, WithUpdateType
  <2> HIDE DEF s
  <2> QED
    BY <1>1, <2>1 DEF Stream
<1> HIDE DEF s
<1>3. u \in Items /\ <<>> \in Seq(Items) /\ Range(<<>>) = {}
  BY DEF Items, Range
<1>4. Range(s.queue) = {u}
  <2>1. e.queue \in Seq(Items)
    BY <1>1, <1>3
  <2>2. Range(Append(e.queue, u)) = Range(e.queue) \cup {u}
    BY <1>3, <2>1, AppendRange
  <2> QED
    BY <1>1, <1>2, <1>3, <2>2
<1>5. Held(s) = {u} /\ Waits(s) = {}
  BY <1>2, <1>3, <1>4 DEF Held, Waits
<1>6. /\ Len(Passed(s)) = 1 /\ DOMAIN Passed(s) = 1 .. Len(Passed(s))
      /\ \A j \in DOMAIN Passed(s) : Passed(s)[j] \in Held(s)
  <2>1. Len(s.delivered) = 0
    BY <1>2
  <2>2. /\ Len(Passed(s)) = Len(s.delivered) + Len(s.queue)
        /\ DOMAIN Passed(s) = 1 .. Len(Passed(s))
        /\ \A j \in DOMAIN Passed(s) : Passed(s)[j] \in Held(s)
    BY <1>2, PassedProperties
  <2> QED
    BY <1>2, <2>1, <2>2
<1>7. InOrder(s)
  BY <1>6 DEF InOrder
<1>8. Straight(s, u)
  BY <1>2, <1>5, <1>7 DEF Straight
<1>9. Forked(s)
  <2>1. Passed(s)[1] = u /\ Passed(s) # <<>>
    BY <1>5, <1>6
  <2> QED
    BY <1>5, <2>1 DEF Forked, Marker
<1> QED
  BY <1>2, <1>5, <1>8, <1>9 DEF s, e

LEMMA ListsFields ==
    ASSUME BridgeTypeOK, NEW id \in Ids, NEW fork \in BOOLEAN, Lists(id, fork), StreamsMove
    PROVE  LET n == Len(streams) + 1  t == streams'[n] IN
           /\ n \in Nat \ {0} /\ n <= MaxStreams
           /\ DOMAIN streams = 1 .. Len(streams) /\ DOMAIN streams' = 1 .. n /\ Len(streams') = n
           /\ streams' \in Seq(Stream)
           /\ \A i \in DOMAIN streams : streams'[i] = streams[i] /\ origin'[i] = origin[i]
           /\ DOMAIN origin' = DOMAIN streams'
           /\ origin'[n] = [id |-> id, fork |-> fork]
           /\ table' = [table EXCEPT ![id] = n]
           /\ Len(t.queue) <= t.limit /\ t.limit = IF fork THEN BranchLimit ELSE MaxPending
           /\ ~t.closed /\ Held(t) \subseteq {published + 1}
           /\ Held(t) # {} => published' = published + 1
           /\ Straight(t, published') /\ (fork => Forked(t))
<1> DEFINE n == Len(streams) + 1
           o == [id |-> id, fork |-> fork]
<1>1. /\ streams \in Seq(Stream) /\ Len(streams) \in Nat /\ MaxStreams \in Nat
      /\ DOMAIN streams = 1 .. Len(streams)
      /\ published \in Nat /\ MaxUpdates \in Nat /\ MaxPending \in Nat \ {0} /\ BranchLimit \in Nat \ {0}
      /\ BranchLimit = 2
      /\ origin \in Seq([id: Ids, fork: BOOLEAN]) /\ Len(origin) = Len(streams)
  BY Constants, LenProperties DEF BridgeTypeOK, StreamTypeOK, BranchLimit
<1>2. /\ Len(streams) < MaxStreams
      /\ table' = [table EXCEPT ![id] = n] /\ origin' = Append(origin, o)
  BY DEF Lists
<1>3. PICK s \in Stream :
        /\ streams' = Append(streams, s)
        /\ IF fork
           THEN s = WithUpdate(NewStream(BranchLimit), published + 1) /\ published' = published + 1
           ELSE s = NewStream(MaxPending)
  BY DEF Lists
<1>4. /\ streams' \in Seq(Stream) /\ Len(streams') = n
      /\ \A i \in 1 .. Len(streams) : streams'[i] = streams[i]
      /\ streams'[n] = s /\ DOMAIN streams' = 1 .. n
  BY <1>1, <1>3, AppendProperties, LenProperties
<1>5. /\ DOMAIN origin' = 1 .. n /\ origin'[n] = o
      /\ \A i \in 1 .. Len(streams) : origin'[i] = origin[i]
  <2>1. o \in [id: Ids, fork: BOOLEAN]
    OBVIOUS
  <2> HIDE DEF o
  <2> QED
    BY <1>1, <1>2, <2>1, AppendProperties, LenProperties
<1>6. /\ Len(s.queue) <= s.limit /\ s.limit = IF fork THEN BranchLimit ELSE MaxPending
      /\ ~s.closed /\ Held(s) \subseteq {published + 1}
      /\ Held(s) # {} => published' = published + 1
      /\ Straight(s, published') /\ (fork => Forked(s))
  <2>1. CASE fork
    <3>1. s = WithUpdate(NewStream(BranchLimit), published + 1) /\ published' = published + 1
      BY <1>3, <2>1
    <3>2. published + 1 \in Updates /\ published + 1 \in Nat \ {0}
      BY <1>1, <3>1 DEF StreamsMove, Updates
    <3>3. /\ Held(s) = {published + 1} /\ ~s.closed /\ s.limit = BranchLimit /\ Len(s.queue) = 1
          /\ Straight(s, published + 1) /\ Forked(s)
      BY <1>1, <3>1, <3>2, ForkStream
    <3>4. Straight(s, published')
      BY <3>1, <3>3
    <3>5. Len(s.queue) <= s.limit /\ s.limit = IF fork THEN BranchLimit ELSE MaxPending
      BY <1>1, <2>1, <3>3
    <3> QED
      BY <3>1, <3>3, <3>4, <3>5
  <2>2. CASE ~fork
    <3>1. s = NewStream(MaxPending) /\ published' \in Nat
      BY <1>1, <1>3, <2>2 DEF StreamsMove
    <3>2. /\ Held(s) = {} /\ ~s.closed /\ Straight(s, published')
          /\ Len(s.queue) = 0 /\ s.limit = MaxPending
      BY <1>1, <3>1, EmptyStream, NewStreamType
    <3> QED
      BY <1>1, <2>2, <3>2
  <2> QED
    BY <2>1, <2>2
<1> QED
  BY <1>1, <1>2, <1>4, <1>5, <1>6

LEMMA BridgeTypeKept ==
    ASSUME BridgeTypeOK, [BridgeNext]_bridgeVars
    PROVE  BridgeTypeOK'
<1>1. /\ streams \in Seq(Stream) /\ Len(streams) \in Nat /\ Len(streams) <= MaxStreams
      /\ DOMAIN streams = 1 .. Len(streams) /\ MaxStreams \in Nat /\ MaxUpdates \in Nat
      /\ published \in Nat /\ table \in [Ids -> 0 .. Len(streams)]
      /\ origin \in Seq([id: Ids, fork: BOOLEAN]) /\ Len(origin) = Len(streams)
      /\ \A i \in DOMAIN streams :
           streams[i].limit = IF origin[i].fork THEN BranchLimit ELSE MaxPending
  BY Constants, LenProperties DEF BridgeTypeOK, StreamTypeOK
<1>2. /\ StreamsMove
      /\ Carries \/ \E id \in Ids, fork \in BOOLEAN : Lists(id, fork)
  BY BridgeMoves
<1>3. published' \in 0 .. MaxUpdates
  BY <1>1, <1>2 DEF StreamsMove
<1>4. \A i \in DOMAIN streams :
        /\ Len(streams'[i].queue) <= streams'[i].limit /\ streams'[i].limit = streams[i].limit
  BY <1>2 DEF StreamsMove, Moved
<1>5. CASE Carries
  <2>1. /\ streams' \in Seq(Stream) /\ Len(streams') = Len(streams)
        /\ DOMAIN streams' = DOMAIN streams /\ origin' = origin
    BY <1>1, <1>5, LenProperties DEF Carries
  <2>2. table' \in [Ids -> 0 .. Len(streams)]
    BY <1>1, <1>5 DEF Carries
  <2> QED
    BY <1>1, <1>3, <1>4, <2>1, <2>2 DEF BridgeTypeOK, StreamTypeOK
<1>6. ASSUME NEW id \in Ids, NEW fork \in BOOLEAN, Lists(id, fork) PROVE BridgeTypeOK'
  <2> DEFINE n == Len(streams) + 1
             t == streams'[n]
  <2>1. /\ n \in Nat \ {0} /\ n <= MaxStreams
        /\ DOMAIN streams' = 1 .. n /\ Len(streams') = n /\ streams' \in Seq(Stream)
        /\ \A i \in DOMAIN streams : streams'[i] = streams[i] /\ origin'[i] = origin[i]
        /\ origin'[n] = [id |-> id, fork |-> fork]
        /\ table' = [table EXCEPT ![id] = n]
        /\ Len(t.queue) <= t.limit /\ t.limit = IF fork THEN BranchLimit ELSE MaxPending
    BY <1>2, <1>6, ListsFields
  <2>2. origin' \in Seq([id: Ids, fork: BOOLEAN]) /\ Len(origin') = n
    <3>1. origin' = Append(origin, [id |-> id, fork |-> fork])
      BY <1>6 DEF Lists
    <3>2. [id |-> id, fork |-> fork] \in [id: Ids, fork: BOOLEAN]
      OBVIOUS
    <3> QED
      BY <1>1, <3>1, <3>2, AppendProperties
  <2>3. table' \in [Ids -> 0 .. n]
    BY <1>1, <2>1
  <2>4. ASSUME NEW i \in 1 .. n
        PROVE  /\ Len(streams'[i].queue) <= streams'[i].limit
               /\ streams'[i].limit = IF origin'[i].fork THEN BranchLimit ELSE MaxPending
    <3>1. CASE i = n
      BY <2>1, <3>1
    <3>2. CASE i # n
      <4>1. i \in DOMAIN streams
        BY <1>1, <3>2
      <4> QED
        BY <1>1, <1>4, <2>1, <4>1
    <3> QED
      BY <3>1, <3>2
  <2> HIDE DEF n, t
  <2> QED
    BY <1>3, <2>1, <2>2, <2>3, <2>4 DEF BridgeTypeOK, StreamTypeOK
<1> QED
  BY <1>2, <1>5, <1>6

\* The first item of a branch's stream stays the first.
LEMMA ForkedKept ==
    ASSUME NEW i \in DOMAIN streams, streams[i] \in Stream, Moved(i),
           published \in Nat, Straight(streams[i], published), Forked(streams[i])
    PROVE  Forked(streams'[i])
<1> DEFINE s == streams[i]
           t == streams'[i]
<1>1. /\ s \in Stream /\ t \in Stream /\ Held(s) \subseteq 0 .. published
      /\ Passed(s) # <<>> /\ Passed(s)[1] # Marker
      /\ \A u \in Held(s) \ {Marker} : Passed(s)[1] <= u
  BY DEF Moved, Straight, Forked
<1>2. Passed(s) \in Seq(Items) /\ 1 \in 1 .. Len(Passed(s)) /\ Passed(s)[1] \in Held(s)
      /\ DOMAIN Passed(s) = 1 .. Len(Passed(s)) /\ Len(Passed(s)) \in Nat
  <2>1. /\ Passed(s) \in Seq(Items) /\ DOMAIN Passed(s) = 1 .. Len(Passed(s))
        /\ Len(Passed(s)) \in Nat
        /\ \A j \in DOMAIN Passed(s) : Passed(s)[j] \in Held(s)
    BY <1>1, PassedProperties
  <2>2. Len(Passed(s)) \in Nat \ {0}
    BY <1>1, <2>1, EmptySeq
  <2> QED
    BY <2>1, <2>2
<1>3. Passed(t) # <<>> /\ Passed(t)[1] = Passed(s)[1]
  <2>1. CASE Passed(t) = Passed(s)
    BY <1>1, <2>1
  <2>2. ASSUME NEW x \in Items, Passed(t) = Append(Passed(s), x)
        PROVE  Passed(t) # <<>> /\ Passed(t)[1] = Passed(s)[1]
    BY <1>2, <2>2, AppendProperties
  <2>3. CASE /\ s.queue # <<>> /\ Head(s.queue) = Marker /\ t.queue = Tail(s.queue)
             /\ t.delivered = s.delivered
    <3>1. /\ Len(s.delivered) \in Nat /\ Len(t.queue) \in Nat
          /\ Len(Passed(t)) = Len(t.delivered) + Len(t.queue)
          /\ DOMAIN Passed(t) = 1 .. Len(Passed(t))
          /\ \A j \in DOMAIN Passed(s) :
               Passed(s)[j] = IF j <= Len(s.delivered) THEN s.delivered[j]
                                                       ELSE s.queue[j - Len(s.delivered)]
          /\ \A j \in DOMAIN Passed(t) :
               Passed(t)[j] = IF j <= Len(t.delivered) THEN t.delivered[j]
                                                       ELSE t.queue[j - Len(t.delivered)]
      BY <1>1, PassedProperties
    <3>2. Len(s.delivered) # 0
      <4>1. SUFFICES ASSUME Len(s.delivered) = 0 PROVE FALSE
        OBVIOUS
      <4>2. s.queue[1] = Marker
        <5>1. s.queue \in Seq(Items)
          BY <1>1, StreamFields
        <5> QED
          BY <2>3, <5>1, EmptySeq
      <4>3. Passed(s)[1] = s.queue[1 - 0]
        BY <1>2, <3>1, <4>1
      <4> QED
        BY <1>1, <4>2, <4>3
    <3>3. Passed(s)[1] = s.delivered[1]
      BY <1>2, <3>1, <3>2
    <3>4. 1 \in DOMAIN Passed(t) /\ Passed(t)[1] = t.delivered[1]
      <4>1. Len(t.delivered) \in Nat /\ Len(t.delivered) # 0
        BY <2>3, <3>1, <3>2
      <4>2. 1 \in DOMAIN Passed(t) /\ 1 <= Len(t.delivered)
        <5> DEFINE d == Len(t.delivered)
                   q == Len(t.queue)
                   p == Len(Passed(t))
        <5>1. d \in Nat /\ d # 0 /\ q \in Nat /\ p = d + q /\ DOMAIN Passed(t) = 1 .. p
          BY <3>1, <4>1
        <5> HIDE DEF d, q, p
        <5>2. 1 \in DOMAIN Passed(t) /\ 1 <= d
          BY <5>1
        <5> QED
          BY <5>2 DEF d
      <4> QED
        BY <3>1, <4>2
    <3> QED
      BY <2>3, <3>3, <3>4
  <2>4. \/ Passed(t) = Passed(s)
        \/ \E x \in Items : Passed(t) = Append(Passed(s), x)
        \/ /\ s.queue # <<>> /\ Head(s.queue) = Marker /\ t.queue = Tail(s.queue)
           /\ t.delivered = s.delivered
    BY <1>1, MovedPassed
  <2> QED
    BY <2>1, <2>2, <2>3, <2>4
<1>4. ASSUME NEW u \in Held(t) \ {Marker} PROVE Passed(s)[1] <= u
  <2>1. Comes(i, u)
    BY <1>1, MovedHeld
  <2>2. Passed(s)[1] \in 0 .. published
    BY <1>1, <1>2
  <2> QED
    BY <1>1, <2>1, <2>2 DEF Comes
<1> QED
  BY <1>1, <1>3, <1>4 DEF Forked

LEMMA FiledKept ==
    ASSUME BridgeTypeOK, Filed, [BridgeNext]_bridgeVars, BridgeTypeOK'
    PROVE  Filed'
<1>1. /\ streams \in Seq(Stream) /\ DOMAIN streams = 1 .. Len(streams) /\ Len(streams) \in Nat
      /\ table \in [Ids -> 0 .. Len(streams)]
      /\ \A i \in DOMAIN streams : streams[i] \in Stream
  BY LenProperties, ElementOfSeq DEF BridgeTypeOK, StreamTypeOK
<1>2. \A i \in DOMAIN streams : origin[i].id \in Ids
  <2>1. origin \in Seq([id: Ids, fork: BOOLEAN]) /\ Len(origin) = Len(streams)
    BY DEF BridgeTypeOK
  <2>2. ASSUME NEW i \in 1 .. Len(origin) PROVE origin[i] \in [id: Ids, fork: BOOLEAN]
    BY <2>1, ElementOfSeq
  <2> QED
    BY <1>1, <2>1, <2>2
<1>3. StreamsMove /\ (Carries \/ \E id \in Ids, fork \in BOOLEAN : Lists(id, fork))
  BY BridgeMoves
<1>4. \A i \in DOMAIN streams : streams[i].closed => streams'[i].closed
  BY <1>1, <1>3, MovedFields DEF StreamsMove
<1>5. CASE Carries
  <2>1. DOMAIN streams' = DOMAIN streams /\ origin' = origin
    BY <1>1, <1>5, LenProperties DEF Carries
  <2>2. CASE table' = table
    BY <1>1, <1>4, <2>1, <2>2 DEF Filed, Open
  <2>3. CASE \E id \in Ids : /\ Open(id) /\ streams'[table[id]].closed
                             /\ table' = [table EXCEPT ![id] = 0]
    <3>1. PICK id \in Ids : /\ Open(id) /\ streams'[table[id]].closed
                            /\ table' = [table EXCEPT ![id] = 0]
      BY <2>3
    <3>2. /\ table'[id] = 0
          /\ \A other \in Ids : other # id => table'[other] = table[other]
      BY <1>1, <3>1
    <3>3. ASSUME NEW i \in DOMAIN streams, table'[origin[i].id] # i PROVE streams'[i].closed
      <4>1. CASE origin[i].id = id
        <5>1. table[id] # i => streams[i].closed
          BY <4>1 DEF Filed
        <5> QED
          BY <1>4, <3>1, <5>1
      <4>2. CASE origin[i].id # id
        <5>1. table[origin[i].id] # i
          BY <1>2, <3>2, <3>3, <4>2
        <5> QED
          BY <1>4, <5>1 DEF Filed
      <4> QED
        BY <4>1, <4>2
    <3>4. ASSUME NEW other \in Ids, table'[other] # 0
          PROVE  origin[table'[other]].id = other
      <4>1. other # id /\ table'[other] = table[other]
        BY <3>2, <3>4
      <4> QED
        BY <3>4, <4>1 DEF Filed, Open
    <3> QED
      BY <2>1, <3>3, <3>4 DEF Filed, Open
  <2> QED
    BY <1>5, <2>2, <2>3 DEF Carries
<1>6. ASSUME NEW id \in Ids, NEW fork \in BOOLEAN, Lists(id, fork) PROVE Filed'
  <2> DEFINE n == Len(streams) + 1
  <2>1. /\ n \in Nat \ {0} /\ DOMAIN streams' = 1 .. n
        /\ \A i \in DOMAIN streams : streams'[i] = streams[i] /\ origin'[i] = origin[i]
        /\ origin'[n] = [id |-> id, fork |-> fork]
        /\ table' = [table EXCEPT ![id] = n]
    BY <1>3, <1>6, ListsFields
  <2>2. /\ table'[id] = n /\ table[id] = 0
        /\ \A other \in Ids : other # id => table'[other] = table[other]
    BY <1>1, <1>6, <2>1 DEF Lists, Open
  <2> HIDE DEF n
  <2>3. ASSUME NEW other \in Ids, table'[other] # 0 PROVE origin'[table'[other]].id = other
    <3>1. CASE other = id
      BY <2>1, <2>2, <3>1
    <3>2. CASE other # id
      <4>1. table'[other] = table[other] /\ table[other] \in DOMAIN streams
        BY <1>1, <2>2, <2>3, <3>2
      <4> QED
        BY <2>1, <2>3, <4>1 DEF Filed, Open
    <3> QED
      BY <3>1, <3>2
  <2>4. ASSUME NEW i \in DOMAIN streams', table'[origin'[i].id] # i PROVE streams'[i].closed
    <3>1. i # n
      BY <2>1, <2>2, <2>4
    <3>2. i \in DOMAIN streams
      BY <1>1, <2>1, <3>1 DEF n
    <3>3. table[origin[i].id] # i
      BY <1>1, <1>2, <2>1, <2>2, <2>4, <3>2
    <3> QED
      BY <1>4, <3>2, <3>3 DEF Filed
  <2> QED
    BY <2>3, <2>4 DEF Filed, Open
<1> QED
  BY <1>3, <1>5, <1>6

LEMMA LivesKept ==
    ASSUME BridgeInv, [BridgeNext]_bridgeVars, BridgeTypeOK'
    PROVE  Lives'
<1>1. /\ streams \in Seq(Stream) /\ DOMAIN streams = 1 .. Len(streams) /\ Len(streams) \in Nat
      /\ table \in [Ids -> 0 .. Len(streams)] /\ published \in Nat
      /\ \A i \in DOMAIN streams : streams[i] \in Stream
  BY LenProperties, ElementOfSeq DEF BridgeInv, BridgeTypeOK, StreamTypeOK
<1>2. StreamsMove /\ (Carries \/ \E id \in Ids, fork \in BOOLEAN : Lists(id, fork))
  BY BridgeMoves DEF BridgeInv
<1>3. ASSUME NEW i \in DOMAIN streams, NEW u \in Held(streams'[i]) \ {Marker}
      PROVE  \/ u \in Held(streams[i]) \ {Marker}
             \/ ~streams[i].closed /\ u = published + 1
  <2>1. Comes(i, u)
    BY <1>1, <1>2, MovedHeld DEF StreamsMove
  <2> QED
    BY <2>1 DEF Comes
<1>4. \A i \in DOMAIN streams : streams[i].closed => streams'[i].closed
  BY <1>1, <1>2, MovedFields DEF StreamsMove
<1>5. \A i \in DOMAIN streams : Held(streams[i]) \subseteq 0 .. published
  BY DEF BridgeInv, Straight
\* The streams there were
<1>6. ASSUME NEW i \in DOMAIN streams, NEW j \in DOMAIN streams, i < j, origin[i].id = origin[j].id
      PROVE  /\ streams'[i].closed
             /\ \A u \in Held(streams'[i]) \ {Marker}, v \in Held(streams'[j]) \ {Marker} : u < v
  <2>1. /\ streams[i].closed
        /\ \A u \in Held(streams[i]) \ {Marker}, v \in Held(streams[j]) \ {Marker} : u < v
    BY <1>6 DEF BridgeInv, Lives
  <2>2. ASSUME NEW u \in Held(streams'[i]) \ {Marker}, NEW v \in Held(streams'[j]) \ {Marker}
        PROVE  u < v
    <3>1. u \in Held(streams[i]) \ {Marker} /\ u \in 0 .. published
      BY <1>3, <1>5, <2>1
    <3>2. v \in Held(streams[j]) \ {Marker} \/ v = published + 1
      BY <1>3
    <3> QED
      BY <1>1, <2>1, <3>1, <3>2
  <2> QED
    BY <1>4, <2>1, <2>2
<1>7. CASE Carries
  <2>1. DOMAIN streams' = DOMAIN streams /\ origin' = origin
    BY <1>1, <1>7, LenProperties DEF Carries
  <2> QED
    BY <1>6, <2>1 DEF Lives
<1>8. ASSUME NEW id \in Ids, NEW fork \in BOOLEAN, Lists(id, fork) PROVE Lives'
  <2> DEFINE n == Len(streams) + 1
             t == streams'[n]
  <2>1. /\ n \in Nat \ {0} /\ DOMAIN streams' = 1 .. n
        /\ \A i \in DOMAIN streams : streams'[i] = streams[i] /\ origin'[i] = origin[i]
        /\ origin'[n] = [id |-> id, fork |-> fork]
        /\ Held(t) \subseteq {published + 1}
    BY <1>2, <1>8, ListsFields DEF BridgeInv
  <2>2. table[id] = 0
    BY <1>8 DEF Lists, Open
  <2>3. \A i \in DOMAIN streams : i < n /\ i # 0
    BY <1>1
  <2>4. \A i \in DOMAIN streams' : i = n \/ i \in DOMAIN streams
    BY <1>1, <2>1
  <2> HIDE DEF n
  <2>5. ASSUME NEW i \in DOMAIN streams', NEW j \in DOMAIN streams', i < j,
               origin'[i].id = origin'[j].id
        PROVE  /\ streams'[i].closed
               /\ \A u \in Held(streams'[i]) \ {Marker}, v \in Held(streams'[j]) \ {Marker} : u < v
    <3>1. i \in DOMAIN streams
      BY <2>1, <2>4, <2>5
    <3>2. CASE j \in DOMAIN streams
      <4>1. origin[i].id = origin[j].id
        BY <2>1, <2>5, <3>1, <3>2
      <4> QED
        BY <1>6, <2>5, <3>1, <3>2, <4>1
    <3>3. CASE j = n
      <4>1. origin[i].id = id
        BY <2>1, <2>5, <3>1, <3>3
      <4>2. streams[i].closed
        BY <2>2, <2>3, <3>1, <4>1 DEF BridgeInv, Filed
      <4>3. ASSUME NEW u \in Held(streams'[i]) \ {Marker}, NEW v \in Held(streams'[j]) \ {Marker}
            PROVE  u < v
        <5>1. u \in 0 .. published
          BY <1>5, <2>1, <3>1
        <5>2. v = published + 1
          BY <2>1, <3>3
        <5> QED
          BY <1>1, <5>1, <5>2
      <4> QED
        BY <1>4, <3>1, <4>2, <4>3
    <3> QED
      BY <2>4, <3>2, <3>3
  <2> QED
    BY <2>5 DEF Lives
<1> QED
  BY <1>2, <1>7, <1>8

LEMMA BridgeInvInit == ASSUME BridgeInit PROVE BridgeInv
<1>1. /\ streams = <<>> /\ published = 0 /\ origin = <<>> /\ table = [id \in Ids |-> 0]
      /\ Len(streams) = 0 /\ DOMAIN streams = {} /\ Len(origin) = 0
      /\ MaxStreams \in Nat /\ MaxUpdates \in Nat
  BY Constants DEF BridgeInit
<1>2. BridgeTypeOK
  <2>1. streams \in Seq(Stream) /\ origin \in Seq([id: Ids, fork: BOOLEAN])
    BY <1>1
  <2>2. table \in [Ids -> 0 .. Len(streams)]
    BY <1>1
  <2> QED
    BY <1>1, <2>1, <2>2 DEF BridgeTypeOK, StreamTypeOK
<1> QED
  BY <1>1, <1>2 DEF BridgeInv, Filed, Lives, Open

LEMMA BridgeInvStep == BridgeInv /\ [BridgeNext]_bridgeVars => BridgeInv'
<1> SUFFICES ASSUME BridgeInv, [BridgeNext]_bridgeVars PROVE BridgeInv'
  OBVIOUS
<1>1. BridgeTypeOK'
  BY BridgeTypeKept DEF BridgeInv
<1>2. Filed' /\ Lives'
  BY <1>1, FiledKept, LivesKept DEF BridgeInv
<1>3. /\ streams \in Seq(Stream) /\ DOMAIN streams = 1 .. Len(streams) /\ Len(streams) \in Nat
      /\ published \in Nat
      /\ \A i \in DOMAIN streams : streams[i] \in Stream
  BY LenProperties, ElementOfSeq DEF BridgeInv, BridgeTypeOK, StreamTypeOK
<1>4. StreamsMove /\ (Carries \/ \E id \in Ids, fork \in BOOLEAN : Lists(id, fork))
  BY BridgeMoves DEF BridgeInv
<1>5. ASSUME NEW i \in DOMAIN streams
      PROVE  /\ Straight(streams'[i], published')
             /\ origin[i].fork => Forked(streams'[i])
  <2>1. streams[i] \in Stream /\ Moved(i) /\ Straight(streams[i], published)
        /\ published' \in {published, published + 1}
    BY <1>3, <1>4 DEF StreamsMove, BridgeInv
  <2>2. Straight(streams'[i], published')
    BY <1>3, <2>1, StraightKept
  <2>3. origin[i].fork => Forked(streams'[i])
    BY <1>3, <2>1, ForkedKept DEF BridgeInv
  <2> QED
    BY <2>2, <2>3
<1>6. ASSUME NEW i \in DOMAIN streams'
      PROVE  /\ Straight(streams'[i], published')
             /\ origin'[i].fork => Forked(streams'[i])
  <2>1. CASE Carries
    <3>1. DOMAIN streams' = DOMAIN streams /\ origin' = origin
      BY <1>3, <2>1, LenProperties DEF Carries
    <3> QED
      BY <1>5, <3>1
  <2>2. ASSUME NEW id \in Ids, NEW fork \in BOOLEAN, Lists(id, fork)
        PROVE  /\ Straight(streams'[i], published')
               /\ origin'[i].fork => Forked(streams'[i])
    <3> DEFINE n == Len(streams) + 1
    <3>1. /\ DOMAIN streams' = 1 .. n
          /\ \A j \in DOMAIN streams : origin'[j] = origin[j]
          /\ origin'[n] = [id |-> id, fork |-> fork]
          /\ Straight(streams'[n], published') /\ (fork => Forked(streams'[n]))
      BY <1>4, <2>2, ListsFields DEF BridgeInv
    <3>2. CASE i = n
      BY <3>1, <3>2
    <3>3. CASE i # n
      <4>1. i \in DOMAIN streams
        BY <1>3, <3>1, <3>3
      <4> QED
        BY <1>5, <3>1, <4>1
    <3> QED
      BY <3>2, <3>3
  <2> QED
    BY <1>4, <2>1, <2>2
<1>7. \A i \in DOMAIN streams' : Straight(streams'[i], published')
  BY <1>6
<1>8. \A i \in DOMAIN streams' : origin'[i].fork => Forked(streams'[i])
  BY <1>6
<1>9. BridgeInv' = /\ BridgeTypeOK' /\ Filed' /\ Lives'
                   /\ \A i \in DOMAIN streams' : Straight(streams'[i], published')
                   /\ \A i \in DOMAIN streams' : origin'[i].fork => Forked(streams'[i])
  BY DEF BridgeInv, Straight, Held, Waits, InOrder, Passed, Forked
<1> QED
  BY <1>1, <1>2, <1>7, <1>8, <1>9

LEMMA BridgeInvariant == BridgeSpec => []BridgeInv
<1>1. BridgeInit => BridgeInv
  BY BridgeInvInit
<1> QED
  BY <1>1, BridgeInvStep, PTL DEF BridgeSpec

-----------------------------------------------------------------------------
(***************************************************************************)
(* The theorems                                                            *)
(***************************************************************************)

(***************************************************************************)
(* The queue of every stream stays within the limit its id's kind has, and *)
(* the table leads to streams that were constructed (vllm_bridge.py:16-60   *)
(* and 105-159).                                                           *)
(***************************************************************************)
THEOREM BridgeTypeCorrect == BridgeSpec => []BridgeTypeOK
<1>1. BridgeInv => BridgeTypeOK
  BY DEF BridgeInv
<1> QED
  BY <1>1, BridgeInvariant, PTL

(***************************************************************************)
(* The engine reads a session's updates in the order they were published,  *)
(* except those whose publisher had to wait for a slot: what publish_nowait*)
(* enqueues (vllm_bridge.py:32-35) is behind nothing newer, whatever the   *)
(* other publishers, the closing marker and the woken putters do.          *)
(***************************************************************************)
THEOREM OnlyWaitersFallBehind == BridgeSpec => []OnlyWaitersAreOvertaken
<1>1. BridgeInv => OnlyWaitersAreOvertaken
  <2> SUFFICES ASSUME BridgeInv, NEW s \in Range(streams),
                      NEW j \in DOMAIN s.delivered, NEW k \in DOMAIN s.delivered,
                      j < k, s.delivered[j] > s.delivered[k], s.delivered[k] \in s.direct
               PROVE  FALSE
    BY DEF OnlyWaitersAreOvertaken
  <2>1. s \in Stream /\ InOrder(s)
    <3>1. streams \in Seq(Stream) /\ DOMAIN streams = 1 .. Len(streams)
      BY LenProperties DEF BridgeInv, BridgeTypeOK, StreamTypeOK
    <3>2. PICK i \in DOMAIN streams : s = streams[i]
      BY DEF Range
    <3> QED
      BY <3>1, <3>2, ElementOfSeq DEF BridgeInv, Straight
  <2>2. /\ Len(s.delivered) \in Nat /\ Len(s.queue) \in Nat
        /\ Len(Passed(s)) = Len(s.delivered) + Len(s.queue)
        /\ DOMAIN Passed(s) = 1 .. Len(Passed(s))
        /\ \A i \in DOMAIN Passed(s) :
             Passed(s)[i] = IF i <= Len(s.delivered) THEN s.delivered[i]
                                                     ELSE s.queue[i - Len(s.delivered)]
    BY <2>1, PassedProperties
  <2>3. DOMAIN s.delivered = 1 .. Len(s.delivered) /\ s.delivered \in Seq(Nat)
    <3>1. s.delivered \in Seq(Updates) /\ Updates \subseteq Nat
      BY <2>1, StreamFields DEF Updates
    <3> QED
      BY <3>1, LenProperties, SeqMonotonic
  <2>4. ASSUME NEW i \in DOMAIN s.delivered
        PROVE  i \in DOMAIN Passed(s) /\ Passed(s)[i] = s.delivered[i] /\ s.delivered[i] \in Nat
    <3> DEFINE d == Len(s.delivered)
               q == Len(s.queue)
               p == Len(Passed(s))
    <3>1. d \in Nat /\ q \in Nat /\ p = d + q /\ i \in 1 .. d /\ DOMAIN Passed(s) = 1 .. p
      BY <2>2, <2>3
    <3>2. s.delivered[i] \in Nat
      BY <2>3, <3>1, ElementOfSeq
    <3> HIDE DEF d, q, p
    <3>3. i \in DOMAIN Passed(s) /\ i <= d
      BY <3>1
    <3> QED
      BY <2>2, <3>2, <3>3 DEF d
  <2>5. s.delivered[j] <= s.delivered[k]
    BY <2>1, <2>4 DEF InOrder
  <2> QED
    BY <2>4, <2>5
<1> QED
  BY <1>1, BridgeInvariant, PTL

(***************************************************************************)
(* No open stream is lost: the ones the table of VLLMRevisionBridge no     *)
(* longer leads to are closed, and two ids never share a stream, however   *)
(* sessions and branches are opened, forked and closed                     *)
(* (vllm_bridge.py:111-159).                                               *)
(***************************************************************************)
THEOREM LostStreamsAreClosed == BridgeSpec => []UnlistedIsClosed
<1>1. BridgeInv => UnlistedIsClosed
  BY DEF BridgeInv, Filed, UnlistedIsClosed, Open
<1> QED
  BY <1>1, BridgeInvariant, PTL

(***************************************************************************)
(* Every update an earlier stream of an id accepted was published before   *)
(* every update a later one did, also when a holder of the earlier one     *)
(* goes on publishing (vllm_bridge.py:111-136 and 157-159). The order in   *)
(* which the engine reads two streams is not part of it.                   *)
(***************************************************************************)
THEOREM EarlierLivesAreOlder == BridgeSpec => []LivesAreSeparate
<1>1. BridgeInv => LivesAreSeparate
  <2> SUFFICES ASSUME BridgeInv PROVE LivesAreSeparate
    OBVIOUS
  <2>1. \A i \in DOMAIN streams : streams[i] \in Stream
    BY LenProperties, ElementOfSeq DEF BridgeInv, BridgeTypeOK, StreamTypeOK
  <2>2. \A i \in DOMAIN streams : Accepted(i) = Held(streams[i]) \ {Marker}
    BY <2>1, AcceptedIsHeld
  <2> QED
    BY <2>2 DEF BridgeInv, Lives, LivesAreSeparate
<1> QED
  BY <1>1, BridgeInvariant, PTL

(***************************************************************************)
(* What the engine reads first of a branch is its fork request             *)
(* (vllm_bridge.py:138-155), whoever updates the branch and however it is  *)
(* closed.                                                                 *)
(***************************************************************************)
THEOREM BranchesStartWithTheirFork == BridgeSpec => []ForkComesFirst
<1>1. BridgeInv => ForkComesFirst
  <2> SUFFICES ASSUME BridgeInv, NEW i \in DOMAIN streams, origin[i].fork
               PROVE  /\ Passed(streams[i]) # <<>>
                      /\ \A u \in Accepted(i) : Head(Passed(streams[i])) <= u
    BY DEF ForkComesFirst, Passed
  <2>1. streams[i] \in Stream /\ Forked(streams[i])
    BY LenProperties, ElementOfSeq DEF BridgeInv, BridgeTypeOK, StreamTypeOK
  <2>2. Accepted(i) = Held(streams[i]) \ {Marker} /\ Passed(streams[i]) \in Seq(Items)
    BY <2>1, AcceptedIsHeld, PassedProperties
  <2>3. Head(Passed(streams[i])) = Passed(streams[i])[1]
    BY <2>1, <2>2 DEF Forked
  <2> QED
    BY <2>1, <2>2, <2>3 DEF Forked
<1> QED
  BY <1>1, BridgeInvariant, PTL

=============================================================================
