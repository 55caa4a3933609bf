------------------------- MODULE BridgePumpProofs --------------------------
(***************************************************************************)
(* Proofs about BridgePump for any capacity, any number of chunks and any  *)
(* limits: its types, that no tick is stale, that a text which waits is    *)
(* timed, what the room has been shown, and the count of the indicator.    *)
(***************************************************************************)
EXTENDS BridgePump, FiniteSetTheorems, TLAPS

(* Where the goroutines of a stream are, and what that says of its chunks  *)
(* and of the indicator.                                                   *)
PlaceInv(s) ==
  /\ reader[s] = "send" => put[s] < read[s]
  /\ then[s] = "return" => \/ pc[s] \in {"send", "end", "done"}
                           \/ pc[s] = "typing" /\ ~call[s]
  /\ pc[s] = "typing" => typing[s] = call[s]
  /\ pc[s] = "done" => ~typing[s]

TickInv(s) ==
  (idle[s] # "off" => idleOn[s]) /\ (hard[s] # "off" => hardOn[s])

(* What the batch shows and the room has not been told of.                 *)
Batch(s) == Visible(s, flushed[s] + 1, took[s])

(* A batch shows something only while its pump gathers, with the timer on  *)
(* unless SetTyping is still to return.                                    *)
TimedInv(s) ==
  Batch(s) # {} =>
    \/ pc[s] = "typing" /\ call[s]
    \/ pc[s] \in {"select", "answer"} /\ idle[s] # "off"

(* A pump that will go on has sent its last payload, or is about to, and   *)
(* on stdout that shows all that was flushed, if that is anything.         *)
Flushed(s) == Picture(s, 1, flushed[s])
ShownInv(s) ==
  then[s] = "select" =>
    /\ pc[s] # "send" => room[s] = lastSent[s]
    /\ s = "stdout" /\ Flushed(s) # {} => lastSent[s] = Flushed(s)

StreamInv(s) == PlaceInv(s) /\ TickInv(s) /\ TimedInv(s) /\ ShownInv(s)

(* typingRefCount is the number of pumps that hold output back; whoever    *)
(* has made the indicator show is counted, or takes it back.               *)
TypingCounted == ref = Cardinality({s \in Streams : typing[s]})
Keeps(s) == typing[s] \/ (pc[s] = "typing" /\ ~call[s])
IndicatorInv ==
  /\ TypingCounted
  /\ shown => fails > 0 \/ ctxDone \/ \E s \in Streams : Keeps(s)

PumpInv == TypeOK /\ IndicatorInv /\ \A s \in Streams : StreamInv(s)

-----------------------------------------------------------------------------
(* The bounds are numbers, and there are at most two streams.              *)
LEMMA Bounds ==
  /\ ChanCap \in Nat /\ ChanCap > 0
  /\ MaxChunks \in Nat /\ MaxFails \in Nat
  /\ IsFiniteSet(Streams)
<1>1. IsFiniteSet({"stdout"} \cup {"stderr"})
  BY FS_Singleton, FS_AddElement
<1>2. Streams \in SUBSET ({"stdout"} \cup {"stderr"})
  BY StreamsAssumption
<1>3. IsFiniteSet(Streams)
  BY <1>1, <1>2, FS_Subset
<1> QED
  BY <1>3, ChanCapAssumption, BoundsAssumption

(* No chunks show nothing.                                                 *)
LEMMA VisibleNone ==
  ASSUME NEW s, NEW b \in Nat
  PROVE  Visible(s, b + 1, b) = {}
BY DEF Visible

(* A chunk that is no text shows nothing.                                  *)
LEMMA VisibleNoMore ==
  ASSUME NEW s, NEW a \in Nat, NEW b \in Nat, out[s][b + 1] \notin Texts
  PROVE  Visible(s, a, b + 1) \subseteq Visible(s, a, b)
BY DEF Visible

(* The lines of a picture are numbered from 1, at most as many as chunks.  *)
LEMMA PictureType ==
  ASSUME CountsOK, NEW s \in Streams, NEW a \in Nat, a > 0,
         NEW b \in Nat, b <= took[s]
  PROVE  Picture(s, a, b) \subseteq Index \X Texts
<1> DEFINE V == Visible(s, a, b)
<1>1. took[s] \in Nat /\ took[s] <= MaxChunks /\ b <= MaxChunks
  BY Bounds DEF CountsOK
<1>2. V \subseteq 1 .. b /\ \A n \in V : out[s][n] \in Texts
  BY DEF Visible
<1>3. ASSUME NEW n \in V
      PROVE  Cardinality({m \in V : m <= n}) \in Index
  <2> DEFINE W == {m \in V : m <= n}
  <2>1. W \in SUBSET (1 .. b) /\ n \in W
    BY <1>2
  <2>2. IsFiniteSet(1 .. b) /\ Cardinality(1 .. b) = b
    BY FS_Interval
  <2> HIDE DEF W
  <2>3. IsFiniteSet(W) /\ Cardinality(W) <= b
    BY <2>1, <2>2, FS_Subset
  <2>4. Cardinality(W) \in Nat /\ Cardinality(W) # 0
    BY <2>1, <2>3, FS_CardinalityType, FS_EmptySet
  <2>5. Cardinality(W) \in Index
    BY <1>1, <2>3, <2>4, Bounds DEF Index
  <2> QED
    BY <2>5 DEF W
<1>4. \A n \in V : out[s][n] \in Texts
  BY <1>2
<1>5. Picture(s, a, b)
        = {<<Cardinality({m \in V : m <= n}), out[s][n]>> : n \in V}
  BY Zenon DEF Picture
<1> HIDE DEF V
<1>6. ASSUME NEW p \in Picture(s, a, b) PROVE p \in Index \X Texts
  <2>1. PICK n \in V : p = <<Cardinality({m \in V : m <= n}), out[s][n]>>
    BY <1>5
  <2> QED
    BY <1>3, <1>4, <2>1
<1> QED
  BY <1>6

-----------------------------------------------------------------------------
(* What a step of one stream leaves alone.                                 *)
Own(t) ==
  <<out[t], reader[t], read[t], put[t], took[t], flushed[t], lastSent[t],
    idle[t], idleOn[t], hard[t], hardOn[t], typing[t], pc[t], then[t],
    call[t], room[t]>>

LEMMA SamePicture ==
  ASSUME NEW t, UNCHANGED <<out[t], took[t], flushed[t]>>
  PROVE  Batch(t)' = Batch(t) /\ Flushed(t)' = Flushed(t)
BY DEF Batch, Flushed, Picture, Visible

LEMMA Framed ==
  ASSUME NEW t, StreamInv(t), UNCHANGED Own(t)
  PROVE  StreamInv(t)'
<1>1. PlaceInv(t)' /\ TickInv(t)'
  BY DEF Own, StreamInv, PlaceInv, TickInv
<1>2. Batch(t)' = Batch(t) /\ Flushed(t)' = Flushed(t)
  BY SamePicture DEF Own
<1>3. TimedInv(t)' /\ ShownInv(t)'
  BY <1>2 DEF Own, StreamInv, TimedInv, ShownInv
<1> QED
  BY <1>1, <1>3 DEF StreamInv

(* The indicator is nobody's business in a step that calls no SetTyping.   *)
LEMMA IndicatorFramed ==
  ASSUME PumpInv, UNCHANGED <<typing, ref, shown>>,
         ctxDone => ctxDone', fails > 0 => fails' > 0,
         \A t \in Streams : pc[t] # "typing" \/ UNCHANGED <<pc[t], call[t]>>
  PROVE  IndicatorInv'
<1>1. TypingCounted'
  BY Zenon DEF PumpInv, IndicatorInv, TypingCounted
<1>2. \A t \in Streams : Keeps(t) => Keeps(t)'
  BY DEF Keeps
<1>3. shown' => fails' > 0 \/ ctxDone' \/ \E t \in Streams : Keeps(t)'
  BY <1>2 DEF PumpInv, IndicatorInv
<1> QED
  BY <1>1, <1>3 DEF IndicatorInv

-----------------------------------------------------------------------------
(* Initially nothing was written.                                          *)
LEMMA InitInv == Init => PumpInv
<1> SUFFICES ASSUME Init PROVE PumpInv
  OBVIOUS
<1>1. TypeOK
  <2>1. CountsOK
    <3>1. out \in [Streams -> Seq(Chunks)] /\ \A s \in Streams : Len(out[s]) = 0
      BY DEF Init, All
    <3> QED
      BY <3>1, Bounds DEF Init, All, CountsOK
  <2>2. 0 \in 0 .. Cardinality(Streams)
    BY Bounds, FS_CardinalityType
  <2>3. TimersOK /\ PlacesOK /\ RoomOK
    BY <2>2 DEF Init, All, TimersOK, PlacesOK, RoomOK
  <2>4. ended \in BOOLEAN /\ closed \in BOOLEAN /\ ctxDone \in BOOLEAN
    BY Zenon DEF Init
  <2>5. fails \in 0 .. MaxFails
    <3>1. fails = 0
      BY Zenon DEF Init
    <3> QED
      BY <3>1, Bounds
  <2> QED
    BY <2>1, <2>3, <2>4, <2>5 DEF TypeOK
<1>2. IndicatorInv
  <2>1. {s \in Streams : typing[s]} = {}
    BY DEF Init, All
  <2> QED
    BY <2>1, FS_EmptySet DEF Init, IndicatorInv, TypingCounted
<1>3. ASSUME NEW s \in Streams PROVE StreamInv(s)
  <2>1. Batch(s) = {} /\ Flushed(s) = {}
    <3>1. Visible(s, 1, 0) = {} /\ flushed[s] = 0 /\ took[s] = 0
      BY DEF Init, All, Visible
    <3> QED
      BY <3>1 DEF Batch, Flushed, Picture
  <2> QED
    BY <2>1 DEF Init, All, StreamInv, PlaceInv, TickInv, TimedInv, ShownInv
<1> QED
  BY <1>1, <1>2, <1>3 DEF PumpInv

-----------------------------------------------------------------------------
(* The steps of the worker and of the rest of the governor.                *)
LEMMA OutsideInv == PumpInv /\ (End \/ WaitCloses \/ Stop) => PumpInv'
<1> SUFFICES ASSUME PumpInv, End \/ WaitCloses \/ Stop PROVE PumpInv'
  OBVIOUS
<1> USE DEF End, WaitCloses, Stop, reading, batching, timers, indicator
<1>1. TypeOK'
  BY DEF PumpInv, TypeOK, CountsOK, TimersOK, PlacesOK, RoomOK, Chunks, Index
<1>2. IndicatorInv'
  BY IndicatorFramed
<1>3. \A s \in Streams : StreamInv(s)'
  BY Framed DEF PumpInv, Own
<1> QED
  BY <1>1, <1>2, <1>3 DEF PumpInv

(* What the worker writes comes after all that was taken.                  *)
LEMMA WriteInv ==
  ASSUME PumpInv, NEW s \in Streams, NEW chunk \in Chunks, Write(s, chunk)
  PROVE  PumpInv'
<1> USE DEF Write, reading, batching, timers, indicator
<1>1. /\ out'[s] = Append(out[s], chunk)
      /\ Len(out'[s]) = Len(out[s]) + 1
      /\ Len(out[s]) \in Nat
      /\ \A n \in 1 .. Len(out[s]) : out'[s][n] = out[s][n]
      /\ out' \in [Streams -> Seq(Chunks)]
      /\ \A t \in Streams \ {s} : out'[t] = out[t]
  BY DEF PumpInv, TypeOK, CountsOK
<1>2. TypeOK'
  <2>1. CountsOK'
    BY <1>1, Bounds DEF PumpInv, TypeOK, CountsOK, Chunks
  <2> QED
    BY <2>1 DEF PumpInv, TypeOK, TimersOK, PlacesOK, RoomOK, Index
<1>3. IndicatorInv'
  BY IndicatorFramed
<1>4. StreamInv(s)'
  <2>1. /\ took[s] \in Nat /\ took[s] <= Len(out[s])
        /\ flushed[s] \in Nat /\ flushed[s] <= took[s]
    BY <1>1 DEF PumpInv, TypeOK, CountsOK
  <2>2. ASSUME NEW a \in Nat, a > 0, NEW b \in Nat, b <= took[s]
        PROVE  Visible(s, a, b)' = Visible(s, a, b)
    <3>1. \A n \in a .. b : n \in 1 .. Len(out[s]) /\ out'[s][n] = out[s][n]
      BY <1>1, <2>1, <2>2
    <3>2. \A n \in a .. b : \A k \in n + 1 .. b : out'[s][k] = out[s][k]
      BY <3>1, <2>2
    <3> QED
      BY <3>1, <3>2 DEF Visible
  <2>3. Batch(s)' = Batch(s) /\ Flushed(s)' = Flushed(s)
    <3>1. Visible(s, 1, flushed[s])' = Visible(s, 1, flushed[s])
      <4>1. flushed'[s] = flushed[s]
        OBVIOUS
      <4>2. \A n \in 1 .. flushed[s] :
              n \in 1 .. Len(out[s]) /\ out'[s][n] = out[s][n]
        BY <1>1, <2>1
      <4>3. \A n \in 1 .. flushed[s] : \A k \in n + 1 .. flushed[s] :
              out'[s][k] = out[s][k]
        BY <4>2, <2>1
      <4> QED
        BY <4>1, <4>2, <4>3 DEF Visible
    <3>2. \A n \in Visible(s, 1, flushed[s]) : out'[s][n] = out[s][n]
      BY <1>1, <2>1 DEF Visible
    <3>3. Picture(s, 1, flushed[s])' = Picture(s, 1, flushed[s])
      BY <3>1, <3>2 DEF Picture
    <3> QED
      BY <2>1, <2>2, <3>3 DEF Batch, Flushed
  <2> QED
    BY <2>3 DEF PumpInv, StreamInv, PlaceInv, TickInv, TimedInv, ShownInv
<1>5. ASSUME NEW t \in Streams \ {s} PROVE StreamInv(t)'
  BY <1>1, Framed DEF PumpInv, Own
<1> QED
  BY <1>2, <1>3, <1>4, <1>5 DEF PumpInv

-----------------------------------------------------------------------------
(* The steps of the reading goroutine.                                     *)
LEMMA ReaderCounts ==
  ASSUME PumpInv, NEW s \in Streams, Reader(s)
  PROVE  CountsOK'
<1>1. /\ UNCHANGED <<out, took, flushed>>
      /\ put' \in [Streams -> Nat] /\ read' \in [Streams -> Nat]
      /\ \A t \in Streams \ {s} : put'[t] = put[t] /\ read'[t] = read[t]
  <2>1. put \in [Streams -> Nat] /\ read \in [Streams -> Nat]
    BY DEF PumpInv, TypeOK, CountsOK
  <2> USE <2>1 DEF world, batching
  <2>2. CASE Read(s)
    BY <2>2 DEF Read
  <2>3. CASE Put(s)
    BY <2>3 DEF Put
  <2>4. CASE Report(s)
    BY <2>4 DEF Report
  <2> QED
    BY <2>2, <2>3, <2>4 DEF Reader
<1>2. /\ put'[s] >= put[s] /\ put'[s] <= read'[s] /\ read'[s] <= Len(out[s])
      /\ put'[s] - took[s] <= ChanCap
  <2>1. Len(out[s]) \in Nat
    BY DEF PumpInv, TypeOK, CountsOK
  <2>2. CASE Read(s)
    BY <2>1, <2>2 DEF PumpInv, TypeOK, CountsOK, Read
  <2>3. CASE Put(s)
    BY <2>1, <2>3, Bounds
    DEF PumpInv, TypeOK, CountsOK, StreamInv, PlaceInv, Put
  <2>4. CASE Report(s)
    BY <2>4 DEF PumpInv, TypeOK, CountsOK, Report
  <2> QED
    BY <2>2, <2>3, <2>4 DEF Reader
<1>3. ASSUME NEW t \in Streams
      PROVE  /\ Len(out[t]) <= MaxChunks
             /\ flushed[t] <= took[t] /\ took[t] <= put'[t]
             /\ put'[t] <= read'[t] /\ read'[t] <= Len(out[t])
             /\ put'[t] - took[t] <= ChanCap
  <2>1. Len(out[t]) \in Nat /\ read[t] \in Nat /\ put[t] \in Nat
        /\ took[t] \in Nat /\ flushed[t] \in Nat
        /\ put'[t] \in Nat /\ read'[t] \in Nat
    BY <1>1 DEF PumpInv, TypeOK, CountsOK
  <2>2. CASE t = s
    BY <1>2, <2>1, <2>2, Bounds DEF PumpInv, TypeOK, CountsOK
  <2>3. CASE t # s
    BY <1>1, <2>3 DEF PumpInv, TypeOK, CountsOK
  <2> QED
    BY <2>2, <2>3
<1> QED
  BY <1>1, <1>3 DEF PumpInv, TypeOK, CountsOK, Chunks

LEMMA ReaderInv ==
  ASSUME PumpInv, NEW s \in Streams, Reader(s)
  PROVE  PumpInv'
<1> USE DEF world, batching, timers, indicator, Reader, Read, Put, Report
<1>1. CountsOK'
  BY ReaderCounts
<1>2. TypeOK'
  BY <1>1 DEF PumpInv, TypeOK, TimersOK, PlacesOK, RoomOK, Index
<1>3. IndicatorInv'
  BY IndicatorFramed
<1>4. StreamInv(s)'
  <2>1. PlaceInv(s)'
    BY DEF PumpInv, TypeOK, CountsOK, PlacesOK, StreamInv, PlaceInv
  <2>2. Batch(s)' = Batch(s) /\ Flushed(s)' = Flushed(s)
    BY SamePicture
  <2> QED
    BY <2>1, <2>2 DEF PumpInv, StreamInv, TickInv, TimedInv, ShownInv
<1>5. ASSUME NEW t \in Streams \ {s} PROVE StreamInv(t)'
  <2>1. UNCHANGED Own(t)
    BY DEF PumpInv, TypeOK, CountsOK, PlacesOK, Own
  <2> QED
    BY <2>1, Framed DEF PumpInv
<1> QED
  BY <1>2, <1>3, <1>4, <1>5 DEF PumpInv

-----------------------------------------------------------------------------
(* The timers fire.                                                        *)
LEMMA TickerInv ==
  ASSUME PumpInv, NEW s \in Streams, IdleTick(s) \/ HardTick(s)
  PROVE  PumpInv'
<1> USE DEF IdleTick, HardTick, world, reading, batching, indicator
<1>1. TypeOK'
  <2>1. CountsOK'
    BY DEF PumpInv, TypeOK, CountsOK, Chunks
  <2>2. TimersOK'
    BY DEF PumpInv, TypeOK, TimersOK
  <2>3. PlacesOK' /\ RoomOK'
    BY DEF PumpInv, TypeOK, PlacesOK, RoomOK, Index
  <2> QED
    BY <2>1, <2>2, <2>3 DEF PumpInv, TypeOK
<1>2. IndicatorInv'
  BY IndicatorFramed
<1>3. StreamInv(s)'
  <2>1. Batch(s)' = Batch(s) /\ Flushed(s)' = Flushed(s)
    BY SamePicture
  <2>2. PlaceInv(s)' /\ ShownInv(s)'
    BY <2>1 DEF PumpInv, StreamInv, PlaceInv, ShownInv
  <2>3. TickInv(s)' /\ TimedInv(s)'
    BY <2>1 DEF PumpInv, TypeOK, TimersOK, StreamInv, TickInv, TimedInv
  <2> QED
    BY <2>2, <2>3 DEF StreamInv
<1>4. ASSUME NEW t \in Streams \ {s} PROVE StreamInv(t)'
  <2>1. UNCHANGED Own(t)
    BY DEF PumpInv, TypeOK, TimersOK, Own
  <2> QED
    BY <2>1, Framed DEF PumpInv
<1> QED
  BY <1>1, <1>2, <1>3, <1>4 DEF PumpInv

-----------------------------------------------------------------------------
(* The count of the indicator, when a pump is counted in and out.          *)
LEMMA CountedIn ==
  ASSUME PumpInv, NEW s \in Streams,
         typing' = [typing EXCEPT ![s] = TRUE],
         ref' = IF typing[s] THEN ref ELSE ref + 1
  PROVE  /\ typing' \in [Streams -> BOOLEAN] /\ TypingCounted'
         /\ ref' \in 0 .. Cardinality(Streams)
<1> DEFINE On == {t \in Streams : typing[t]}
           On2 == {t \in Streams : typing'[t]}
<1>1. typing \in [Streams -> BOOLEAN] /\ typing' \in [Streams -> BOOLEAN]
  BY DEF PumpInv, TypeOK, RoomOK
<1>2. On2 = On \cup {s}
  BY <1>1
<1>3. IsFiniteSet(On) /\ IsFiniteSet(On2) /\ Cardinality(On2) <= Cardinality(Streams)
  <2>1. On \in SUBSET Streams /\ On2 \in SUBSET Streams
    OBVIOUS
  <2> QED
    BY <2>1, Bounds, FS_Subset
<1>4. s \in On <=> typing[s]
  OBVIOUS
<1>5. ref = Cardinality(On)
  BY DEF PumpInv, IndicatorInv, TypingCounted
<1> HIDE DEF On, On2
<1>6. Cardinality(On2) = IF typing[s] THEN Cardinality(On) ELSE Cardinality(On) + 1
  BY <1>2, <1>3, <1>4, FS_AddElement
<1>7. ref' = Cardinality(On2)
  BY <1>5, <1>6
<1>8. ref' \in 0 .. Cardinality(Streams)
  <2>1. Cardinality(On2) \in Nat /\ Cardinality(Streams) \in Nat
    BY <1>3, Bounds, FS_CardinalityType
  <2> QED
    BY <1>3, <1>7, <2>1
<1> QED
  BY <1>1, <1>7, <1>8 DEF TypingCounted, On2

LEMMA CountedOut ==
  ASSUME PumpInv, NEW s \in Streams, typing[s],
         typing' = [typing EXCEPT ![s] = FALSE], ref' = ref - 1
  PROVE  /\ typing' \in [Streams -> BOOLEAN] /\ TypingCounted'
         /\ ref' \in 0 .. Cardinality(Streams)
<1> DEFINE On == {t \in Streams : typing[t]}
           On2 == {t \in Streams : typing'[t]}
<1>1. typing \in [Streams -> BOOLEAN] /\ typing' \in [Streams -> BOOLEAN]
  BY DEF PumpInv, TypeOK, RoomOK
<1>2. On2 = On \ {s}
  BY <1>1
<1>3. IsFiniteSet(On) /\ IsFiniteSet(On2) /\ Cardinality(On2) <= Cardinality(Streams)
  <2>1. On \in SUBSET Streams /\ On2 \in SUBSET Streams
    OBVIOUS
  <2> QED
    BY <2>1, Bounds, FS_Subset
<1>4. s \in On
  OBVIOUS
<1>5. ref = Cardinality(On)
  BY DEF PumpInv, IndicatorInv, TypingCounted
<1> HIDE DEF On, On2
<1>6. Cardinality(On2) = Cardinality(On) - 1
  BY <1>2, <1>3, <1>4, FS_RemoveElement
<1>7. ref' = Cardinality(On2)
  BY <1>5, <1>6
<1>8. ref' \in 0 .. Cardinality(Streams)
  <2>1. Cardinality(On2) \in Nat /\ Cardinality(Streams) \in Nat
    BY <1>3, Bounds, FS_CardinalityType
  <2> QED
    BY <1>3, <1>7, <2>1
<1> QED
  BY <1>1, <1>7, <1>8 DEF TypingCounted, On2

-----------------------------------------------------------------------------
(* A chunk is taken: the types, and that a query shows nothing.            *)
LEMMA TookType ==
  ASSUME PumpInv, NEW s \in Streams, took[s] < put[s],
         took' = [took EXCEPT ![s] = @ + 1], UNCHANGED <<world, reading, flushed>>
  PROVE  CountsOK'
<1>1. took' \in [Streams -> Nat] /\ UNCHANGED <<out, read, put, flushed>>
  BY DEF PumpInv, TypeOK, CountsOK, world, reading
<1>2. ASSUME NEW t \in Streams
      PROVE  /\ Len(out[t]) <= MaxChunks
             /\ flushed[t] <= took'[t] /\ took'[t] <= put[t]
             /\ put[t] <= read[t] /\ read[t] <= Len(out[t])
             /\ put[t] - took'[t] <= ChanCap
  <2>1. took'[t] = IF t = s THEN took[s] + 1 ELSE took[t]
    BY DEF PumpInv, TypeOK, CountsOK
  <2>2. took[t] \in Nat /\ put[t] \in Nat /\ flushed[t] \in Nat
    BY DEF PumpInv, TypeOK, CountsOK
  <2> QED
    BY <2>1, <2>2, Bounds DEF PumpInv, TypeOK, CountsOK
<1> QED
  BY <1>1, <1>2 DEF PumpInv, TypeOK, CountsOK, Chunks

(* A chunk goes into the batch.                                            *)
LEMMA GatherInv ==
  ASSUME PumpInv, NEW s \in Streams, pc[s] \in {"select", "answer"},
         NEW n \in Nat, Gather(s, n), CountsOK',
         \A t \in Streams \ {s} : took'[t] = took[t]
  PROVE  PumpInv'
<1>1. UNCHANGED <<world, reading, flushed, lastSent, shown, then, fails, room>>
  BY DEF Gather
<1>2. /\ typing' \in [Streams -> BOOLEAN] /\ TypingCounted'
      /\ ref' \in 0 .. Cardinality(Streams)
  BY CountedIn DEF Gather
<1>3. TypeOK'
  <2>1. TimersOK'
    BY DEF PumpInv, TypeOK, TimersOK, Gather, StartHard, ResetIdle
  <2>2. PlacesOK'
    BY DEF PumpInv, TypeOK, PlacesOK, Gather, reading
  <2>3. RoomOK'
    BY <1>1, <1>2 DEF PumpInv, TypeOK, RoomOK, Index
  <2> QED
    BY <1>1, <2>1, <2>2, <2>3 DEF PumpInv, TypeOK, world
<1>4. StreamInv(s)'
  <2>1. then[s] = "select"
    BY DEF PumpInv, TypeOK, PlacesOK, StreamInv, PlaceInv
  <2>2. \/ pc'[s] = "typing" /\ call'[s]
        \/ pc'[s] = "select" /\ idle'[s] # "off"
    BY DEF PumpInv, TypeOK, PlacesOK, TimersOK, Gather, ResetIdle
  <2>3. typing'[s]
    BY DEF PumpInv, TypeOK, RoomOK, Gather
  <2>4. PlaceInv(s)'
    BY <1>1, <1>3, <2>1, <2>2, <2>3
    DEF PumpInv, StreamInv, PlaceInv, reading, TypeOK, PlacesOK
  <2>5. TickInv(s)'
    BY DEF PumpInv, TypeOK, TimersOK, StreamInv, TickInv, Gather, StartHard,
           ResetIdle
  <2>6. Flushed(s)' = Flushed(s)
    BY <1>1 DEF Flushed, Picture, Visible, world
  <2>7. ShownInv(s)'
    BY <1>1, <2>2, <2>6 DEF PumpInv, StreamInv, ShownInv
  <2> QED
    BY <2>2, <2>4, <2>5, <2>7 DEF StreamInv, TimedInv
<1>5. ASSUME NEW t \in Streams \ {s} PROVE StreamInv(t)'
  <2>1. UNCHANGED Own(t)
    BY DEF PumpInv, TypeOK, TimersOK, PlacesOK, RoomOK, Own, Gather, StartHard,
           ResetIdle, world, reading
  <2> QED
    BY <2>1, Framed DEF PumpInv
<1>6. IndicatorInv'
  <2>1. Keeps(s)'
    BY DEF PumpInv, TypeOK, RoomOK, Gather, Keeps
  <2> QED
    BY <1>2, <2>1 DEF IndicatorInv
<1> QED
  BY <1>3, <1>4, <1>5, <1>6 DEF PumpInv

LEMMA TakenInv ==
  ASSUME PumpInv, NEW s \in Streams,
         OnChunk(s) \/ Answered(s) \/ AnswerFails(s)
  PROVE  PumpInv'
<1>0. took[s] \in Nat /\ flushed[s] \in Nat /\ took \in [Streams -> Nat]
  BY DEF PumpInv, TypeOK, CountsOK
<1>1. CASE Answered(s) \/ AnswerFails(s)
  <2>1. /\ pc[s] = "answer" /\ Gather(s, took[s]) /\ UNCHANGED took
    BY <1>1 DEF Answered, AnswerFails
  <2>2. CountsOK'
    BY <2>1 DEF PumpInv, TypeOK, CountsOK, Gather, world, reading, Chunks
  <2> QED
    BY <1>0, <2>1, <2>2, GatherInv
<1>2. CASE OnChunk(s) /\ ~IsQuery(s)
  <2>1. /\ pc[s] = "select" /\ took[s] < put[s] /\ Gather(s, took[s] + 1)
        /\ took' = [took EXCEPT ![s] = @ + 1]
    BY <1>2 DEF OnChunk
  <2>2. CountsOK'
    BY <2>1, TookType DEF Gather
  <2>3. \A t \in Streams \ {s} : took'[t] = took[t]
    BY <1>0, <2>1
  <2> QED
    BY <1>0, <2>1, <2>2, <2>3, GatherInv
<1>3. CASE OnChunk(s) /\ IsQuery(s)
  <2>0. /\ pc[s] = "select" /\ took[s] < put[s]
        /\ took' = [took EXCEPT ![s] = @ + 1]
        /\ pc' = [pc EXCEPT ![s] = "answer"]
        /\ UNCHANGED <<world, reading, flushed, lastSent, timers, indicator,
                       then, call, fails, room>>
        /\ out[s][took[s] + 1] = "query"
    BY <1>3 DEF OnChunk, IsQuery
  <2> USE <2>0 DEF timers, indicator
  <2>1. CountsOK'
    BY TookType
  <2>2. TypeOK'
    <3>1. TimersOK' /\ RoomOK'
      BY DEF PumpInv, TypeOK, TimersOK, RoomOK, Index
    <3>2. PlacesOK'
      BY DEF PumpInv, TypeOK, PlacesOK, reading
    <3> QED
      BY <2>1, <3>1, <3>2 DEF PumpInv, TypeOK, world
  <2>3. IndicatorInv'
    BY IndicatorFramed DEF PumpInv, TypeOK, PlacesOK, world
  <2>4. StreamInv(s)'
    <3>1. Batch(s)' \subseteq Batch(s)
      <4>1. "query" \notin Texts
        BY TextsAssumption
      <4>2. Visible(s, flushed[s] + 1, took[s] + 1) \subseteq Batch(s)
        BY <1>0, <4>1, VisibleNoMore DEF Batch
      <4>3. took'[s] = took[s] + 1 /\ UNCHANGED <<out, flushed>>
        BY <1>0 DEF world
      <4>4. Batch(s)' = Visible(s, flushed[s] + 1, took[s] + 1)
        BY <4>3 DEF Batch, Visible
      <4> QED
        BY <4>2, <4>4
    <3>2. Flushed(s)' = Flushed(s)
      BY DEF Flushed, Picture, Visible, world
    <3>3. pc'[s] = "answer"
      BY DEF PumpInv, TypeOK, PlacesOK
    <3>4. PlaceInv(s)' /\ TickInv(s)'
      BY <3>3 DEF PumpInv, TypeOK, PlacesOK, StreamInv, PlaceInv, TickInv, reading
    <3>5. TimedInv(s)' /\ ShownInv(s)'
      BY <3>1, <3>2, <3>3 DEF PumpInv, StreamInv, TimedInv, ShownInv
    <3> QED
      BY <3>4, <3>5 DEF StreamInv
  <2>5. ASSUME NEW t \in Streams \ {s} PROVE StreamInv(t)'
    <3>1. UNCHANGED Own(t)
      BY <1>0 DEF PumpInv, TypeOK, PlacesOK, Own, world, reading
    <3> QED
      BY <3>1, Framed DEF PumpInv
  <2> QED
    BY <2>2, <2>3, <2>4, <2>5 DEF PumpInv
<1> QED
  BY <1>1, <1>2, <1>3

-----------------------------------------------------------------------------
(* A flush: on stdout what it sends, or has sent, is all that was flushed, *)
(* and a batch that is kept shows nothing.                                 *)
LEMMA FlushInv ==
  ASSUME PumpInv, NEW s \in Streams, NEW goOn \in {"select", "return"},
         pc[s] = "select", Flush(s, goOn), UNCHANGED <<out, took, room>>
  PROVE  /\ flushed' \in [Streams -> Nat] /\ flushed'[s] <= took[s]
         /\ lastSent' \in [Streams -> SUBSET (Index \X Texts)]
         /\ pc'[s] \in {"send", "end"} /\ Batch(s)' = {} /\ ShownInv(s)'
<1> DEFINE P == Payload(s)
<1>1. /\ took[s] \in Nat /\ flushed[s] \in Nat /\ flushed[s] <= took[s]
      /\ flushed \in [Streams -> Nat] /\ CountsOK
  BY DEF PumpInv, TypeOK, CountsOK
<1>2. /\ lastSent \in [Streams -> SUBSET (Index \X Texts)]
      /\ pc'[s] \in {"send", "end"} /\ then'[s] = goOn
  BY DEF PumpInv, TypeOK, RoomOK, PlacesOK, Flush
<1>3. /\ room[s] = lastSent[s]
      /\ s = "stdout" /\ Flushed(s) # {} => lastSent[s] = Flushed(s)
  BY DEF PumpInv, TypeOK, PlacesOK, StreamInv, PlaceInv, ShownInv
<1>4. P \subseteq Index \X Texts
  BY <1>1, PictureType DEF Payload, From
<1>5. \/ pc'[s] = "end" /\ lastSent' = lastSent
         /\ (flushed[s] = took[s] \/ P \in {{}, lastSent[s]})
      \/ pc'[s] = "send" /\ lastSent' = [lastSent EXCEPT ![s] = P]
  BY DEF PumpInv, TypeOK, PlacesOK, Flush
<1>6. lastSent' \in [Streams -> SUBSET (Index \X Texts)]
  BY <1>2, <1>4, <1>5
<1>7. CASE KeepsBatch(s)
  <2>1. flushed' = flushed /\ P = {} /\ pc'[s] = "end" /\ lastSent' = lastSent
    BY <1>7 DEF PumpInv, TypeOK, PlacesOK, Flush, KeepsBatch
  <2>2. Batch(s)' = Batch(s) /\ Flushed(s)' = Flushed(s)
    BY <2>1 DEF Batch, Flushed, Picture, Visible
  <2>3. Batch(s) = {}
    <3>1. Visible(s, From(s), took[s]) = {}
      BY <2>1 DEF Payload, Picture
    <3>2. Batch(s) \subseteq Visible(s, From(s), took[s])
      BY <1>1 DEF Batch, Visible, From
    <3> QED
      BY <3>1, <3>2
  <2>4. ShownInv(s)'
    BY <1>3, <2>1, <2>2 DEF ShownInv
  <2> QED
    BY <1>1, <1>2, <1>6, <2>1, <2>2, <2>3, <2>4
<1>8. CASE ~KeepsBatch(s)
  <2>1. flushed' = [flushed EXCEPT ![s] = took[s]]
    BY <1>8 DEF Flush
  <2>2. flushed'[s] = took[s] /\ flushed' \in [Streams -> Nat]
    BY <1>1, <2>1
  <2>3. Batch(s)' = {}
    <3>1. Batch(s)' = Visible(s, took[s] + 1, took[s])
      BY <2>2 DEF Batch, Visible
    <3> QED
      BY <1>1, <3>1, VisibleNone
  <2>4. Flushed(s)' = Picture(s, 1, took[s])
    BY <2>2 DEF Flushed, Picture, Visible
  <2>5. s = "stdout" => Flushed(s)' = P
    BY <2>4 DEF Payload, From
  <2>6. flushed[s] = took[s] => Flushed(s)' = Flushed(s)
    BY <2>4 DEF Flushed
  <2>7. lastSent'[s] \in {lastSent[s], P} /\ (pc'[s] = "send" => lastSent'[s] = P)
    BY <1>2, <1>5
  <2>8. s = "stdout" /\ Flushed(s)' # {} => lastSent'[s] = Flushed(s)'
    BY <1>3, <1>5, <2>5, <2>6, <2>7
  <2>9. pc'[s] # "send" => room'[s] = lastSent'[s]
    BY <1>3, <1>5
  <2>10. ShownInv(s)'
    BY <2>8, <2>9 DEF ShownInv
  <2> QED
    BY <1>1, <1>2, <1>6, <2>2, <2>3, <2>10
<1> QED
  BY <1>7, <1>8

LEMMA FlushingInv ==
  ASSUME PumpInv, NEW s \in Streams,
         OnCancel(s) \/ OnIdle(s) \/ OnHard(s) \/ OnError(s)
  PROVE  PumpInv'
<1> DEFINE Goes == \E goOn \in {"select", "return"} : Flush(s, goOn)
<1>1. /\ UNCHANGED <<world, reader, read, put, took, indicator, call, fails,
                     room>>
      /\ pc[s] = "select" /\ Goes
  BY DEF OnCancel, OnIdle, OnHard, OnError, reading
<1>2. /\ flushed' \in [Streams -> Nat] /\ flushed'[s] <= took[s]
      /\ lastSent' \in [Streams -> SUBSET (Index \X Texts)]
      /\ pc'[s] \in {"send", "end"} /\ Batch(s)' = {} /\ ShownInv(s)'
  <2>1. PICK goOn \in {"select", "return"} : Flush(s, goOn)
    BY <1>1
  <2>2. UNCHANGED <<out, took, room>>
    BY <1>1 DEF world
  <2> QED
    BY <1>1, <2>1, <2>2, FlushInv
<1>3. \A t \in Streams \ {s} : UNCHANGED <<flushed[t], lastSent[t], pc[t], then[t]>>
  BY <1>1 DEF PumpInv, TypeOK, CountsOK, PlacesOK, RoomOK, Flush
<1>4. /\ TimersOK' /\ TickInv(s)'
      /\ \A t \in Streams \ {s} : UNCHANGED <<idle[t], idleOn[t], hard[t], hardOn[t]>>
  BY DEF PumpInv, TypeOK, TimersOK, StreamInv, TickInv, OnCancel, OnIdle,
         OnHard, OnError, FlushStopsHard, StopHard
<1>5. TypeOK'
  <2>1. CountsOK'
    <3>1. UNCHANGED <<out, read, put, took>>
      BY <1>1 DEF world
    <3>2. \A t \in Streams : flushed'[t] <= took[t]
      BY <1>2, <1>3 DEF PumpInv, TypeOK, CountsOK
    <3> QED
      BY <1>2, <3>1, <3>2 DEF PumpInv, TypeOK, CountsOK, Chunks
  <2>2. PlacesOK'
    <3>1. errCh' \in [Streams -> BOOLEAN]
      BY DEF PumpInv, TypeOK, PlacesOK, OnCancel, OnIdle, OnHard, OnError, reading
    <3> QED
      BY <1>1, <3>1 DEF PumpInv, TypeOK, PlacesOK, Flush
  <2>3. RoomOK'
    BY <1>1, <1>2 DEF PumpInv, TypeOK, RoomOK, Index, indicator
  <2> QED
    BY <1>1, <1>4, <2>1, <2>2, <2>3 DEF PumpInv, TypeOK, world
<1>6. IndicatorInv'
  <2>1. \A t \in Streams : pc[t] # "typing" \/ UNCHANGED <<pc[t], call[t]>>
    BY <1>1, <1>3
  <2> QED
    BY <1>1, <2>1, IndicatorFramed DEF world, indicator
<1>7. StreamInv(s)'
  <2>1. PlaceInv(s)'
    BY <1>1, <1>2 DEF PumpInv, StreamInv, PlaceInv
  <2> QED
    BY <1>2, <1>4, <2>1 DEF StreamInv, TimedInv
<1>8. ASSUME NEW t \in Streams \ {s} PROVE StreamInv(t)'
  <2>1. UNCHANGED Own(t)
    BY <1>1, <1>3, <1>4 DEF Own, world, indicator
  <2> QED
    BY <2>1, Framed DEF PumpInv
<1> QED
  BY <1>5, <1>6, <1>7, <1>8 DEF PumpInv

-----------------------------------------------------------------------------
(* SendText returns.  A pump that goes on has sent what it flushed.        *)
LEMMA SentInv ==
  ASSUME PumpInv, NEW s \in Streams, Sent(s)
  PROVE  PumpInv'
<1>1. /\ pc[s] = "send" /\ pc' = [pc EXCEPT ![s] = "end"]
      /\ UNCHANGED <<world, reading, batching, timers, indicator, call>>
  BY DEF Sent
<1>2. \/ /\ room' = [room EXCEPT ![s] = lastSent[s]]
         /\ UNCHANGED then
      \/ /\ then' = [then EXCEPT ![s] = "return"]
         /\ UNCHANGED room
  BY DEF Sent
<1>3. TypeOK'
  <2>1. CountsOK' /\ TimersOK'
    BY <1>1 DEF PumpInv, TypeOK, CountsOK, TimersOK, Chunks, world, reading,
                batching, timers
  <2>2. PlacesOK'
    BY <1>1, <1>2 DEF PumpInv, TypeOK, PlacesOK, reading
  <2>3. RoomOK'
    BY <1>1, <1>2 DEF PumpInv, TypeOK, RoomOK, Index, batching, indicator
  <2>4. fails' \in 0 .. MaxFails
    BY Bounds DEF PumpInv, TypeOK, Sent, Fail
  <2> QED
    BY <1>1, <2>1, <2>2, <2>3, <2>4 DEF PumpInv, TypeOK, world
<1>4. IndicatorInv'
  <2>1. \A t \in Streams : pc[t] # "typing" \/ UNCHANGED <<pc[t], call[t]>>
    BY <1>1 DEF PumpInv, TypeOK, PlacesOK
  <2>2. fails > 0 => fails' > 0
    BY Bounds DEF PumpInv, TypeOK, Sent, Fail
  <2> QED
    BY <1>1, <2>1, <2>2, IndicatorFramed DEF world, indicator
<1>5. StreamInv(s)'
  <2>1. Batch(s)' = Batch(s) /\ Flushed(s)' = Flushed(s)
    BY <1>1, SamePicture DEF world, batching
  <2>2. pc'[s] = "end" /\ Batch(s) = {}
    BY <1>1 DEF PumpInv, TypeOK, PlacesOK, StreamInv, TimedInv
  <2>3. PlaceInv(s)' /\ TickInv(s)'
    BY <1>1, <2>2
    DEF PumpInv, StreamInv, PlaceInv, TickInv, reading, timers
  <2>4. ShownInv(s)'
    <3>1. CASE UNCHANGED then /\ room'[s] = lastSent[s]
      BY <1>1, <2>1, <2>2, <3>1 DEF PumpInv, StreamInv, ShownInv, batching
    <3>2. CASE then'[s] = "return"
      BY <3>2 DEF ShownInv
    <3> QED
      BY <1>2, <3>1, <3>2 DEF PumpInv, TypeOK, PlacesOK, RoomOK
  <2> QED
    BY <2>1, <2>2, <2>3, <2>4 DEF StreamInv, TimedInv
<1>6. ASSUME NEW t \in Streams \ {s} PROVE StreamInv(t)'
  <2>1. UNCHANGED Own(t)
    BY <1>1, <1>2 DEF PumpInv, TypeOK, PlacesOK, RoomOK, Own, world, reading,
                      batching, timers, indicator
  <2> QED
    BY <2>1, Framed DEF PumpInv
<1> QED
  BY <1>3, <1>4, <1>5, <1>6 DEF PumpInv

-----------------------------------------------------------------------------
(* endTyping counts the pump out, and calls SetTyping if it was the last.  *)
LEMMA EndTypingInv ==
  ASSUME PumpInv, NEW s \in Streams, EndTyping(s)
  PROVE  PumpInv'
<1>1. /\ pc[s] = "end"
      /\ UNCHANGED <<world, reading, batching, timers, shown, then, fails,
                     room>>
  BY DEF EndTyping
<1>2. /\ pc' \in [Streams -> {"select", "answer", "send", "end", "typing", "done"}]
      /\ call' \in [Streams -> BOOLEAN]
      /\ \/ pc'[s] = "typing" /\ ~call'[s]
         \/ pc'[s] = GoOn(s)
      /\ \A t \in Streams \ {s} : UNCHANGED <<pc[t], call[t]>>
  BY DEF PumpInv, TypeOK, PlacesOK, EndTyping, GoOn
<1>3. /\ typing' \in [Streams -> BOOLEAN] /\ TypingCounted'
      /\ ref' \in 0 .. Cardinality(Streams)
  <2>1. CASE typing[s]
    BY <2>1, CountedOut DEF EndTyping
  <2>2. CASE ~typing[s]
    <3>1. UNCHANGED <<typing, ref>>
      BY <2>2 DEF EndTyping
    <3> QED
      BY <3>1 DEF PumpInv, TypeOK, RoomOK, IndicatorInv, TypingCounted
  <2> QED
    BY <2>1, <2>2
<1>31. \A t \in Streams \ {s} : typing'[t] = typing[t]
  BY DEF PumpInv, TypeOK, RoomOK, EndTyping
<1>32. ~typing'[s]
  BY DEF PumpInv, TypeOK, RoomOK, EndTyping
<1>4. TypeOK'
  <2>1. CountsOK' /\ TimersOK'
    BY <1>1 DEF PumpInv, TypeOK, CountsOK, TimersOK, Chunks, world, reading,
                batching, timers
  <2>2. PlacesOK'
    BY <1>1, <1>2 DEF PumpInv, TypeOK, PlacesOK, reading
  <2>3. RoomOK'
    BY <1>1, <1>3 DEF PumpInv, TypeOK, RoomOK, Index, batching
  <2> QED
    BY <1>1, <2>1, <2>2, <2>3 DEF PumpInv, TypeOK, world
<1>5. StreamInv(s)'
  <2>1. Batch(s)' = Batch(s) /\ Flushed(s)' = Flushed(s) /\ Batch(s) = {}
    BY <1>1, SamePicture DEF world, batching, PumpInv, StreamInv, TimedInv
  <2>2. PlaceInv(s)' /\ TickInv(s)'
    BY <1>1, <1>2, <1>32, <1>4
    DEF PumpInv, StreamInv, PlaceInv, TickInv, reading, timers, GoOn, TypeOK,
        PlacesOK, RoomOK
  <2>3. ShownInv(s)'
    BY <1>1, <1>2, <2>1 DEF PumpInv, StreamInv, ShownInv, batching, GoOn
  <2> QED
    BY <2>1, <2>2, <2>3 DEF StreamInv, TimedInv
<1>6. ASSUME NEW t \in Streams \ {s} PROVE StreamInv(t)'
  <2>1. UNCHANGED Own(t)
    BY <1>1, <1>2, <1>31 DEF Own, world, reading, batching, timers
  <2> QED
    BY <2>1, Framed DEF PumpInv
<1>7. IndicatorInv'
  <2>1. ASSUME shown, fails = 0, ~ctxDone
        PROVE  \E t \in Streams : Keeps(t)'
    <3>1. PICK t \in Streams : Keeps(t)
      BY <2>1, Bounds DEF PumpInv, TypeOK, IndicatorInv
    <3>2. CASE t # s
      BY <1>2, <1>31, <3>1, <3>2 DEF Keeps
    <3>3. CASE t = s
      <4>1. typing[s]
        BY <1>1, <3>1, <3>3 DEF Keeps
      <4>2. CASE ref = 1
        BY <4>1, <4>2 DEF PumpInv, TypeOK, PlacesOK, EndTyping, Keeps
      <4>3. CASE ref # 1
        <5>1. ref' # 0
          BY <4>1, <4>3 DEF EndTyping, PumpInv, TypeOK, RoomOK
        <5>2. {u \in Streams : typing'[u]} # {}
          BY <1>3, <5>1, FS_EmptySet DEF TypingCounted
        <5>3. PICK u \in Streams : typing'[u]
          BY <5>2
        <5> QED
          BY <5>3 DEF Keeps
      <4> QED
        BY <4>2, <4>3
    <3> QED
      BY <3>2, <3>3
  <2>2. shown' = shown /\ fails' = fails /\ ctxDone' = ctxDone
    BY <1>1 DEF world
  <2> QED
    BY <1>3, <2>1, <2>2, Bounds DEF IndicatorInv, PumpInv, TypeOK
<1> QED
  BY <1>3, <1>4, <1>5, <1>6, <1>7 DEF PumpInv

(* SetTyping returns: to resetTimer after a chunk, else to the loop or out.*)
LEMMA TypingSetInv ==
  ASSUME PumpInv, NEW s \in Streams, TypingSet(s)
  PROVE  PumpInv'
<1>1. /\ pc[s] = "typing"
      /\ UNCHANGED <<world, reading, batching, hard, hardOn, typing, ref, then,
                     call, room>>
  BY DEF TypingSet
<1>2. /\ pc' \in [Streams -> {"select", "answer", "send", "end", "typing", "done"}]
      /\ IF call[s] THEN pc'[s] = "select" /\ idle'[s] # "off"
         ELSE pc'[s] = GoOn(s) /\ UNCHANGED idle
      /\ \A t \in Streams \ {s} : UNCHANGED <<pc[t], idle[t], idleOn[t]>>
  BY DEF PumpInv, TypeOK, PlacesOK, TimersOK, TypingSet, GoOn, ResetIdle
<1>3. TimersOK' /\ TickInv(s)'
  BY <1>1 DEF PumpInv, TypeOK, TimersOK, StreamInv, TickInv, TypingSet, ResetIdle
<1>4. TypeOK'
  <2>1. CountsOK'
    BY <1>1 DEF PumpInv, TypeOK, CountsOK, Chunks, world, reading, batching
  <2>2. PlacesOK'
    BY <1>1, <1>2 DEF PumpInv, TypeOK, PlacesOK, reading
  <2>3. shown' \in BOOLEAN
    BY DEF PumpInv, TypeOK, PlacesOK, RoomOK, TypingSet
  <2>4. RoomOK'
    BY <1>1, <2>3 DEF PumpInv, TypeOK, RoomOK, Index, batching
  <2>5. fails' \in 0 .. MaxFails
    BY Bounds DEF PumpInv, TypeOK, TypingSet, Fail
  <2> QED
    BY <1>1, <1>3, <2>1, <2>2, <2>4, <2>5 DEF PumpInv, TypeOK, world
<1>5. IndicatorInv'
  <2>1. TypingCounted'
    BY <1>1 DEF PumpInv, IndicatorInv, TypingCounted
  <2>2. CASE call[s]
    <3>1. typing'[s]
      BY <1>1, <2>2 DEF PumpInv, StreamInv, PlaceInv
    <3> QED
      BY <2>1, <3>1 DEF IndicatorInv, Keeps
  <2>3. CASE ~call[s] /\ shown' = call[s]
    BY <2>1, <2>3 DEF IndicatorInv
  <2>4. CASE Fail \/ ctxDone
    <3>1. fails' > 0 \/ ctxDone'
      BY <1>1, <2>4, Bounds DEF Fail, PumpInv, TypeOK, world
    <3> QED
      BY <2>1, <3>1 DEF IndicatorInv
  <2>5. (~ctxDone /\ shown' = call[s]) \/ Fail \/ ctxDone
    BY DEF TypingSet
  <2> QED
    BY <2>2, <2>3, <2>4, <2>5
<1>6. StreamInv(s)'
  <2>1. Batch(s)' = Batch(s) /\ Flushed(s)' = Flushed(s)
    BY <1>1, SamePicture DEF world, batching
  <2>2. call[s] \/ Batch(s) = {}
    BY <1>1 DEF PumpInv, StreamInv, TimedInv
  <2>3. PlaceInv(s)'
    BY <1>1, <1>2, <1>4
    DEF PumpInv, StreamInv, PlaceInv, reading, GoOn, TypeOK, PlacesOK
  <2>4. ShownInv(s)'
    BY <1>1, <1>2, <2>1 DEF PumpInv, StreamInv, ShownInv, batching, GoOn
  <2>5. TimedInv(s)'
    BY <1>2, <2>1, <2>2 DEF TimedInv
  <2> QED
    BY <1>3, <2>3, <2>4, <2>5 DEF StreamInv
<1>7. ASSUME NEW t \in Streams \ {s} PROVE StreamInv(t)'
  <2>1. UNCHANGED Own(t)
    BY <1>1, <1>2 DEF Own, world, reading, batching
  <2> QED
    BY <2>1, Framed DEF PumpInv
<1> QED
  BY <1>4, <1>5, <1>6, <1>7 DEF PumpInv

-----------------------------------------------------------------------------
(* Every step keeps the invariant, and so does one in which nothing moves. *)
LEMMA StepInv == PumpInv /\ [Next]_vars => PumpInv'
<1> SUFFICES ASSUME PumpInv, [Next]_vars PROVE PumpInv'
  OBVIOUS
<1>1. CASE End \/ WaitCloses \/ Stop
  BY <1>1, OutsideInv
<1>2. ASSUME NEW s \in Streams, NEW chunk \in Chunks, Write(s, chunk)
      PROVE  PumpInv'
  BY <1>2, WriteInv
<1>3. ASSUME NEW s \in Streams, Reader(s) PROVE PumpInv'
  BY <1>3, ReaderInv
<1>4. ASSUME NEW s \in Streams, Pump(s) \/ Answered(s) PROVE PumpInv'
  <2>1. CASE OnChunk(s) \/ Answered(s) \/ AnswerFails(s)
    BY <2>1, TakenInv
  <2>2. CASE OnCancel(s) \/ OnIdle(s) \/ OnHard(s) \/ OnError(s)
    BY <2>2, FlushingInv
  <2>3. CASE Sent(s)
    BY <2>3, SentInv
  <2>4. CASE EndTyping(s)
    BY <2>4, EndTypingInv
  <2>5. CASE TypingSet(s)
    BY <2>5, TypingSetInv
  <2> QED
    BY <1>4, <2>1, <2>2, <2>3, <2>4, <2>5 DEF Pump
<1>5. ASSUME NEW s \in Streams, IdleTick(s) \/ HardTick(s) PROVE PumpInv'
  BY <1>5, TickerInv
<1>6. CASE UNCHANGED vars
  <2> USE <1>6 DEF vars, world, reading, batching, timers, indicator
  <2>1. TypeOK'
    BY DEF PumpInv, TypeOK, CountsOK, TimersOK, PlacesOK, RoomOK, Chunks, Index
  <2>3. IndicatorInv'
    BY IndicatorFramed
  <2>2. \A s \in Streams : StreamInv(s)'
    BY Framed DEF PumpInv, Own
  <2> QED
    BY <2>1, <2>2, <2>3 DEF PumpInv
<1> QED
  BY <1>1, <1>2, <1>3, <1>4, <1>5, <1>6 DEF Next

(* The invariant holds throughout.                                         *)
THEOREM PumpInvariance == Spec => []PumpInv
BY InitInv, StepInv, PTL DEF Spec

(* Every variable of both goroutines of a stream keeps its type; chunkCh   *)
(* never holds more than its capacity.                                     *)
THEOREM PumpTypes == Spec => []TypeOK
<1>1. PumpInv => TypeOK
  BY DEF PumpInv
<1> QED
  BY <1>1, PumpInvariance, PTL

(* No tick of a timer that pumpOutput has stopped is left in its channel.  *)
THEOREM NoTickIsStale == Spec => []NoStaleTick
<1>1. PumpInv => NoStaleTick
  BY DEF PumpInv, StreamInv, TickInv, NoStaleTick
<1> QED
  BY <1>1, PumpInvariance, PTL

(* A pump that waits with a text in its batch has its idle timer running.  *)
THEOREM WaitingIsTimed == Spec => []TextIsTimed
<1>1. PumpInv => TextIsTimed
  BY DEF PumpInv, StreamInv, TimedInv, Batch, TextIsTimed, Waiting
<1> QED
  BY <1>1, PumpInvariance, PTL

(* While the pump of stdout lives, the last message in the room shows what *)
(* the screen shows of all that was flushed, whatever was suppressed as a  *)
(* repetition and whichever call failed.                                   *)
THEOREM ShownIsFlushed == Spec => []RoomShowsPicture
<1>1. PumpInv => RoomShowsPicture
  <2>1. ASSUME PumpInv, NEW s \in Streams \cap {"stdout"}, pc[s] = "select",
               Picture(s, 1, flushed[s]) # {}
        PROVE  room[s] = Picture(s, 1, flushed[s])
    <3>1. then[s] = "select"
      BY <2>1 DEF PumpInv, TypeOK, PlacesOK, StreamInv, PlaceInv
    <3> QED
      BY <2>1, <3>1 DEF PumpInv, StreamInv, ShownInv, Flushed
  <2> QED
    BY <2>1 DEF RoomShowsPicture
<1> QED
  BY <1>1, PumpInvariance, PTL

(* However the pumps' calls of SetTyping overtake one another, no indicator*)
(* is left over once no pump holds output, unless a call failed.           *)
THEOREM TypingGoesOff == Spec => []TypingEnds
<1>1. PumpInv => TypingEnds
  BY DEF PumpInv, IndicatorInv, StreamInv, PlaceInv, Keeps, Holding, TypingEnds
<1> QED
  BY <1>1, PumpInvariance, PTL
=============================================================================
