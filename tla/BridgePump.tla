----------------------------- MODULE BridgePump -----------------------------
(***************************************************************************)
(* The output side of a bridge (internal/bridge/bridge.go): for each       *)
(* stream of the worker one goroutine that reads it and one, pumpOutput,   *)
(* that gathers what was read into batches and sends them to the session   *)
(* room, with a typing indicator that both pumps share.                    *)
(*                                                                         *)
(* A chunk is a text, which adds a line to the picture, "clear", which     *)
(* empties it, or "query", which only moves about in it and asks for its   *)
(* position.  A payload is the set of its lines, each with its number, so  *)
(* that two of the same texts are equal.  Time is left out: a timer that   *)
(* runs may fire.                                                          *)
(***************************************************************************)
EXTENDS Naturals, Sequences, FiniteSets

CONSTANTS
  Streams,                \* a subset of {"stdout", "stderr"}
  Texts,                  \* what a chunk may add to the picture
  ChanCap,                \* the capacity of chunkCh
  Pipes,                  \* TRUE in pipe mode, FALSE on a PTY
  MaxPayload,             \* lines of a message that the homeserver takes
  MaxKept,                \* chunks of a batch that shows nothing: 1 MiB
  MaxChunks,              \* bound: chunks of a stream
  MaxFails                \* bound: calls that fail for no reason of their own

ASSUME StreamsAssumption == Streams \subseteq {"stdout", "stderr"}
ASSUME TextsAssumption == Texts \cap {"clear", "query"} = {}
ASSUME ChanCapAssumption == ChanCap \in Nat \ {0}
ASSUME PipesAssumption == Pipes \in BOOLEAN
ASSUME BoundsAssumption ==
  /\ MaxPayload \in Nat /\ MaxKept \in Nat
  /\ MaxChunks \in Nat /\ MaxFails \in Nat

VARIABLES
  out,                    \* out[s]: the chunks the worker has written
  ended,                  \* the worker has ended
  closed,                 \* cmd.Wait has closed its pipes
  ctxDone,                \* Bridge.Stop was called: bridgeCtx is done
  reader,                 \* what the reading goroutine is doing
  read, put, took,        \* chunks read, sent on chunkCh, received from it
  errCh,                  \* the read error waits in errCh
  flushed,                \* chunks before the batch: it is flushed+1 .. took
  lastSent,               \* the payload that was sent last
  idle, idleOn,           \* timer, timerActive
  hard, hardOn,           \* hardFlushTimer, hardFlushActive
  typing,                 \* typingActive of each pump
  pc, then, call,         \* where the pump is, where it goes on after a call,
                          \* and what it calls SetTyping with
  ref, shown,             \* typingRefCount; the indicator in the room
  fails,                  \* calls that failed
  room                    \* history: the last message the room has taken

reading == <<reader, read, put, errCh>>
timers == <<idle, idleOn, hard, hardOn>>
indicator == <<typing, ref, shown>>
batching == <<took, flushed, lastSent>>
world == <<out, ended, closed, ctxDone>>
vars == <<world, reading, batching, timers, indicator, pc, then, call, fails,
          room>>

Chunks == Texts \cup {"clear", "query"}
Index == 1 .. MaxChunks

CountsOK ==
  /\ out \in [Streams -> Seq(Chunks)]
  /\ read \in [Streams -> Nat] /\ put \in [Streams -> Nat]
  /\ took \in [Streams -> Nat] /\ flushed \in [Streams -> Nat]
  /\ \A s \in Streams :
       /\ Len(out[s]) <= MaxChunks
       /\ flushed[s] <= took[s] /\ took[s] <= put[s]
       /\ put[s] <= read[s] /\ read[s] <= Len(out[s])
       /\ put[s] - took[s] <= ChanCap

TimersOK ==
  /\ idle \in [Streams -> {"off", "on", "fired"}]
  /\ hard \in [Streams -> {"off", "on", "fired"}]
  /\ idleOn \in [Streams -> BOOLEAN] /\ hardOn \in [Streams -> BOOLEAN]

PlacesOK ==
  /\ reader \in [Streams -> {"read", "send", "report", "done"}]
  /\ errCh \in [Streams -> BOOLEAN]
  /\ pc \in [Streams -> {"select", "answer", "send", "end", "typing", "done"}]
  /\ then \in [Streams -> {"select", "return"}]
  /\ call \in [Streams -> BOOLEAN]

RoomOK ==
  /\ lastSent \in [Streams -> SUBSET (Index \X Texts)]
  /\ room \in [Streams -> SUBSET (Index \X Texts)]
  /\ typing \in [Streams -> BOOLEAN]
  /\ ref \in 0 .. Cardinality(Streams)
  /\ shown \in BOOLEAN

TypeOK ==
  /\ CountsOK /\ TimersOK /\ PlacesOK /\ RoomOK
  /\ ended \in BOOLEAN /\ closed \in BOOLEAN /\ ctxDone \in BOOLEAN
  /\ fails \in 0 .. MaxFails

All(v) == [s \in Streams |-> v]

Init ==
  /\ out = All(<<>>)
  /\ ended = FALSE /\ closed = FALSE /\ ctxDone = FALSE
  /\ reader = All("read")
  /\ read = All(0) /\ put = All(0) /\ took = All(0)
  /\ errCh = All(FALSE)
  /\ flushed = All(0)
  /\ lastSent = All({})
  /\ idle = All("off") /\ idleOn = All(FALSE)
  /\ hard = All("off") /\ hardOn = All(FALSE)
  /\ typing = All(FALSE)
  /\ pc = All("select") /\ then = All("select") /\ call = All(FALSE)
  /\ ref = 0 /\ shown = FALSE
  /\ fails = 0
  /\ room = All({})

-----------------------------------------------------------------------------
(* The worker, and the rest of the governor.                               *)

Write(s, chunk) ==
  /\ ~ended
  /\ Len(out[s]) < MaxChunks
  /\ out' = [out EXCEPT ![s] = Append(@, chunk)]
  /\ UNCHANGED <<ended, closed, ctxDone, reading, batching, timers, indicator,
                 pc, then, call, fails, room>>

End ==
  /\ ~ended
  /\ ended' = TRUE
  /\ UNCHANGED <<out, closed, ctxDone, reading, batching, timers, indicator,
                 pc, then, call, fails, room>>

(* In pipe mode the goroutine that reaps the worker closes the reading     *)
(* ends as well, whatever is left in the pipes.                            *)
WaitCloses ==
  /\ Pipes
  /\ ended
  /\ ~closed
  /\ closed' = TRUE
  /\ UNCHANGED <<out, ended, ctxDone, reading, batching, timers, indicator,
                 pc, then, call, fails, room>>

Stop ==
  /\ ~ctxDone
  /\ ctxDone' = TRUE
  /\ UNCHANGED <<out, ended, closed, reading, batching, timers, indicator, pc,
                 then, call, fails, room>>

-----------------------------------------------------------------------------
(* The reading goroutine.                                                  *)

Read(s) ==
  /\ reader[s] = "read"
  /\ \/ /\ read[s] < Len(out[s])
        /\ ~closed
        /\ read' = [read EXCEPT ![s] = @ + 1]
        /\ reader' = [reader EXCEPT ![s] = "send"]
     \/ /\ closed \/ (ended /\ read[s] = Len(out[s]))
        /\ reader' = [reader EXCEPT ![s] = "report"]
        /\ UNCHANGED read
  /\ UNCHANGED <<world, put, errCh, batching, timers, indicator, pc, then,
                 call, fails, room>>

(* Mutants of Put: a channel without a bound, and no way out of a full one. *)
PutUnbounded(s) ==
  /\ reader[s] = "send"
  /\ put' = [put EXCEPT ![s] = @ + 1]
  /\ reader' = [reader EXCEPT ![s] = "read"]
  /\ UNCHANGED <<world, read, errCh, batching, timers, indicator, pc, then,
                 call, fails, room>>

PutBlocking(s) ==
  /\ put[s] - took[s] < ChanCap
  /\ PutUnbounded(s)

Put(s) ==
  /\ reader[s] = "send"
  /\ \/ /\ put[s] - took[s] < ChanCap
        /\ put' = [put EXCEPT ![s] = @ + 1]
        /\ reader' = [reader EXCEPT ![s] = "read"]
     \/ /\ ctxDone
        /\ reader' = [reader EXCEPT ![s] = "done"]
        /\ UNCHANGED put
  /\ UNCHANGED <<world, read, errCh, batching, timers, indicator, pc, then,
                 call, fails, room>>

(* Mutant of Report: the end of the stream is not reported as an error.    *)
ReportNothing(s) ==
  /\ reader[s] = "report"
  /\ reader' = [reader EXCEPT ![s] = "done"]
  /\ UNCHANGED <<world, errCh, read, put, batching, timers, indicator, pc, then,
                 call, fails, room>>

Report(s) ==
  /\ reader[s] = "report"
  /\ reader' = [reader EXCEPT ![s] = "done"]
  /\ \/ errCh' = [errCh EXCEPT ![s] = TRUE]
     \/ ctxDone /\ UNCHANGED errCh
  /\ UNCHANGED <<world, read, put, batching, timers, indicator, pc, then, call,
                 fails, room>>

Reader(s) == Read(s) \/ Put(s) \/ Report(s)

-----------------------------------------------------------------------------
(* The chunks of a to b whose texts the picture shows: those after the     *)
(* last clear; and the picture, line by line.                              *)
Visible(s, a, b) ==
  {n \in a .. b : /\ out[s][n] \in Texts
                  /\ \A k \in n + 1 .. b : out[s][k] # "clear"}

Picture(s, a, b) ==
  LET texts == Visible(s, a, b) IN
    {<<Cardinality({m \in texts : m <= n}), out[s][n]>> : n \in texts}

(* renderBatchToLinesWithState: the picture of stdout is kept from flush   *)
(* to flush, the one of stderr starts empty every time.                    *)
From(s) == IF s = "stdout" THEN 1 ELSE flushed[s] + 1
Payload(s) == Picture(s, From(s), took[s])

(* Mutant of ResetIdle: the timer is started with the batch only, not by a *)
(* chunk that is added to one.                                             *)
ResetIdleOnce(s) ==
  IF idleOn[s] \/ took[s] > flushed[s] + 1 THEN UNCHANGED <<idle, idleOn>>
  ELSE /\ idle' = [idle EXCEPT ![s] = "on"]
       /\ idleOn' = [idleOn EXCEPT ![s] = TRUE]

(* resetTimer drains the channel of a timer it believes to be active.      *)
ResetIdle(s) ==
  /\ idle' = [idle EXCEPT ![s] = IF @ = "fired" /\ ~idleOn[s] THEN @ ELSE "on"]
  /\ idleOn' = [idleOn EXCEPT ![s] = TRUE]

StartHard(s) ==
  IF hardOn[s] THEN UNCHANGED <<hard, hardOn>>
  ELSE /\ hard' = [hard EXCEPT ![s] = "on"]
       /\ hardOn' = [hardOn EXCEPT ![s] = TRUE]

(* Mutant of StopHard: a timer that has fired already is not drained.      *)
StopHardLate(s) ==
  /\ hard' = [hard EXCEPT ![s] = IF hardOn[s] /\ @ = "on" THEN "off" ELSE @]
  /\ hardOn' = [hardOn EXCEPT ![s] = FALSE]

StopHard(s) ==
  /\ hard' = [hard EXCEPT ![s] = IF hardOn[s] THEN "off" ELSE @]
  /\ hardOn' = [hardOn EXCEPT ![s] = FALSE]

(* A batch that leaves the picture empty is kept, up to a limit.           *)
KeepsBatch(s) ==
  /\ flushed[s] < took[s]
  /\ Payload(s) = {}
  /\ took[s] - flushed[s] <= MaxKept

(* flushBatch up to SendText: a picture that is empty, or was sent last,   *)
(* is not sent.  hard and hardOn are the caller's.                         *)
Flush(s, goOn) ==
  /\ then' = [then EXCEPT ![s] = goOn]
  /\ flushed' = IF KeepsBatch(s) THEN flushed
                ELSE [flushed EXCEPT ![s] = took[s]]
  /\ IF flushed[s] = took[s] \/ Payload(s) \in {{}, lastSent[s]}
     THEN pc' = [pc EXCEPT ![s] = "end"] /\ UNCHANGED lastSent
     ELSE /\ pc' = [pc EXCEPT ![s] = "send"]
          /\ lastSent' = [lastSent EXCEPT ![s] = Payload(s)]

FlushStopsHard(s) ==
  IF KeepsBatch(s) THEN UNCHANGED <<hard, hardOn>> ELSE StopHard(s)

(* The cases of pumpOutput's select.                                       *)

OnCancel(s) ==
  /\ pc[s] = "select"
  /\ ctxDone
  /\ Flush(s, "return")
  /\ FlushStopsHard(s)
  /\ UNCHANGED <<world, reading, took, idle, idleOn, indicator, call, fails,
                 room>>

(* The n-th chunk goes into the batch: beginTyping counts this pump in, or *)
(* renewTyping may find that it is time to renew; then resetTimer, after   *)
(* SetTyping if that is called.                                            *)
Gather(s, n) ==
  /\ IF flushed[s] = n - 1 THEN StartHard(s) ELSE UNCHANGED <<hard, hardOn>>
  /\ typing' = [typing EXCEPT ![s] = TRUE]
  /\ ref' = IF typing[s] THEN ref ELSE ref + 1
  /\ \/ /\ typing[s] \/ ref = 0
        /\ pc' = [pc EXCEPT ![s] = "typing"]
        /\ call' = [call EXCEPT ![s] = TRUE]
        /\ UNCHANGED <<idle, idleOn>>
     \/ /\ typing[s] \/ ref > 0
        /\ ResetIdle(s)
        /\ pc' = [pc EXCEPT ![s] = "select"]
        /\ UNCHANGED call
  /\ UNCHANGED <<world, reading, flushed, lastSent, shown, then, fails, room>>

(* A chunk is taken; a query on stdout is answered before anything else is *)
(* done.                                                                   *)
IsQuery(s) == s = "stdout" /\ out[s][took[s] + 1] = "query"

OnChunk(s) ==
  /\ pc[s] = "select"
  /\ took[s] < put[s]
  /\ took' = [took EXCEPT ![s] = @ + 1]
  /\ IF IsQuery(s)
     THEN /\ pc' = [pc EXCEPT ![s] = "answer"]
          /\ UNCHANGED <<world, reading, flushed, lastSent, timers, indicator,
                         then, call, fails, room>>
     ELSE Gather(s, took[s] + 1)

(* respondToTerminalQueries: the write returns once the worker has taken   *)
(* the answer, which it may never do, or with an error when it has ended.  *)
Answered(s) ==
  /\ pc[s] = "answer"
  /\ ~ended
  /\ Gather(s, took[s])
  /\ UNCHANGED took

AnswerFails(s) ==
  /\ pc[s] = "answer"
  /\ ended
  /\ Gather(s, took[s])
  /\ UNCHANGED took

OnIdle(s) ==
  /\ pc[s] = "select"
  /\ idle[s] = "fired"
  /\ idle' = [idle EXCEPT ![s] = "off"]
  /\ idleOn' = [idleOn EXCEPT ![s] = FALSE]
  /\ Flush(s, "select")
  /\ FlushStopsHard(s)
  /\ UNCHANGED <<world, reading, took, indicator, call, fails, room>>

OnHard(s) ==
  /\ pc[s] = "select"
  /\ hard[s] = "fired"
  /\ hard' = [hard EXCEPT ![s] = "off"]
  /\ hardOn' = [hardOn EXCEPT ![s] = FALSE]
  /\ Flush(s, "select")
  /\ UNCHANGED <<world, reading, took, idle, idleOn, indicator, call, fails,
                 room>>

OnError(s) ==
  /\ pc[s] = "select"
  /\ errCh[s]
  /\ errCh' = [errCh EXCEPT ![s] = FALSE]
  /\ Flush(s, "return")
  /\ FlushStopsHard(s)
  /\ UNCHANGED <<world, reader, read, put, took, idle, idleOn, indicator, call,
                 fails, room>>

(* SendText returns: a message that is too long is refused.                *)
Refused(s) == Cardinality(lastSent[s]) > MaxPayload \/ ctxDone
Fail == fails < MaxFails /\ fails' = fails + 1

(* Mutant of Sent: a failure of SendText is logged only.                   *)
SentAnyhow(s) ==
  /\ pc[s] = "send"
  /\ pc' = [pc EXCEPT ![s] = "end"]
  /\ \/ /\ ~Refused(s)
        /\ room' = [room EXCEPT ![s] = lastSent[s]]
        /\ UNCHANGED fails
     \/ (Fail \/ (Refused(s) /\ UNCHANGED fails)) /\ UNCHANGED room
  /\ UNCHANGED <<world, reading, batching, timers, indicator, then, call>>

Sent(s) ==
  /\ pc[s] = "send"
  /\ pc' = [pc EXCEPT ![s] = "end"]
  /\ \/ /\ ~Refused(s)
        /\ room' = [room EXCEPT ![s] = lastSent[s]]
        /\ UNCHANGED <<then, fails>>
     \/ /\ Fail \/ (Refused(s) /\ UNCHANGED fails)
        /\ then' = [then EXCEPT ![s] = "return"]
        /\ UNCHANGED room
  /\ UNCHANGED <<world, reading, batching, timers, indicator, call>>

GoOn(s) == IF then[s] = "select" THEN "select" ELSE "done"

(* Mutant of EndTyping: a pump that returns stays counted.                 *)
EndTypingGoingOn(s) ==
  /\ pc[s] = "end"
  /\ IF typing[s] /\ then[s] = "select"
     THEN /\ typing' = [typing EXCEPT ![s] = FALSE]
          /\ ref' = ref - 1
          /\ pc' = [pc EXCEPT ![s] = IF ref = 1 THEN "typing" ELSE GoOn(s)]
          /\ call' = [call EXCEPT ![s] = FALSE]
     ELSE /\ pc' = [pc EXCEPT ![s] = GoOn(s)]
          /\ typing' = [typing EXCEPT ![s] = FALSE]
          /\ UNCHANGED <<ref, call>>
  /\ UNCHANGED <<world, reading, batching, timers, shown, then, fails,
                 room>>

(* endTyping, in the loop or deferred, under typingMu.                     *)
EndTyping(s) ==
  /\ pc[s] = "end"
  /\ IF typing[s]
     THEN /\ typing' = [typing EXCEPT ![s] = FALSE]
          /\ ref' = ref - 1
          /\ pc' = [pc EXCEPT ![s] = IF ref = 1 THEN "typing" ELSE GoOn(s)]
          /\ call' = [call EXCEPT ![s] = FALSE]
     ELSE /\ pc' = [pc EXCEPT ![s] = GoOn(s)]
          /\ UNCHANGED <<typing, ref, call>>
  /\ UNCHANGED <<world, reading, batching, timers, shown, then, fails,
                 room>>

(* SetTyping, called after typingMu is unlocked, returns; an error is      *)
(* logged.                                                                 *)
TypingSet(s) ==
  /\ pc[s] = "typing"
  /\ \/ ~ctxDone /\ shown' = call[s] /\ UNCHANGED fails
     \/ (Fail \/ (ctxDone /\ UNCHANGED fails)) /\ UNCHANGED shown
  /\ IF call[s]
     THEN ResetIdle(s) /\ pc' = [pc EXCEPT ![s] = "select"]
     ELSE UNCHANGED <<idle, idleOn>> /\ pc' = [pc EXCEPT ![s] = GoOn(s)]
  /\ UNCHANGED <<world, reading, batching, hard, hardOn, typing, ref, then,
                 call, room>>

Pump(s) == \/ OnCancel(s) \/ OnChunk(s) \/ OnIdle(s) \/ OnHard(s) \/ OnError(s)
           \/ AnswerFails(s) \/ Sent(s) \/ EndTyping(s) \/ TypingSet(s)

IdleTick(s) ==
  /\ idle[s] = "on"
  /\ idle' = [idle EXCEPT ![s] = "fired"]
  /\ UNCHANGED <<world, reading, batching, idleOn, hard, hardOn, indicator, pc,
                 then, call, fails, room>>

HardTick(s) ==
  /\ hard[s] = "on"
  /\ hard' = [hard EXCEPT ![s] = "fired"]
  /\ UNCHANGED <<world, reading, batching, idle, idleOn, hardOn, indicator, pc,
                 then, call, fails, room>>

Next ==
  \/ End \/ WaitCloses \/ Stop
  \/ \E s \in Streams :
       \/ \E chunk \in Chunks : Write(s, chunk)
       \/ Answered(s)
       \/ Reader(s) \/ Pump(s) \/ IdleTick(s) \/ HardTick(s)

(* The goroutines run, and the idle timer fires when the worker has paused *)
(* and all it wrote was taken: each chunk sets the timer anew.  The worker *)
(* reads, writes and ends as it likes.                                     *)
Fairness ==
  \A s \in Streams :
    /\ WF_vars(Reader(s)) /\ WF_vars(Pump(s))
    /\ WF_vars(IdleTick(s) /\ took[s] = Len(out[s]))

Spec == Init /\ [][Next]_vars
FairSpec == Spec /\ Fairness

-----------------------------------------------------------------------------
(* What the code keeps.                                                    *)

Waiting(s) == pc[s] = "select" /\ Visible(s, flushed[s] + 1, took[s]) # {}

(* A pump that waits with a text in its batch has its idle timer running,  *)
(* after flushes that kept the batch too.                                  *)
TextIsTimed == \A s \in Streams : Waiting(s) => idle[s] # "off"

(* No tick of a timer that was stopped is left to flush a later batch.     *)
NoStaleTick ==
  \A s \in Streams :
    (idle[s] # "off" => idleOn[s]) /\ (hard[s] # "off" => hardOn[s])

(* As long as the pump of stdout lives, the last message that the room has *)
(* taken shows what the screen shows of all that was flushed, if that is   *)
(* anything: no suppressed or failed message comes between the two.        *)
RoomShowsPicture ==
  \A s \in Streams \cap {"stdout"} :
    pc[s] = "select" /\ Picture(s, 1, flushed[s]) # {} =>
      room[s] = Picture(s, 1, flushed[s])

(* No indicator is left in the room once every pump has ended, however it  *)
(* came to, or sent what it held, in whichever order the calls of          *)
(* SetTyping are made after the unlock, if none of them failed.            *)
Holding(s) == pc[s] = "typing" \/ (typing[s] /\ pc[s] # "done")
TypingEnds ==
  shown => fails > 0 \/ ctxDone \/ \E s \in Streams : Holding(s)

(* When the worker pauses after k chunks the room comes to show what the   *)
(* screen shows of them, unless it writes on, it ends, the bridge is       *)
(* stopped, a call fails, the picture is too long or the pump is held up   *)
(* by a worker that does not read its answers.                             *)
Paused(s, k) == Len(out[s]) = k /\ Picture(s, 1, k) # {}
Shows(s, k) == Len(out[s]) = k /\ room[s] = Picture(s, 1, k)
TextDelivered ==
  \A s \in Streams \cap {"stdout"} : \A k \in Index :
    Paused(s, k)
      ~> \/ Shows(s, k) \/ Len(out[s]) > k
         \/ ended \/ ctxDone \/ fails > 0
         \/ Cardinality(lastSent[s]) > MaxPayload
         \/ [](pc[s] = "answer")

(* When the worker has ended both pumps end, one that waits for it to read *)
(* an answer too; when the bridge is stopped as well, so do the reading    *)
(* goroutines.                                                             *)
PumpEnds == ended ~> \A s \in Streams : pc[s] = "done"
ReaderEnds == ended /\ ctxDone ~> \A s \in Streams : reader[s] = "done"

-----------------------------------------------------------------------------
(* What the code does not keep.                                            *)

(* When the output has ended and every message was taken, the room shows   *)
(* what the screen shows of all that was read.                             *)
AllShownAtEnd ==
  \A s \in Streams \cap {"stdout"} :
    pc[s] = "done" /\ ~ctxDone /\ Picture(s, 1, read[s]) # {} =>
      room[s] = Picture(s, 1, read[s])
=============================================================================
