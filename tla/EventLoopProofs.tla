-------------------------- MODULE EventLoopProofs --------------------------
(***************************************************************************)
(* Proofs about EventLoop for any number of rooms and messages and any     *)
(* limits: its types, why a message is ever handled again, and the order   *)
(* in which messages are handled.                                          *)
(***************************************************************************)
EXTENDS EventLoop, WellFoundedInduction, TLAPS

(* A message that was handled is recorded, or lost its row, or is the one  *)
(* whose handler runs.                                                     *)
HandledIsRecorded ==
  \A e \in Messages :
    handled[e] > 0 =>
      rows[e] # "none" \/ RowLost(e) \/ (mode = "handle" /\ e = Current)

(* The token covers what was handled and nothing that was not sent; the    *)
(* rest of the batch comes after what was handled.                         *)
OrderInv ==
  /\ \A r \in Rooms : since[r] <= Len(timeline[r])
  /\ mode # "down" => \A r \in Rooms : top[r] <= since[r]
  /\ mode = "batch" => \A r \in Rooms : next[r] > top[r]
  /\ mode = "handle" => \A r \in Rooms : IF r = at THEN next[r] = top[r]
                                         ELSE next[r] > top[r]

LoopInv == TypeOK /\ HandledIsRecorded /\ ReplayOnlyAfterLoss /\ OrderInv

-----------------------------------------------------------------------------
(* The bounds are numbers, and the limits positive ones.                   *)
LEMMA Bounds ==
  /\ Limit \in Nat /\ Limit > 0
  /\ MaxDelay \in Nat /\ MaxDelay > 0
  /\ MaxEvents \in Nat /\ MaxFaults \in Nat
BY LimitAssumption, MaxDelayAssumption, BoundsAssumption

(* What the shared helpers do to the types.                                *)
LEMMA FaultType ==
  ASSUME TypeOK, Fault \/ UNCHANGED faults
  PROVE  faults' \in 0 .. MaxFaults
BY Bounds DEF TypeOK, Fault

(* What is lost is lost for a cause, and stays so.                         *)
LEMMA LoseType ==
  ASSUME TypeOK, NEW es, NEW why \in Causes, Lose(es, why)
  PROVE  /\ lost' \in [Messages -> SUBSET Causes]
         /\ \A e \in Messages : RowLost(e) => RowLost(e)'
         /\ why \in RowCauses => \A e \in Messages : e \in es => RowLost(e)'
BY DEF TypeOK, Lose, Causes, RowLost

-----------------------------------------------------------------------------
(* Initially nothing has happened.                                         *)
LEMMA InitInv == Init => LoopInv
<1> SUFFICES ASSUME Init PROVE LoopInv
  OBVIOUS
<1>1. TypeOK
  <2>1. \A r \in Rooms : timeline[r] = <<>>
    BY DEF Init
  <2>2. /\ timeline \in [Rooms -> Seq({"user", "bot"})]
        /\ \A r \in Rooms : Len(timeline[r]) <= MaxEvents
    BY <2>1, Bounds DEF Init
  <2>3. /\ rows \in [Messages -> {"none", "recent", "old"}]
        /\ handled \in [Messages -> 0 .. 2]
        /\ lost \in [Messages -> SUBSET Causes]
    BY DEF Init
  <2>4. /\ since \in [Rooms -> 0 .. MaxEvents]
        /\ next \in [Rooms -> 1 .. MaxEvents + 1]
        /\ top \in [Rooms -> 0 .. MaxEvents]
    BY Bounds DEF Init, Start
  <2>5. mode = "down" /\ at \in Rooms /\ ctxDone \in BOOLEAN
    BY DEF Init
  <2>6. /\ delay \in 1 .. MaxDelay /\ fails \in 0 .. MaxDelay
        /\ faults \in 0 .. MaxFaults
    <3>1. delay = 1 /\ fails = 0 /\ faults = 0
      BY DEF Init
    <3> QED
      BY <3>1, Bounds
  <2> QED
    BY <2>2, <2>3, <2>4, <2>5, <2>6 DEF TypeOK
<1>2. HandledIsRecorded /\ ReplayOnlyAfterLoss
  BY DEF Init, HandledIsRecorded, ReplayOnlyAfterLoss
<1>3. OrderInv
  BY DEF Init, OrderInv, Start
<1> QED
  BY <1>1, <1>2, <1>3 DEF LoopInv

-----------------------------------------------------------------------------
(* Every step keeps the types.  That next stays in its range when a        *)
(* handler has returned needs OrderInv: what it handled is in the batch.   *)
LEMMA TypeStep == TypeOK /\ OrderInv /\ [Next]_vars => TypeOK'
<1> SUFFICES ASSUME TypeOK, OrderInv, [Next]_vars PROVE TypeOK'
  OBVIOUS
<1> USE Bounds DEF TypeOK
<1>1. CASE Boot
  <2>1. /\ rows' \in [Messages -> {"none", "recent", "old"}]
        /\ lost' \in [Messages -> SUBSET Causes]
        /\ faults' \in 0 .. MaxFaults
    BY <1>1, LoseType, FaultType DEF Boot, Causes, RowCauses, Fault
  <2> QED
    BY <1>1, <2>1 DEF Boot, Start
<1>2. CASE SyncOk
  <2>1. next' \in [Rooms -> 1 .. MaxEvents + 1]
    <3>1. next' = [r \in Rooms |->
                     Max2(since[r], Max2(Len(timeline[r]), Limit) - Limit) + 1]
      BY <1>2 DEF SyncOk
    <3>2. \A r \in Rooms : since[r] \in 0 .. MaxEvents
                           /\ Len(timeline[r]) \in 0 .. MaxEvents
      OBVIOUS
    <3> QED
      BY <3>1, <3>2 DEF Max2
  <2>2. since' \in [Rooms -> 0 .. MaxEvents]
    BY <1>2 DEF SyncOk
  <2>3. lost' \in [Messages -> SUBSET Causes]
    BY <1>2, LoseType DEF SyncOk, Causes, PassCauses
  <2> QED
    BY <1>2, <2>1, <2>2, <2>3 DEF SyncOk
<1>3. CASE SyncFail
  BY <1>3 DEF SyncFail, Min2
<1>4. CASE Retry
  BY <1>4 DEF Retry, Min2
<1>5. CASE Mark
  <2>1. /\ rows' \in [Messages -> {"none", "recent", "old"}]
        /\ lost' \in [Messages -> SUBSET Causes]
        /\ faults' \in 0 .. MaxFaults
    BY <1>5, LoseType, FaultType DEF Mark, Causes, RowCauses, Fault
  <2>2. next[at] \in 1 .. MaxEvents
    BY <1>5 DEF Mark, OrderInv
  <2>3. next' \in [Rooms -> 1 .. MaxEvents + 1]
    BY <1>5, <2>2 DEF Mark
  <2> QED
    BY <1>5, <2>1, <2>3 DEF Mark
<1>6. CASE BatchDone
  BY <1>6 DEF BatchDone
<1>7. CASE Stop
  BY <1>7 DEF Stop
<1>8. ASSUME NEW r \in Rooms, Skip(r) PROVE TypeOK'
  <2>1. faults' \in 0 .. MaxFaults
    BY <1>8, FaultType DEF Skip, Fails
  <2>2. next' \in [Rooms -> 1 .. MaxEvents + 1]
    BY <1>8 DEF Skip, Turn, Pending
  <2>3. lost' \in [Messages -> SUBSET Causes]
    BY <1>8, LoseType DEF Skip, Causes, PassCauses
  <2> QED
    BY <1>8, <2>1, <2>2, <2>3 DEF Skip
<1>9. ASSUME NEW r \in Rooms, Handle(r) PROVE TypeOK'
  <2>1. top' \in [Rooms -> 0 .. MaxEvents]
    BY <1>9 DEF Handle, Turn, Pending
  <2>2. handled' \in [Messages -> 0 .. 2]
    <3> DEFINE e == <<r, next[r]>>
    <3>1. e \in Messages
      BY <1>9 DEF Handle, Turn, Pending, Messages
    <3>2. handled' = [handled EXCEPT ![e] = Min2(@ + 1, 2)]
      BY <1>9 DEF Handle
    <3> HIDE DEF e
    <3>3. handled[e] \in 0 .. 2
      BY <3>1
    <3>4. Min2(handled[e] + 1, 2) \in 0 .. 2
      BY <3>3 DEF Min2
    <3> QED
      BY <3>1, <3>2, <3>4
  <2> QED
    BY <1>9, <2>1, <2>2 DEF Handle
<1>10. CASE Age
  BY <1>10 DEF Age
<1>11. CASE Sigterm
  BY <1>11 DEF Sigterm
<1>12. CASE Crash
  <2>1. lost' \in [Messages -> SUBSET Causes]
    BY <1>12, LoseType DEF Crash, Causes, RowCauses
  <2> QED
    BY <1>12, <2>1 DEF Crash
<1>13. ASSUME NEW r \in Rooms, NEW sender \in {"user", "bot"}, Post(r, sender)
       PROVE  TypeOK'
  BY <1>13 DEF Post
<1>14. CASE UNCHANGED vars
  BY <1>14 DEF vars
<1> QED
  BY <1>1, <1>2, <1>3, <1>4, <1>5, <1>6, <1>7, <1>8, <1>9, <1>10, <1>11,
     <1>12, <1>13, <1>14 DEF Next, Run, World

-----------------------------------------------------------------------------
(* Every step keeps the history of what was handled: Handle takes only a   *)
(* message without a row, and Mark, Boot and Crash write down what becomes *)
(* of the row.                                                             *)
LEMMA HistoryStep ==
  LoopInv /\ [Next]_vars => (HandledIsRecorded /\ ReplayOnlyAfterLoss)'
<1> SUFFICES ASSUME LoopInv, [Next]_vars
             PROVE  (HandledIsRecorded /\ ReplayOnlyAfterLoss)'
  OBVIOUS
<1> USE DEF LoopInv, HandledIsRecorded, ReplayOnlyAfterLoss
<1>1. CASE Boot
  <2>1. \A e \in Messages :
          handled'[e] = handled[e] /\ (RowLost(e) => RowLost(e)')
    BY <1>1, LoseType DEF Boot, Causes, RowCauses, RowLost
  <2>2. \A e \in Messages :
          rows[e] # "none" => rows'[e] # "none" \/ RowLost(e)'
    <3> DEFINE old == {e \in Messages : rows[e] = "old"}
    <3>1. CASE Lose(old, "retention")
               /\ rows' = [e \in Messages |->
                            IF e \in old THEN "none" ELSE rows[e]]
      <4>1. \A e \in old : RowLost(e)'
        BY <3>1, LoseType DEF Causes, RowCauses
      <4> QED
        BY <3>1, <4>1
    <3>2. CASE UNCHANGED rows
      BY <3>2
    <3> QED
      BY <1>1, <3>1, <3>2 DEF Boot
  <2> QED
    BY <1>1, <2>1, <2>2 DEF Boot
<1>2. CASE SyncOk
  <2>1. \A e \in Messages : RowLost(e) => RowLost(e)'
    BY <1>2, LoseType DEF SyncOk, Causes, PassCauses
  <2> QED
    BY <1>2, <2>1 DEF SyncOk
<1>3. CASE SyncFail
  BY <1>3 DEF SyncFail, RowLost
<1>4. CASE Retry
  BY <1>4 DEF Retry, RowLost
<1>5. CASE Mark
  <2>1. \A e \in Messages :
          handled'[e] = handled[e] /\ (RowLost(e) => RowLost(e)')
    BY <1>5, LoseType DEF Mark, Causes, RowCauses, RowLost
  <2>2. \A e \in Messages : rows[e] # "none" => rows'[e] # "none"
    BY <1>5 DEF Mark, TypeOK
  <2>3. \A e \in Messages :
          e = Current => rows'[e] # "none" \/ RowLost(e)'
    BY <1>5, LoseType DEF Mark, Causes, RowCauses, TypeOK, RowLost
  <2> QED
    BY <2>1, <2>2, <2>3
<1>6. CASE BatchDone
  BY <1>6 DEF BatchDone, RowLost
<1>7. CASE Stop
  BY <1>7 DEF Stop, RowLost
<1>8. ASSUME NEW r \in Rooms, Skip(r)
      PROVE  (HandledIsRecorded /\ ReplayOnlyAfterLoss)'
  <2>1. \A e \in Messages : RowLost(e) => RowLost(e)'
    BY <1>8, LoseType DEF Skip, Causes, PassCauses, RowLost
  <2> QED
    BY <1>8, <2>1 DEF Skip, Turn
<1>9. ASSUME NEW r \in Rooms, Handle(r)
      PROVE  (HandledIsRecorded /\ ReplayOnlyAfterLoss)'
  <2> DEFINE m == <<r, next[r]>>
  <2>1. m \in Messages
    BY <1>9, Bounds DEF Handle, Turn, Pending, Messages, TypeOK
  <2>2. rows[m] = "none" /\ mode = "batch"
    BY <1>9 DEF Handle, Turn, Known
  <2>3. handled' = [handled EXCEPT ![m] = Min2(@ + 1, 2)]
    BY <1>9 DEF Handle
  <2>4. /\ m \in Messages
        /\ rows[m] = "none" /\ mode = "batch"
        /\ handled' = [handled EXCEPT ![m] = Min2(@ + 1, 2)]
        /\ UNCHANGED <<rows, lost>>
    BY <1>9, <2>1, <2>2, <2>3 DEF Handle
  <2>5. mode' = "handle" /\ Current' = m
    BY <1>9 DEF Handle, Current
  <2> HIDE DEF m
  <2>6. handled[m] > 0 => RowLost(m)
    BY <2>4
  <2>7. handled'[m] > 1 => handled[m] > 0
    <3>1. handled[m] \in 0 .. 2 /\ handled'[m] = Min2(handled[m] + 1, 2)
      BY <2>4 DEF TypeOK
    <3> QED
      BY <3>1 DEF Min2
  <2> QED
    BY <2>4, <2>5, <2>6, <2>7 DEF TypeOK, RowLost
<1>10. CASE Age
  BY <1>10 DEF Age, TypeOK, Current, RowLost
<1>11. CASE Sigterm
  BY <1>11 DEF Sigterm, Current, RowLost
<1>12. CASE Crash
  <2>1. /\ \A e \in Messages : RowLost(e) => RowLost(e)'
        /\ mode = "handle" /\ Current \in Messages =>
             \A e \in Messages : e = Current => RowLost(e)'
    BY <1>12, LoseType DEF Crash, Causes, RowCauses
  <2> QED
    BY <1>12, <2>1 DEF Crash
<1>13. ASSUME NEW r \in Rooms, NEW sender \in {"user", "bot"}, Post(r, sender)
       PROVE  (HandledIsRecorded /\ ReplayOnlyAfterLoss)'
  BY <1>13 DEF Post, Current, RowLost
<1>14. CASE UNCHANGED vars
  BY <1>14 DEF vars, Current, RowLost
<1> QED
  BY <1>1, <1>2, <1>3, <1>4, <1>5, <1>6, <1>7, <1>8, <1>9, <1>10, <1>11,
     <1>12, <1>13, <1>14 DEF Next, Run, World

-----------------------------------------------------------------------------
(* Every step keeps the order: a sync begins after its token, and the      *)
(* token never falls behind what was handled while the governor runs.      *)
LEMMA OrderStep == TypeOK /\ OrderInv /\ [Next]_vars => OrderInv'
<1> SUFFICES ASSUME TypeOK, OrderInv, [Next]_vars PROVE OrderInv'
  OBVIOUS
<1> USE Bounds DEF OrderInv, TypeOK
<1>1. CASE Boot
  BY <1>1 DEF Boot, Start
<1>2. CASE SyncOk
  <2> SUFFICES ASSUME NEW r \in Rooms
               PROVE  /\ since'[r] <= Len(timeline'[r])
                      /\ top'[r] <= since'[r]
                      /\ next'[r] > top'[r]
    BY <1>2 DEF SyncOk
  <2>1. /\ since[r] \in Nat /\ top[r] \in Nat /\ Len(timeline[r]) \in Nat
        /\ top[r] <= since[r] /\ since[r] <= Len(timeline[r])
    BY <1>2 DEF SyncOk
  <2>2. /\ since'[r] = Len(timeline[r]) /\ timeline' = timeline /\ top' = top
        /\ next'[r] = Max2(since[r], Max2(Len(timeline[r]), Limit) - Limit) + 1
    BY <1>2 DEF SyncOk
  <2> QED
    BY <2>1, <2>2 DEF Max2
<1>3. CASE SyncFail
  BY <1>3 DEF SyncFail
<1>4. CASE Retry
  BY <1>4 DEF Retry
<1>5. CASE Mark
  BY <1>5 DEF Mark
<1>6. CASE BatchDone
  BY <1>6 DEF BatchDone
<1>7. CASE Stop
  BY <1>7 DEF Stop
<1>8. ASSUME NEW r \in Rooms, Skip(r) PROVE OrderInv'
  BY <1>8 DEF Skip, Turn
<1>9. ASSUME NEW r \in Rooms, Handle(r) PROVE OrderInv'
  BY <1>9 DEF Handle, Turn, Pending
<1>10. CASE Age
  BY <1>10 DEF Age
<1>11. CASE Sigterm
  BY <1>11 DEF Sigterm
<1>12. CASE Crash
  BY <1>12 DEF Crash
<1>13. ASSUME NEW r \in Rooms, NEW sender \in {"user", "bot"}, Post(r, sender)
       PROVE  OrderInv'
  <2>1. \A q \in Rooms : Len(timeline'[q]) >= Len(timeline[q])
    BY <1>13 DEF Post
  <2> QED
    BY <1>13, <2>1 DEF Post
<1>14. CASE UNCHANGED vars
  BY <1>14 DEF vars
<1> QED
  BY <1>1, <1>2, <1>3, <1>4, <1>5, <1>6, <1>7, <1>8, <1>9, <1>10, <1>11,
     <1>12, <1>13, <1>14 DEF Next, Run, World

-----------------------------------------------------------------------------
(* LoopInv is an invariant of the event loop.                              *)
THEOREM LoopInvariance == Spec => []LoopInv
<1>1. LoopInv /\ [Next]_vars => LoopInv'
  BY TypeStep, HistoryStep, OrderStep DEF LoopInv
<1> QED
  BY InitInv, <1>1, PTL DEF Spec

(* Every variable of the event loop keeps its type.                        *)
THEOREM LoopTypes == Spec => []TypeOK
<1>1. LoopInv => TypeOK
  BY DEF LoopInv
<1> QED
  BY LoopInvariance, <1>1, PTL

(* Across any number of restarts and crashes a message is handled again    *)
(* only when its row was never written or did not outlive the retention.   *)
THEOREM ReplaysAreExplained == Spec => []ReplayOnlyAfterLoss
<1>1. LoopInv => ReplayOnlyAfterLoss
  BY DEF LoopInv
<1> QED
  BY LoopInvariance, <1>1, PTL

(* From one start of the governor to its end the messages of a room are    *)
(* handled in the order they were sent in, and none of them twice.         *)
THEOREM InOrder == Spec => HandledInOrder
<1> DEFINE Later == \A r \in Rooms :
                      mode # "handle" /\ mode' = "handle" /\ at' = r =>
                        next[r] > top[r]
<1>1. LoopInv /\ [Next]_vars => [Later]_vars
  <2> SUFFICES ASSUME LoopInv, Next, NEW r \in Rooms,
                      mode # "handle", mode' = "handle", at' = r
               PROVE  next[r] > top[r]
    BY DEF vars
  <2>1. PICK q \in Rooms : Handle(q)
    BY DEF Next, Run, World, Boot, SyncOk, SyncFail, Retry, Mark, BatchDone,
           Stop, Skip, Age, Sigterm, Crash, Post
  <2> QED
    BY <2>1 DEF Handle, Turn, LoopInv, OrderInv
<1> QED
  BY LoopInvariance, <1>1, PTL DEF Spec, HandledInOrder

-----------------------------------------------------------------------------
(* What a row, and the handler that runs, say of a message: it was handled.*)
RowInv ==
  /\ \A e \in Messages : rows[e] # "none" => handled[e] > 0
  /\ mode = "handle" => handled[Current] > 0

(* What no message is passed over by, as an inductive invariant.           *)
PassInv == RowInv /\ NoMessagePassedOver

(* What is lost is recorded, and nothing of it taken back.                 *)
LEMMA LoseGrows ==
  ASSUME NEW es, NEW why, Lose(es, why)
  PROVE  \A e \in Messages :
           lost[e] \subseteq lost'[e] /\ (e \in es => why \in lost'[e])
BY DEF Lose

(* No step takes a message back, nor what it was lost for.                 *)
LEMMA HandledGrows ==
  ASSUME TypeOK, [Next]_vars
  PROVE  \A e \in Messages :
           (handled[e] > 0 => handled'[e] > 0) /\ (Missed(e) => Missed(e)')
<1>1. \A e \in Messages : handled[e] > 0 => handled'[e] > 0
  <2>1. CASE \E r \in Rooms : Handle(r)
    <3>1. PICK r \in Rooms : Handle(r)
      BY <2>1
    <3> DEFINE m == <<r, next[r]>>
    <3>2. handled' = [handled EXCEPT ![m] = Min2(@ + 1, 2)]
      BY <3>1 DEF Handle
    <3>3. \A e \in Messages : handled[e] \in 0 .. 2
      BY DEF TypeOK
    <3> HIDE DEF m
    <3>4. \A e \in Messages : handled'[e] \in {handled[e], Min2(handled[e] + 1, 2)}
      BY <3>2 DEF TypeOK
    <3> QED
      BY <3>3, <3>4 DEF Min2
  <2>2. CASE ~\E r \in Rooms : Handle(r)
    <3>1. UNCHANGED handled
      BY <2>2 DEF Next, Run, World, Boot, SyncOk, SyncFail, Retry, Mark,
                  BatchDone, Stop, Skip, Age, Sigterm, Crash, Post, vars
    <3> QED
      BY <3>1
  <2> QED
    BY <2>1, <2>2
<1>2. \A e \in Messages : lost[e] \subseteq lost'[e]
  <2>1. (\E es, why : Lose(es, why)) \/ UNCHANGED lost
    BY Zenon DEF Next, Run, World, Boot, SyncOk, SyncFail, Retry, Mark,
                 BatchDone, Stop, Skip, Handle, Age, Sigterm, Crash, Post, vars
  <2> QED
    BY <2>1, LoseGrows
<1> QED
  BY <1>1, <1>2 DEF Missed

(* Every step keeps what the rows say.                                     *)
LEMMA RowStep == LoopInv /\ RowInv /\ [Next]_vars => RowInv'
<1> SUFFICES ASSUME LoopInv, RowInv, [Next]_vars PROVE RowInv'
  OBVIOUS
<1>0. TypeOK /\ OrderInv
  BY DEF LoopInv
<1>1. \A e \in Messages : handled[e] > 0 => handled'[e] > 0
  BY <1>0, HandledGrows
<1>2. mode = "handle" => Current \in Messages
  BY <1>0, Bounds DEF TypeOK, OrderInv, Messages, Current
<1>3. CASE Boot
  BY <1>1, <1>3 DEF RowInv, Boot
<1>4. CASE Mark
  <2>1. rows' \in {rows, [rows EXCEPT ![Current] = "recent"]}
    BY <1>4 DEF Mark
  <2>2. mode = "handle" /\ mode' = "batch"
    BY <1>4 DEF Mark
  <2> QED
    BY <1>0, <1>1, <1>2, <2>1, <2>2 DEF RowInv, TypeOK
<1>5. ASSUME NEW r \in Rooms, Handle(r) PROVE RowInv'
  <2> DEFINE m == <<r, next[r]>>
  <2>1. m \in Messages
    BY <1>0, <1>5, Bounds DEF Handle, Turn, Pending, Messages, TypeOK
  <2>2. /\ rows' = rows /\ Current' = m
        /\ handled' = [handled EXCEPT ![m] = Min2(@ + 1, 2)]
    BY <1>5 DEF Handle, Current
  <2> HIDE DEF m
  <2>3. handled'[m] > 0
    <3>1. handled[m] \in 0 .. 2 /\ handled'[m] = Min2(handled[m] + 1, 2)
      BY <1>0, <2>1, <2>2 DEF TypeOK
    <3> QED
      BY <3>1 DEF Min2
  <2> QED
    BY <1>1, <2>2, <2>3 DEF RowInv
<1>6. CASE Age
  BY <1>0, <1>1, <1>6 DEF RowInv, Age, TypeOK, Current
<1>7. CASE SyncOk \/ SyncFail \/ Retry \/ BatchDone \/ Stop
           \/ \E r \in Rooms : Skip(r)
  <2>1. rows' = rows /\ mode' # "handle"
    BY <1>7 DEF SyncOk, SyncFail, Retry, BatchDone, Stop, Skip, Turn
  <2> QED
    BY <1>1, <2>1 DEF RowInv
<1>8. CASE Crash \/ Sigterm \/ UNCHANGED vars
           \/ \E r \in Rooms, sender \in {"user", "bot"} : Post(r, sender)
  <2>1. UNCHANGED <<rows, Current>> /\ mode' \in {mode, "down"}
    BY <1>8 DEF Crash, Sigterm, Post, Current, vars
  <2> QED
    BY <1>1, <1>2, <2>1 DEF RowInv
<1> QED
  BY <1>3, <1>4, <1>5, <1>6, <1>7, <1>8 DEF Next, Run, World

(* A message that a step passes over has been handled, or is lost to one   *)
(* of the two causes: Mark and Skip pass over the one that is next, and    *)
(* SyncOk those that the timeline was cut by.                              *)
LEMMA PassStep ==
  LoopInv /\ PassInv /\ [Next]_vars => NoMessagePassedOver'
<1> SUFFICES ASSUME LoopInv, PassInv, [Next]_vars, NEW e \in Messages,
                    mode' # "down", Passed(e)', timeline'[e[1]][e[2]] = "user"
             PROVE  handled'[e] > 0 \/ Missed(e)'
  BY DEF NoMessagePassedOver
<1>0. TypeOK /\ OrderInv /\ RowInv
  BY DEF LoopInv, PassInv
<1>1. (handled[e] > 0 => handled'[e] > 0) /\ (Missed(e) => Missed(e)')
  BY <1>0, HandledGrows
<1>2. /\ e[1] \in Rooms /\ e[2] \in 1 .. MaxEvents /\ e = <<e[1], e[2]>>
  BY DEF Messages
<1> DEFINE r == e[1]
           n == e[2]
<1>3. /\ since[r] \in Nat /\ next[r] \in Nat /\ n \in Nat /\ n > 0
      /\ since[r] <= Len(timeline[r])
  BY <1>0, <1>2, Bounds DEF TypeOK, OrderInv
<1>4. SUFFICES ASSUME ~(mode # "down" /\ Passed(e) /\ timeline[r][n] = "user")
               PROVE  handled'[e] > 0 \/ Missed(e)'
  BY <1>1 DEF PassInv, NoMessagePassedOver
<1>5. CASE Boot
  BY <1>2, <1>5, Bounds DEF Boot, Passed, Start
<1>6. CASE SyncOk
  <2>1. timeline' = timeline /\ mode = "loop" /\ mode' = "batch"
    BY <1>6 DEF SyncOk
  <2>2. since[r] < n /\ n < next'[r]
    BY <1>3, <1>4, <2>1 DEF Passed
  <2>3. "limited" \in lost'[e]
    <3> DEFINE cut == {f \in Messages : since[f[1]] < f[2] /\ f[2] < next'[f[1]]}
    <3>1. Lose(cut, "limited") /\ e \in cut
      BY <1>6, <2>2 DEF SyncOk
    <3> QED
      BY <3>1, LoseGrows
  <2> QED
    BY <2>3 DEF Missed, PassCauses
<1>7. CASE Mark
  <2>1. /\ mode = "handle" /\ timeline' = timeline /\ since' = since
        /\ next' = [next EXCEPT ![at] = @ + 1]
    BY <1>7 DEF Mark
  <2>2. e = Current
    BY <1>0, <1>2, <1>3, <1>4, <1>7, <2>1 DEF Mark, Passed, Current, TypeOK
  <2> QED
    BY <1>0, <1>1, <2>1, <2>2 DEF RowInv
<1>8. ASSUME NEW q \in Rooms, Skip(q) PROVE handled'[e] > 0 \/ Missed(e)'
  <2>1. /\ mode = "batch" /\ timeline' = timeline /\ since' = since
        /\ mode' = mode /\ next' = [next EXCEPT ![q] = @ + 1]
    BY <1>8 DEF Skip, Turn
  <2>2. r = q /\ n = next[q] /\ timeline[r][n] = "user"
    BY <1>0, <1>2, <1>3, <1>4, <2>1 DEF Passed, TypeOK
  <2>3. e = <<q, next[q]>>
    BY <1>2, <2>2
  <2>4. CASE Known(e)
    BY <1>0, <1>1, <2>2, <2>4 DEF Known, RowInv
  <2>5. CASE Lose({e}, "lookup")
    BY <2>5, LoseGrows DEF Missed, PassCauses
  <2> QED
    BY <1>8, <2>3, <2>4, <2>5 DEF Skip
<1>9. ASSUME NEW q \in Rooms, Handle(q) PROVE FALSE
  BY <1>4, <1>9 DEF Handle, Turn, Passed
<1>10. CASE BatchDone
  BY <1>2, <1>3, <1>4, <1>10 DEF BatchDone, Pending, Passed
<1>11. ASSUME NEW q \in Rooms, NEW sender \in {"user", "bot"}, Post(q, sender)
       PROVE  FALSE
  <2>1. n <= since[r] /\ Passed(e) /\ mode' = mode
    BY <1>11 DEF Post, Passed
  <2>2. timeline'[r][n] = timeline[r][n]
    <3>1. timeline[r] \in Seq({"user", "bot"}) /\ Len(timeline[r]) \in Nat
      BY <1>0, <1>2 DEF TypeOK
    <3>2. n \in 1 .. Len(timeline[r])
      BY <1>3, <2>1, <3>1
    <3> QED
      BY <1>0, <1>2, <1>11, <3>1, <3>2 DEF Post, TypeOK
  <2> QED
    BY <1>4, <2>1, <2>2
<1>12. CASE SyncFail \/ Retry \/ Stop \/ Age \/ Sigterm \/ Crash
            \/ UNCHANGED vars
  BY <1>4, <1>12 DEF SyncFail, Retry, Stop, Age, Sigterm, Crash, vars, Passed
<1> QED
  BY <1>5, <1>6, <1>7, <1>8, <1>9, <1>10, <1>11, <1>12 DEF Next, Run, World

(* A message that the sync token has left behind was handled, unless its   *)
(* lookup failed or the homeserver cut it from the timeline.               *)
THEOREM NothingPassedOver == Spec => []NoMessagePassedOver
<1>1. Init => PassInv
  BY Bounds DEF Init, PassInv, RowInv, NoMessagePassedOver
<1>2. LoopInv /\ PassInv /\ [Next]_vars => PassInv'
  BY RowStep, PassStep DEF PassInv
<1>3. PassInv => NoMessagePassedOver
  BY DEF PassInv
<1> QED
  BY <1>1, <1>2, <1>3, LoopInvariance, PTL DEF Spec

-----------------------------------------------------------------------------
(* The delay.                                                              *)

(* Induction, for a set of numbers: one that holds 0, and with every       *)
(* number the next, holds all; or there were a least one missing.          *)
LEMMA NatSetInduction ==
  ASSUME NEW T \in SUBSET Nat, 0 \in T, \A n \in T : n + 1 \in T
  PROVE  \A n \in Nat : n \in T
<1> DEFINE R == OpToRel(<, Nat)
<1>1. IsWellFoundedOn(R, Nat)
  BY NatLessThanWellFounded
<1>2. \A x, y \in Nat : <<x, y>> \in R <=> x < y
  BY DEF OpToRel
<1> HIDE DEF R
<1>3. SUFFICES ASSUME Nat \ T # {} PROVE FALSE
  OBVIOUS
<1>4. PICK x \in Nat \ T : \A y \in Nat \ T : ~(<<y, x>> \in R)
  BY <1>1, <1>3, WFMin, Zenon
<1>5. x - 1 \in Nat /\ x - 1 < x
  BY <1>4
<1>6. <<x - 1, x>> \in R
  BY <1>2, <1>4, <1>5, Zenon
<1>7. x - 1 \in T
  BY <1>4, <1>5, <1>6, Zenon
<1>8. (x - 1) + 1 \in T
  BY <1>7
<1> QED
  BY <1>4, <1>5, <1>8

(* The doublings up to n.                                                  *)
Doublings(n, g) ==
  /\ g \in [0 .. n -> Nat]
  /\ g[0] = 1
  /\ \A i \in 1 .. n : g[i] = 2 * g[i - 1]

(* They exist for every n.                                                 *)
LEMMA DoublingsExist == \A n \in Nat : \E g : Doublings(n, g)
<1> DEFINE T == {n \in Nat : \E g : Doublings(n, g)}
<1>1. 0 \in T
  <2>1. Doublings(0, [i \in 0 .. 0 |-> 1])
    BY DEF Doublings
  <2> QED
    BY <2>1
<1>2. ASSUME NEW n \in T PROVE n + 1 \in T
  <2>1. PICK g : Doublings(n, g)
    BY <1>2
  <2> DEFINE h == [i \in 0 .. n + 1 |-> IF i = n + 1 THEN 2 * g[n] ELSE g[i]]
  <2>2. /\ g \in [0 .. n -> Nat] /\ g[0] = 1
        /\ \A i \in 1 .. n : g[i] = 2 * g[i - 1]
    BY <2>1 DEF Doublings
  <2>3. n \in Nat
    BY <1>2
  <2>4. h \in [0 .. n + 1 -> Nat] /\ h[0] = 1
    BY <2>2, <2>3
  <2>5. \A i \in 1 .. n + 1 : h[i] = 2 * h[i - 1]
    BY <2>2, <2>3
  <2>6. Doublings(n + 1, h)
    BY <2>4, <2>5 DEF Doublings
  <2> QED
    BY <2>3, <2>6
<1>3. T \in SUBSET Nat
  OBVIOUS
<1> HIDE DEF T
<1>4. \A n \in Nat : n \in T
  BY <1>1, <1>2, <1>3, NatSetInduction
<1> QED
  BY <1>4 DEF T

(* The doublings up to two bounds agree where both are defined.            *)
LEMMA DoublingsAgree ==
  ASSUME NEW m \in Nat, NEW n \in Nat, NEW g, NEW h,
         Doublings(m, g), Doublings(n, h), m <= n
  PROVE  \A i \in 0 .. m : g[i] = h[i]
<1> DEFINE T == {i \in Nat : i <= m => g[i] = h[i]}
<1>1. /\ g[0] = 1 /\ h[0] = 1
      /\ \A i \in 1 .. m : g[i] = 2 * g[i - 1]
      /\ \A i \in 1 .. n : h[i] = 2 * h[i - 1]
  BY DEF Doublings
<1>2. 0 \in T
  BY <1>1
<1>3. ASSUME NEW i \in T PROVE i + 1 \in T
  <2>1. i \in Nat /\ (i <= m => g[i] = h[i])
    BY <1>3
  <2>2. i + 1 <= m => g[i + 1] = h[i + 1]
    <3> SUFFICES ASSUME i + 1 <= m PROVE g[i + 1] = h[i + 1]
      OBVIOUS
    <3>1. i + 1 \in 1 .. m /\ i + 1 \in 1 .. n /\ (i + 1) - 1 = i
      BY <2>1
    <3>2. g[i + 1] = 2 * g[i] /\ h[i + 1] = 2 * h[i]
      BY <1>1, <3>1
    <3> QED
      BY <2>1, <3>2
  <2> QED
    BY <2>1, <2>2
<1>4. T \in SUBSET Nat
  OBVIOUS
<1> HIDE DEF T
<1>5. \A i \in Nat : i \in T
  BY <1>2, <1>3, <1>4, NatSetInduction
<1> QED
  BY <1>5 DEF T

(* So Doubled is the function its definition asks for.                     *)
LEMMA DoubledDef ==
  \A k \in Nat : Doubled[k] = IF k = 0 THEN 1 ELSE 2 * Doubled[k - 1]
<1> DEFINE G(n) == CHOOSE g : Doublings(n, g)
           f == [k \in Nat |-> G(k)[k]]
<1>1. \A n \in Nat : Doublings(n, G(n))
  BY DoublingsExist
<1>2. ASSUME NEW k \in Nat
      PROVE  f[k] = IF k = 0 THEN 1 ELSE 2 * f[k - 1]
  <2>1. CASE k = 0
    <3>1. G(0)[0] = 1
      BY <1>1 DEF Doublings
    <3> QED
      BY <2>1, <3>1
  <2>2. CASE k # 0
    <3>1. k - 1 \in Nat /\ k - 1 <= k /\ k - 1 \in 0 .. k - 1 /\ k \in 1 .. k
      BY <2>2
    <3>2. G(k)[k] = 2 * G(k)[k - 1]
      BY <1>1, <3>1 DEF Doublings
    <3>3. G(k - 1)[k - 1] = G(k)[k - 1]
      <4> HIDE DEF G
      <4> QED
        BY <1>1, <3>1, DoublingsAgree
    <3> QED
      BY <2>2, <3>1, <3>2, <3>3
  <2> QED
    BY <2>1, <2>2
<1>3. f = [k \in Nat |-> IF k = 0 THEN 1 ELSE 2 * f[k - 1]]
  <2> HIDE DEF G
  <2>1. \A k \in Nat : f[k] = IF k = 0 THEN 1 ELSE 2 * f[k - 1]
    BY <1>2
  <2> QED
    BY <2>1
<1> HIDE DEF f
<1>4. Doubled = [k \in Nat |-> IF k = 0 THEN 1 ELSE 2 * Doubled[k - 1]]
  BY <1>3, Zenon DEF Doubled
<1> QED
  BY <1>4, Zenon

(* It grows faster than the number of doublings, so that a count that      *)
(* stops at MaxDelay is enough to tell the delay.                          *)
LEMMA DoubledGrows == \A k \in Nat : Doubled[k] \in Nat /\ Doubled[k] > k
<1> DEFINE T == {k \in Nat : Doubled[k] \in Nat /\ Doubled[k] > k}
<1>1. 0 \in T
  BY DoubledDef
<1>2. ASSUME NEW k \in T PROVE k + 1 \in T
  <2>1. k \in Nat /\ Doubled[k] \in Nat /\ Doubled[k] > k
    BY <1>2
  <2>2. Doubled[k + 1] = 2 * Doubled[k]
    <3>1. k + 1 \in Nat /\ k + 1 # 0 /\ (k + 1) - 1 = k
      BY <2>1
    <3> QED
      BY <3>1, DoubledDef
  <2> QED
    BY <2>1, <2>2
<1>3. T \in SUBSET Nat
  OBVIOUS
<1> HIDE DEF T
<1>4. \A k \in Nat : k \in T
  BY <1>1, <1>2, <1>3, NatSetInduction
<1> QED
  BY <1>4 DEF T

(* A sync that succeeds resets the delay, and a wait follows a failure.    *)
DelayInv ==
  /\ DelayDoubles
  /\ mode \in {"batch", "handle"} => delay = 1 /\ fails = 0
  /\ mode = "backoff" => fails > 0

(* Every step keeps the delay where the failures in a row put it.          *)
LEMMA DelayStep == TypeOK /\ DelayInv /\ [Next]_vars => DelayInv'
<1> SUFFICES ASSUME TypeOK, DelayInv, [Next]_vars PROVE DelayInv'
  OBVIOUS
<1>1. /\ delay \in 1 .. MaxDelay /\ fails \in 0 .. MaxDelay
      /\ MaxDelay \in Nat /\ MaxDelay > 0
  BY Bounds DEF TypeOK
<1>2. Doubled[0] = 1
  BY DoubledDef
<1>3. \A k \in 0 .. MaxDelay : Doubled[k] \in Nat /\ Doubled[k] > k
  BY <1>1, DoubledGrows
<1>4. ASSUME delay' = 1, fails' = 0, mode' # "backoff" PROVE DelayInv'
  BY <1>1, <1>2, <1>4 DEF DelayInv, DelayDoubles, Min2
<1>5. ASSUME UNCHANGED <<delay, fails>>, mode' \in {mode, "down"} PROVE DelayInv'
  BY <1>5 DEF DelayInv, DelayDoubles
<1>6. CASE Boot \/ SyncOk
  BY <1>4, <1>6 DEF Boot, SyncOk
<1>7. CASE SyncFail
  <2>1. /\ delay = Min2(Doubled[fails], MaxDelay) /\ delay' = delay
        /\ mode' = "backoff" /\ fails' = Min2(fails + 1, MaxDelay)
    BY <1>7 DEF SyncFail, DelayInv, DelayDoubles
  <2>2. fails' > 0 /\ fails' - 1 \in 0 .. MaxDelay
    BY <1>1, <2>1 DEF Min2
  <2>3. CASE fails < MaxDelay
    <3>1. fails' - 1 = fails
      BY <1>1, <2>1, <2>3 DEF Min2
    <3> QED
      BY <2>1, <2>2, <3>1 DEF DelayInv, DelayDoubles
  <2>4. CASE fails = MaxDelay
    <3>1. fails' - 1 = MaxDelay - 1
      BY <1>1, <2>1, <2>4 DEF Min2
    <3>2. Doubled[fails' - 1] >= MaxDelay /\ Doubled[fails] >= MaxDelay
      <4>1. Doubled[MaxDelay - 1] \in Nat /\ Doubled[MaxDelay - 1] > MaxDelay - 1
        BY <1>1, <1>3
      <4>2. Doubled[MaxDelay] \in Nat /\ Doubled[MaxDelay] > MaxDelay
        BY <1>1, <1>3
      <4> QED
        BY <1>1, <2>4, <3>1, <4>1, <4>2
    <3>3. /\ Doubled[fails' - 1] \in Nat /\ Doubled[fails] \in Nat
      BY <1>1, <1>3, <2>2
    <3>4. delay' = Min2(Doubled[fails' - 1], MaxDelay)
      BY <1>1, <2>1, <3>2, <3>3 DEF Min2
    <3> QED
      BY <2>1, <2>2, <3>4 DEF DelayInv, DelayDoubles
  <2> QED
    BY <1>1, <2>3, <2>4
<1>8. CASE Retry
  <2>1. /\ delay = Min2(Doubled[fails - 1], MaxDelay) /\ fails > 0
        /\ delay' = Min2(2 * delay, MaxDelay) /\ fails' = fails
        /\ mode' = "loop"
    BY <1>8 DEF Retry, DelayInv, DelayDoubles
  <2>2. Doubled[fails] = 2 * Doubled[fails - 1] /\ Doubled[fails - 1] \in Nat
    BY <1>1, <1>3, <2>1, DoubledDef
  <2>3. delay' = Min2(Doubled[fails], MaxDelay)
    BY <1>1, <2>1, <2>2 DEF Min2
  <2> QED
    BY <2>1, <2>3 DEF DelayInv, DelayDoubles
<1>9. CASE BatchDone
  <2>1. mode = "batch" /\ mode' = "loop" /\ delay' = delay /\ fails' = fails
    BY <1>9 DEF BatchDone
  <2> QED
    BY <1>4, <2>1 DEF DelayInv
<1>10. CASE Mark \/ \E r \in Rooms : Handle(r)
  <2>1. /\ mode \in {"batch", "handle"} /\ mode' \in {"batch", "handle"}
        /\ delay' = delay /\ fails' = fails
    BY <1>10 DEF Mark, Handle, Turn
  <2> QED
    BY <1>4, <2>1 DEF DelayInv
<1>11. CASE \/ Stop \/ Age \/ Sigterm \/ Crash \/ UNCHANGED vars
            \/ \E r \in Rooms : Skip(r)
            \/ \E r \in Rooms, sender \in {"user", "bot"} : Post(r, sender)
  BY <1>5, <1>11 DEF Stop, Age, Sigterm, Crash, Skip, Post, vars
<1> QED
  BY <1>6, <1>7, <1>8, <1>9, <1>10, <1>11 DEF Next, Run, World

(* The waits between failed syncs double up to the limit, whatever the     *)
(* limit, and start anew with the first sync that succeeds.                *)
THEOREM DelaysDouble == Spec => []DelayDoubles
<1>1. Init => DelayInv
  BY DEF Init, DelayInv, DelayDoubles
<1>2. LoopInv /\ DelayInv /\ [Next]_vars => DelayInv'
  BY DelayStep DEF LoopInv
<1>3. DelayInv => DelayDoubles
  BY DEF DelayInv
<1> QED
  BY <1>1, <1>2, <1>3, LoopInvariance, PTL DEF Spec
=============================================================================
