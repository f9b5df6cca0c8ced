-------------------------- MODULE CallTrackerProof --------------------------
(***************************************************************************)
(* The call tracker.  For any packets, streams and calls, and any number   *)
(* of goroutines at once: the inductive invariant of CallTracker, its      *)
(* safety properties, and that it implements the life of a call in         *)
(* CallLife.                                                               *)
(* For every width of uint and every number of frames that width can       *)
(* count: the types of FrameLoss, that TotalPackets never wraps, and that  *)
(* EndCall never divides by zero.  For any length of a transmission and    *)
(* any stray frames: what FrameLoss promises holds of it, and, when no two *)
(* frames are lost in a row and none is out of turn, so does what          *)
(* LostSequences is for.                                                   *)
(***************************************************************************)
EXTENDS FrameStream, CallTracker, FiniteSetTheorems, TLAPS

LEMMA CreatedType == Created \in 0..MaxCalls
<1> DEFINE S == {c \in Calls : db[c] # "none"}
<1>1. MaxCalls \in Nat /\ IsFiniteSet(Calls) /\ Cardinality(Calls) = MaxCalls
  BY TrackerAssumption, FS_Interval DEF Calls
<1>2. S \subseteq Calls
  OBVIOUS
<1>3. IsFiniteSet(S) /\ Cardinality(S) <= Cardinality(Calls)
  BY <1>1, <1>2, FS_Subset
<1>4. Cardinality(S) \in Nat
  BY <1>3, FS_CardinalityType
<1>5. QED BY <1>1, <1>3, <1>4 DEF Created

LEMMA CallsAreNumbers == Calls \subseteq Nat /\ NoCall \notin Calls
BY TrackerAssumption DEF Calls, NoCall

\* The call goes into the map: nobody else has heard of it.
LEMMA InsertKeeps ==
    ASSUME TrackerInv, NEW p \in Procs, Insert(p)
    PROVE  TrackerInv'
<1>1. PICK c \in Calls : c = cur[p] /\ pc[p] = "insert" /\ stream[c] = packet[p]
  BY DEF TrackerInv, Insert, HoldsACall, Holding, Starting, Updating, Ending
<1>2. TypeOK'
  BY <1>1 DEF TrackerInv, TypeOK, Insert, Goto, Running, Holding, Starting, Updating, Ending, NoCall
<1>3. /\ pc'[p] = "arm" /\ cur'[p] = c
      /\ \A q \in Procs : q # p => pc'[q] = pc[q] /\ cur'[q] = cur[q]
      /\ inFlight' = inFlight \cup {c}
      /\ \A q \in Procs : todo[q] \subseteq todo'[q]
      /\ UNCHANGED <<db, entered, timer, active, stream, packet, contended>>
  BY <1>1 DEF TrackerInv, TypeOK, Insert, Goto
<1>4. /\ db[c] = "active" /\ active[c] /\ c \notin contended
      /\ \A q \in Procs : ~Closes(q, c)
  BY <1>1 DEF TrackerInv, StarterIsAlone, Starts, Starting
<1>5. HoldsACall'
  BY <1>1, <1>3 DEF TrackerInv, HoldsACall, Holding, Starting, Updating, Ending
<1>6. TimersOnlyEnd'
  BY <1>1, <1>3 DEF TrackerInv, TimersOnlyEnd, Timers, Procs, Ending
<1>7. UnbornIsNowhere'
  BY <1>1, <1>3 DEF TrackerInv, UnbornIsNowhere, NoCall, Calls
<1>8. StarterIsAlone'
  BY <1>1, <1>3 DEF TrackerInv, StarterIsAlone, Starts, Closes, Starting, Ending
<1>9. ClosersContend'
  BY <1>1, <1>3, <1>4 DEF TrackerInv, ClosersContend, Closes, Ending
<1>10. EnteredIsLive'
  BY <1>1, <1>3, <1>4 DEF TrackerInv, TypeOK, EnteredIsLive
<1>11. InactiveIsLeaving'
  BY <1>1, <1>3, <1>4 DEF TrackerInv, TypeOK, InactiveIsLeaving, At
<1>12. TimerlessIsInHand'
  BY <1>1, <1>3 DEF TrackerInv, TypeOK, TimerlessIsInHand, At
<1>13. NoForgottenCall'
  <2> SUFFICES ASSUME NEW d \in inFlight', d # c PROVE NoForgottenCall!(d)'
    BY <1>1, <1>2, <1>3 DEF NoForgottenCall, At
  <2>1. d \in inFlight /\ d \in Calls /\ NoForgottenCall!(d)
    BY <1>3 DEF TrackerInv, TypeOK, NoForgottenCall
  <2>2. QED BY <1>1, <1>3, <2>1 DEF TrackerInv, TypeOK, At, Ending, KeyedUp, Timers, Procs
<1>14. QED BY <1>2, <1>5, <1>6, <1>7, <1>8, <1>9, <1>10, <1>11, <1>12, <1>13 DEF TrackerInv

\* It has a timer now, ...
LEMMA ArmKeeps ==
    ASSUME TrackerInv, NEW p \in Procs, Arm(p)
    PROVE  TrackerInv'
<1>1. PICK c \in Calls : c = cur[p] /\ pc[p] = "arm" /\ stream[c] = packet[p]
  BY DEF TrackerInv, Arm, HoldsACall, Holding, Starting, Updating, Ending
<1>2. TypeOK'
  BY <1>1, CreatedType
     DEF TrackerInv, TypeOK, Arm, Goto, Running, Holding, Starting, Updating, Ending, NoCall
<1>3. /\ pc'[p] = "enter" /\ cur'[p] = c
      /\ \A q \in Procs : q # p => pc'[q] = pc[q] /\ cur'[q] = cur[q]
      /\ timer'[c] = "armed"
      /\ \A d \in Calls : d # c => timer'[d] = timer[d]
      /\ UNCHANGED <<db, inFlight, entered, active, stream, packet, todo, contended>>
  BY <1>1 DEF TrackerInv, TypeOK, Arm, Goto
<1>4. HoldsACall'
  BY <1>1, <1>3 DEF TrackerInv, HoldsACall, Holding, Starting, Updating, Ending
<1>5. TimersOnlyEnd'
  BY <1>1, <1>3 DEF TrackerInv, TimersOnlyEnd, Timers, Procs, Ending
<1>6. UnbornIsNowhere'
  BY <1>1, <1>3 DEF TrackerInv, UnbornIsNowhere, NoCall, Calls
<1>7. StarterIsAlone'
  BY <1>1, <1>3 DEF TrackerInv, StarterIsAlone, Starts, Closes, Starting, Ending
<1>8. ClosersContend'
  BY <1>1, <1>3 DEF TrackerInv, ClosersContend, Closes, Ending
<1>9. EnteredIsLive'
  BY <1>1, <1>3 DEF TrackerInv, TypeOK, EnteredIsLive
<1>10. InactiveIsLeaving'
  BY <1>1, <1>3 DEF TrackerInv, TypeOK, InactiveIsLeaving, At
<1>11. TimerlessIsInHand'
  BY <1>1, <1>3 DEF TrackerInv, TypeOK, TimerlessIsInHand, At
<1>12. NoForgottenCall'
  BY <1>1, <1>3 DEF TrackerInv, TypeOK, NoForgottenCall, At, Ending, KeyedUp, Timers, Procs
<1>13. QED BY <1>2, <1>4, <1>5, <1>6, <1>7, <1>8, <1>9, <1>10, <1>11, <1>12 DEF TrackerInv

\* ... which the others find from here on.
LEMMA EnterKeeps ==
    ASSUME TrackerInv, NEW p \in Procs, Enter(p)
    PROVE  TrackerInv'
<1>1. PICK c \in Calls : c = cur[p] /\ pc[p] = "enter" /\ stream[c] = packet[p]
  BY DEF TrackerInv, Enter, HoldsACall, Holding, Starting, Updating, Ending
<1>2. TypeOK'
  BY <1>1 DEF TrackerInv, TypeOK, Enter, Goto, Running, Holding, Starting, Updating, Ending, NoCall
<1>3. /\ pc'[p] = "recheck" /\ cur'[p] = NoCall
      /\ \A q \in Procs : q # p => pc'[q] = pc[q] /\ cur'[q] = cur[q]
      /\ entered' = entered \cup {c}
      /\ UNCHANGED <<db, inFlight, timer, active, stream, packet, todo, contended>>
  BY <1>1 DEF TrackerInv, TypeOK, Enter, Goto
<1>4. /\ db[c] = "active" /\ active[c] /\ c \notin contended /\ c \in inFlight
      /\ \A q \in Procs : ~Closes(q, c)
  BY <1>1 DEF TrackerInv, StarterIsAlone, Starts, Starting
<1>5. HoldsACall'
  BY <1>1, <1>3 DEF TrackerInv, HoldsACall, Holding, Starting, Updating, Ending
<1>6. TimersOnlyEnd'
  BY <1>1, <1>3 DEF TrackerInv, TimersOnlyEnd, Timers, Procs, Ending
<1>7. UnbornIsNowhere'
  BY <1>1, <1>3 DEF TrackerInv, UnbornIsNowhere, NoCall, Calls
<1>8. StarterIsAlone'
  BY <1>1, <1>3 DEF TrackerInv, StarterIsAlone, Starts, Closes, Starting, Ending
<1>9. ClosersContend'
  BY <1>1, <1>3, <1>4 DEF TrackerInv, ClosersContend, Closes, Ending
<1>10. EnteredIsLive'
  BY <1>1, <1>3, <1>4 DEF TrackerInv, TypeOK, EnteredIsLive
<1>11. InactiveIsLeaving'
  BY <1>1, <1>3, <1>4 DEF TrackerInv, TypeOK, InactiveIsLeaving, At
<1>12. TimerlessIsInHand'
  BY <1>1, <1>3 DEF TrackerInv, TypeOK, TimerlessIsInHand, At
<1>13. NoForgottenCall'
  <2> SUFFICES ASSUME NEW d \in inFlight' PROVE NoForgottenCall!(d)'
    BY DEF NoForgottenCall
  <2>1. d \in inFlight /\ d \in Calls /\ NoForgottenCall!(d)
    BY <1>1, <1>3 DEF TrackerInv, TypeOK, NoForgottenCall
  <2>2. timer'[d] = timer[d] /\ KeyedUp(stream[d])' = KeyedUp(stream[d])
    BY <1>3 DEF KeyedUp
  <2>3. CASE At(d, {"arm", "delete", "judge", "discard", "save", "leave"})
    <3>1. At(d, {"arm", "delete", "judge", "discard", "save", "leave"})'
      BY <1>1, <1>3, <2>3 DEF At
    <3>2. QED BY <3>1
  <2>4. CASE pc[d] \in {"end"} \cup Ending /\ (d \in todo[d] \/ cur[d] = d)
    BY <1>1, <1>3, <2>1, <2>4 DEF Ending, Timers, Procs
  <2>5. QED BY <2>1, <2>2, <2>3, <2>4
<1>14. QED BY <1>2, <1>5, <1>6, <1>7, <1>8, <1>9, <1>10, <1>11, <1>12, <1>13 DEF TrackerInv

\* updateCall sets the timer anew, be it in the map or not.
LEMMA ResetKeeps ==
    ASSUME TrackerInv, NEW p \in Procs, Reset(p)
    PROVE  TrackerInv'
<1>1. PICK c \in Calls : c = cur[p] /\ pc[p] = "reset" /\ stream[c] = packet[p]
  BY DEF TrackerInv, Reset, HoldsACall, Holding, Starting, Updating, Ending
<1>2. TypeOK'
  BY <1>1, CreatedType
     DEF TrackerInv, TypeOK, Reset, Goto, Running, Holding, Starting, Updating, Ending, NoCall
<1>3. /\ pc'[p] = "update" /\ cur'[p] = c
      /\ \A q \in Procs : q # p => pc'[q] = pc[q] /\ cur'[q] = cur[q]
      /\ timer'[c] = "armed"
      /\ \A d \in Calls : d # c => timer'[d] = timer[d]
      /\ UNCHANGED <<db, inFlight, entered, active, stream, packet, todo, contended>>
  BY <1>1 DEF TrackerInv, TypeOK, Reset, Goto
<1>4. HoldsACall'
  BY <1>1, <1>3 DEF TrackerInv, HoldsACall, Holding, Starting, Updating, Ending
<1>5. TimersOnlyEnd'
  BY <1>1, <1>3 DEF TrackerInv, TimersOnlyEnd, Timers, Procs, Ending
<1>6. UnbornIsNowhere'
  BY <1>1, <1>3 DEF TrackerInv, UnbornIsNowhere, NoCall, Calls
<1>7. StarterIsAlone'
  BY <1>1, <1>3 DEF TrackerInv, StarterIsAlone, Starts, Closes, Starting, Ending
<1>8. ClosersContend'
  BY <1>1, <1>3 DEF TrackerInv, ClosersContend, Closes, Ending
<1>9. EnteredIsLive'
  BY <1>1, <1>3 DEF TrackerInv, TypeOK, EnteredIsLive
<1>10. InactiveIsLeaving'
  BY <1>1, <1>3 DEF TrackerInv, TypeOK, InactiveIsLeaving, At
<1>11. TimerlessIsInHand'
  BY <1>1, <1>3 DEF TrackerInv, TypeOK, TimerlessIsInHand, At
<1>12. NoForgottenCall'
  BY <1>1, <1>3 DEF TrackerInv, TypeOK, NoForgottenCall, At, Ending, KeyedUp, Timers, Procs
<1>13. QED BY <1>2, <1>4, <1>5, <1>6, <1>7, <1>8, <1>9, <1>10, <1>11, <1>12 DEF TrackerInv

\* EndCall stops the timer it has found, ...
LEMMA StopKeeps ==
    ASSUME TrackerInv, NEW p \in Procs, Stop(p)
    PROVE  TrackerInv'
<1>1. PICK c \in Calls : c = cur[p] /\ pc[p] = "stop" /\ stream[c] = packet[p]
  BY DEF TrackerInv, Stop, HoldsACall, Holding, Starting, Updating, Ending
<1>2. TypeOK'
  BY <1>1 DEF TrackerInv, TypeOK, Stop, Goto, Running, Holding, Starting, Updating, Ending, NoCall
<1>3. /\ pc'[p] = "delete" /\ cur'[p] = c
      /\ \A q \in Procs : q # p => pc'[q] = pc[q] /\ cur'[q] = cur[q]
      /\ \A d \in Calls : d # c => timer'[d] = timer[d]
      /\ UNCHANGED <<db, inFlight, entered, active, stream, packet, todo, contended>>
  BY <1>1 DEF TrackerInv, TypeOK, Stop, Goto
<1>4. HoldsACall'
  BY <1>1, <1>3 DEF TrackerInv, HoldsACall, Holding, Starting, Updating, Ending
<1>5. TimersOnlyEnd'
  BY <1>1, <1>3 DEF TrackerInv, TimersOnlyEnd, Timers, Procs, Ending
<1>6. UnbornIsNowhere'
  BY <1>1, <1>3 DEF TrackerInv, UnbornIsNowhere, NoCall, Calls
<1>7. StarterIsAlone'
  BY <1>1, <1>3 DEF TrackerInv, StarterIsAlone, Starts, Closes, Starting, Ending
<1>8. ClosersContend'
  BY <1>1, <1>3 DEF TrackerInv, ClosersContend, Closes, Ending
<1>9. EnteredIsLive'
  BY <1>1, <1>3 DEF TrackerInv, TypeOK, EnteredIsLive
<1>10. InactiveIsLeaving'
  BY <1>1, <1>3 DEF TrackerInv, TypeOK, InactiveIsLeaving, At
<1>11. TimerlessIsInHand'
  BY <1>1, <1>3 DEF TrackerInv, TypeOK, TimerlessIsInHand, At
<1>12. NoForgottenCall'
  <2> SUFFICES ASSUME NEW d \in inFlight' PROVE NoForgottenCall!(d)'
    BY DEF NoForgottenCall
  <2>1. d \in inFlight /\ d \in Calls /\ NoForgottenCall!(d)
    BY <1>1, <1>3 DEF TrackerInv, TypeOK, NoForgottenCall
  <2>2. CASE d = c
    <3>1. At(d, {"delete"})'
      BY <1>1, <1>3, <2>2 DEF At
    <3>2. QED BY <3>1 DEF At
  <2>3. CASE d # c /\ At(d, {"arm", "delete", "judge", "discard", "save", "leave"})
    <3>1. At(d, {"arm", "delete", "judge", "discard", "save", "leave"})'
      BY <1>1, <1>3, <2>3 DEF At
    <3>2. QED BY <3>1
  <2>4. CASE pc[d] \in {"end"} \cup Ending /\ (d \in todo[d] \/ cur[d] = d)
    BY <1>1, <1>3, <2>1, <2>4 DEF Ending, Timers, Procs
  <2>5. CASE d # c /\ (timer[d] = "armed" \/ KeyedUp(stream[d]))
    BY <1>3, <2>1, <2>5 DEF KeyedUp
  <2>6. QED BY <2>1, <2>2, <2>3, <2>4, <2>5
<1>13. QED BY <1>2, <1>4, <1>5, <1>6, <1>7, <1>8, <1>9, <1>10, <1>11, <1>12 DEF TrackerInv

\* ... takes it out of the map, ...
LEMMA DeleteKeeps ==
    ASSUME TrackerInv, NEW p \in Procs, Delete(p)
    PROVE  TrackerInv'
<1>1. PICK c \in Calls : c = cur[p] /\ pc[p] = "delete" /\ stream[c] = packet[p]
  BY DEF TrackerInv, Delete, HoldsACall, Holding, Starting, Updating, Ending
<1>2. TypeOK'
  BY <1>1 DEF TrackerInv, TypeOK, Delete, Goto, Running, Holding, Starting, Updating, Ending, NoCall
<1>3. /\ pc'[p] = "judge" /\ cur'[p] = c
      /\ \A q \in Procs : q # p => pc'[q] = pc[q] /\ cur'[q] = cur[q]
      /\ entered' = entered \ {c}
      /\ UNCHANGED <<db, inFlight, timer, active, stream, packet, todo, contended>>
  BY <1>1 DEF TrackerInv, TypeOK, Delete, Goto
<1>4. HoldsACall'
  BY <1>1, <1>3 DEF TrackerInv, HoldsACall, Holding, Starting, Updating, Ending
<1>5. TimersOnlyEnd'
  BY <1>1, <1>3 DEF TrackerInv, TimersOnlyEnd, Timers, Procs, Ending
<1>6. UnbornIsNowhere'
  BY <1>1, <1>3 DEF TrackerInv, UnbornIsNowhere, NoCall, Calls
<1>7. StarterIsAlone'
  BY <1>1, <1>3 DEF TrackerInv, StarterIsAlone, Starts, Closes, Starting, Ending
<1>8. ClosersContend'
  BY <1>1, <1>3 DEF TrackerInv, ClosersContend, Closes, Ending
<1>9. EnteredIsLive'
  BY <1>1, <1>3 DEF TrackerInv, TypeOK, EnteredIsLive
<1>10. InactiveIsLeaving'
  BY <1>1, <1>3 DEF TrackerInv, TypeOK, InactiveIsLeaving, At
<1>11. TimerlessIsInHand'
  BY <1>1, <1>3 DEF TrackerInv, TypeOK, TimerlessIsInHand, At
<1>12. NoForgottenCall'
  BY <1>1, <1>3 DEF TrackerInv, TypeOK, NoForgottenCall, At, Ending, KeyedUp, Timers, Procs
<1>13. QED BY <1>2, <1>4, <1>5, <1>6, <1>7, <1>8, <1>9, <1>10, <1>11, <1>12 DEF TrackerInv

\* ... finds the call too short, ...
LEMMA JudgeKeeps ==
    ASSUME TrackerInv, NEW p \in Procs, Judge(p)
    PROVE  TrackerInv'
<1>1. PICK c \in Calls : c = cur[p] /\ pc[p] = "judge" /\ stream[c] = packet[p]
  BY DEF TrackerInv, Judge, HoldsACall, Holding, Starting, Updating, Ending
<1>2. TypeOK'
  BY <1>1
     DEF TrackerInv, TypeOK, Judge, Goto, Running, Holding, Starting, Updating, Ending, NoCall,
         calls
<1>3. /\ pc'[p] = "discard" /\ cur'[p] = c
      /\ \A q \in Procs : q # p => pc'[q] = pc[q] /\ cur'[q] = cur[q]
      /\ UNCHANGED <<db, inFlight, entered, timer, active, stream, packet, todo, contended>>
  BY <1>1 DEF TrackerInv, TypeOK, Judge, Goto, calls
<1>4. HoldsACall'
  BY <1>1, <1>3 DEF TrackerInv, HoldsACall, Holding, Starting, Updating, Ending
<1>5. TimersOnlyEnd'
  BY <1>1, <1>3 DEF TrackerInv, TimersOnlyEnd, Timers, Procs, Ending
<1>6. UnbornIsNowhere'
  BY <1>1, <1>3 DEF TrackerInv, UnbornIsNowhere, NoCall, Calls
<1>7. StarterIsAlone'
  BY <1>1, <1>3 DEF TrackerInv, StarterIsAlone, Starts, Closes, Starting, Ending
<1>8. ClosersContend'
  BY <1>1, <1>3 DEF TrackerInv, ClosersContend, Closes, Ending
<1>9. EnteredIsLive'
  BY <1>1, <1>3 DEF TrackerInv, TypeOK, EnteredIsLive
<1>10. InactiveIsLeaving'
  BY <1>1, <1>3 DEF TrackerInv, TypeOK, InactiveIsLeaving, At
<1>11. TimerlessIsInHand'
  BY <1>1, <1>3 DEF TrackerInv, TypeOK, TimerlessIsInHand, At
<1>12. NoForgottenCall'
  BY <1>1, <1>3 DEF TrackerInv, TypeOK, NoForgottenCall, At, Ending, KeyedUp, Timers, Procs
<1>13. QED BY <1>2, <1>4, <1>5, <1>6, <1>7, <1>8, <1>9, <1>10, <1>11, <1>12 DEF TrackerInv

\* ... and deletes its row and returns: what it has not come to is behind a key-up.
LEMMA DiscardKeeps ==
    ASSUME TrackerInv, NEW p \in Procs, Discard(p)
    PROVE  TrackerInv'
<1>1. PICK c \in Calls : c = cur[p] /\ pc[p] = "discard" /\ stream[c] = packet[p]
  BY DEF TrackerInv, Discard, HoldsACall, Holding, Starting, Updating, Ending
<1>2. TypeOK'
  BY <1>1
     DEF TrackerInv, TypeOK, Discard, Goto, Running, Holding, Starting, Updating, Ending, NoCall
<1>3. /\ pc'[p] = "done" /\ cur'[p] = NoCall
      /\ \A q \in Procs : q # p => pc'[q] = pc[q] /\ cur'[q] = cur[q]
      /\ db'[c] = "deleted"
      /\ \A d \in Calls : d # c => db'[d] = db[d]
      /\ \A q \in Procs : q # p => todo'[q] = todo[q]
      /\ UNCHANGED <<inFlight, entered, timer, active, stream, packet, contended>>
  BY <1>1 DEF TrackerInv, TypeOK, Discard, Goto
<1>4. c \notin entered
  BY <1>1 DEF TrackerInv, ClosersContend, Closes, Ending
<1>5. HoldsACall'
  BY <1>1, <1>3 DEF TrackerInv, HoldsACall, Holding, Starting, Updating, Ending
<1>6. TimersOnlyEnd'
  BY <1>1, <1>3 DEF TrackerInv, TimersOnlyEnd, Timers, Procs, Ending
<1>7. UnbornIsNowhere'
  BY <1>1, <1>3 DEF TrackerInv, UnbornIsNowhere, NoCall, Calls
<1>8. StarterIsAlone'
  BY <1>1, <1>3 DEF TrackerInv, StarterIsAlone, Starts, Closes, Starting, Ending
<1>9. ClosersContend'
  BY <1>1, <1>3, <1>4 DEF TrackerInv, ClosersContend, Closes, Ending
<1>10. EnteredIsLive'
  BY <1>1, <1>3, <1>4 DEF TrackerInv, TypeOK, EnteredIsLive
<1>11. InactiveIsLeaving'
  BY <1>1, <1>3, <1>4 DEF TrackerInv, TypeOK, InactiveIsLeaving, At
<1>12. TimerlessIsInHand'
  BY <1>1, <1>3 DEF TrackerInv, TypeOK, TimerlessIsInHand, At
<1>13. NoForgottenCall'
  <2> SUFFICES ASSUME NEW d \in inFlight, ~KeyedUp(stream[d])' PROVE NoForgottenCall!(d)'
    BY <1>3 DEF NoForgottenCall
  <2>1. d \in Calls /\ stream[d] # stream[c] /\ d # c /\ ~KeyedUp(stream[d])
    BY <1>3 DEF TrackerInv, TypeOK, KeyedUp
  <2>2. p # d
    BY <1>1, <1>3, <2>1 DEF TrackerInv, TimersOnlyEnd, Timers
  <2>3. NoForgottenCall!(d)
    BY DEF TrackerInv, NoForgottenCall
  <2>4. QED BY <1>1, <1>3, <2>1, <2>2, <2>3 DEF TrackerInv, TypeOK, At, Timers, Procs
<1>14. QED BY <1>2, <1>5, <1>6, <1>7, <1>8, <1>9, <1>10, <1>11, <1>12, <1>13 DEF TrackerInv

\* Or it clears Active, ...
LEMMA DeactivateKeeps ==
    ASSUME TrackerInv, NEW p \in Procs, Deactivate(p)
    PROVE  TrackerInv'
<1>1. PICK c \in Calls : c = cur[p] /\ pc[p] = "judge" /\ stream[c] = packet[p]
  BY DEF TrackerInv, Deactivate, HoldsACall, Holding, Starting, Updating, Ending
<1>2. TypeOK'
  BY <1>1
     DEF TrackerInv, TypeOK, Deactivate, Goto, Running, Holding, Starting, Updating, Ending, NoCall
<1>3. /\ pc'[p] = "save" /\ cur'[p] = c
      /\ \A q \in Procs : q # p => pc'[q] = pc[q] /\ cur'[q] = cur[q]
      /\ \A d \in Calls : d # c => active'[d] = active[d]
      /\ UNCHANGED <<db, inFlight, entered, timer, stream, packet, todo, contended>>
  BY <1>1 DEF TrackerInv, TypeOK, Deactivate, Goto
<1>4. HoldsACall'
  BY <1>1, <1>3 DEF TrackerInv, HoldsACall, Holding, Starting, Updating, Ending
<1>5. TimersOnlyEnd'
  BY <1>1, <1>3 DEF TrackerInv, TimersOnlyEnd, Timers, Procs, Ending
<1>6. UnbornIsNowhere'
  BY <1>1, <1>3 DEF TrackerInv, UnbornIsNowhere, NoCall, Calls
<1>7. StarterIsAlone'
  BY <1>1, <1>3 DEF TrackerInv, StarterIsAlone, Starts, Closes, Starting, Ending
<1>8. ClosersContend'
  BY <1>1, <1>3 DEF TrackerInv, ClosersContend, Closes, Ending
<1>9. EnteredIsLive'
  BY <1>1, <1>3 DEF TrackerInv, TypeOK, EnteredIsLive
<1>10. InactiveIsLeaving'
  BY <1>1, <1>3 DEF TrackerInv, TypeOK, InactiveIsLeaving, At
<1>11. TimerlessIsInHand'
  BY <1>1, <1>3 DEF TrackerInv, TypeOK, TimerlessIsInHand, At
<1>12. NoForgottenCall'
  BY <1>1, <1>3 DEF TrackerInv, TypeOK, NoForgottenCall, At, Ending, KeyedUp, Timers, Procs
<1>13. QED BY <1>2, <1>4, <1>5, <1>6, <1>7, <1>8, <1>9, <1>10, <1>11, <1>12 DEF TrackerInv

\* ... stores the row, ...
LEMMA SaveKeeps ==
    ASSUME TrackerInv, NEW p \in Procs, Save(p)
    PROVE  TrackerInv'
<1>1. PICK c \in Calls : c = cur[p] /\ pc[p] = "save" /\ stream[c] = packet[p]
  BY DEF TrackerInv, Save, HoldsACall, Holding, Starting, Updating, Ending
<1>2. TypeOK'
  BY <1>1 DEF TrackerInv, TypeOK, Save, Goto, Running, Holding, Starting, Updating, Ending, NoCall
<1>3. /\ pc'[p] = "leave" /\ cur'[p] = c
      /\ \A q \in Procs : q # p => pc'[q] = pc[q] /\ cur'[q] = cur[q]
      /\ db'[c] # "none"
      /\ db[c] = "deleted" => db'[c] = "deleted"
      /\ \A d \in Calls : d # c => db'[d] = db[d]
      /\ UNCHANGED <<inFlight, entered, timer, active, stream, packet, todo, contended>>
  BY <1>1 DEF TrackerInv, TypeOK, Save, Goto
<1>4. c \notin entered
  BY <1>1 DEF TrackerInv, ClosersContend, Closes, Ending
<1>5. HoldsACall'
  BY <1>1, <1>3 DEF TrackerInv, HoldsACall, Holding, Starting, Updating, Ending
<1>6. TimersOnlyEnd'
  BY <1>1, <1>3 DEF TrackerInv, TimersOnlyEnd, Timers, Procs, Ending
<1>7. UnbornIsNowhere'
  BY <1>1, <1>3 DEF TrackerInv, UnbornIsNowhere, NoCall, Calls
<1>8. StarterIsAlone'
  BY <1>1, <1>3 DEF TrackerInv, StarterIsAlone, Starts, Closes, Starting, Ending
<1>9. ClosersContend'
  BY <1>1, <1>3, <1>4 DEF TrackerInv, ClosersContend, Closes, Ending
<1>10. EnteredIsLive'
  BY <1>1, <1>3, <1>4 DEF TrackerInv, TypeOK, EnteredIsLive
<1>11. InactiveIsLeaving'
  BY <1>1, <1>3, <1>4 DEF TrackerInv, TypeOK, InactiveIsLeaving, At
<1>12. TimerlessIsInHand'
  BY <1>1, <1>3 DEF TrackerInv, TypeOK, TimerlessIsInHand, At
<1>13. NoForgottenCall'
  BY <1>1, <1>3 DEF TrackerInv, TypeOK, NoForgottenCall, At, Ending, KeyedUp, Timers, Procs
<1>14. QED BY <1>2, <1>5, <1>6, <1>7, <1>8, <1>9, <1>10, <1>11, <1>12, <1>13 DEF TrackerInv

\* ... and takes the call out of the map.
LEMMA LeaveKeeps ==
    ASSUME TrackerInv, NEW p \in Procs, Leave(p)
    PROVE  TrackerInv'
<1>1. PICK c \in Calls : c = cur[p] /\ pc[p] = "leave" /\ stream[c] = packet[p]
  BY DEF TrackerInv, Leave, HoldsACall, Holding, Starting, Updating, Ending
<1>2. TypeOK'
  BY <1>1 DEF TrackerInv, TypeOK, Leave, Goto, Running, Holding, Starting, Updating, Ending, NoCall
<1>3. /\ pc'[p] = "end" /\ cur'[p] = NoCall
      /\ \A q \in Procs : q # p => pc'[q] = pc[q] /\ cur'[q] = cur[q]
      /\ inFlight' = inFlight \ {c}
      /\ UNCHANGED <<db, entered, timer, active, stream, packet, todo, contended>>
  BY <1>1 DEF TrackerInv, TypeOK, Leave, Goto
<1>4. c \notin entered
  BY <1>1 DEF TrackerInv, ClosersContend, Closes, Ending
<1>5. HoldsACall'
  BY <1>1, <1>3 DEF TrackerInv, HoldsACall, Holding, Starting, Updating, Ending
<1>6. TimersOnlyEnd'
  BY <1>1, <1>3 DEF TrackerInv, TimersOnlyEnd, Timers, Procs, Ending
<1>7. UnbornIsNowhere'
  BY <1>1, <1>3 DEF TrackerInv, UnbornIsNowhere, NoCall, Calls
<1>8. StarterIsAlone'
  BY <1>1, <1>3 DEF TrackerInv, StarterIsAlone, Starts, Closes, Starting, Ending
<1>9. ClosersContend'
  BY <1>1, <1>3, <1>4 DEF TrackerInv, ClosersContend, Closes, Ending
<1>10. EnteredIsLive'
  BY <1>1, <1>3, <1>4 DEF TrackerInv, TypeOK, EnteredIsLive
<1>11. InactiveIsLeaving'
  BY <1>1, <1>3, <1>4 DEF TrackerInv, TypeOK, InactiveIsLeaving, At
<1>12. TimerlessIsInHand'
  BY <1>1, <1>3 DEF TrackerInv, TypeOK, TimerlessIsInHand, At
<1>13. NoForgottenCall'
  <2> SUFFICES ASSUME NEW d \in inFlight, d # c PROVE NoForgottenCall!(d)'
    BY <1>3 DEF NoForgottenCall
  <2>1. d \in Calls /\ NoForgottenCall!(d)
    BY DEF TrackerInv, TypeOK, NoForgottenCall
  <2>2. QED BY <1>1, <1>3, <2>1 DEF TrackerInv, TypeOK, At, Ending, KeyedUp, Timers, Procs
<1>14. QED BY <1>2, <1>5, <1>6, <1>7, <1>8, <1>9, <1>10, <1>11, <1>12, <1>13 DEF TrackerInv

\* After a crash there is nothing in memory.
LEMMA CrashKeeps ==
    ASSUME TrackerInv, Crash
    PROVE  TrackerInv'
<1>1. TypeOK'
  BY TrackerAssumption DEF TrackerInv, TypeOK, Crash, NoCall
<1>2. \A p \in Procs : pc'[p] \in {"idle", "done"} /\ cur'[p] = NoCall
  BY DEF Crash
<1>3. HoldsACall' /\ TimersOnlyEnd'
  BY <1>2 DEF HoldsACall, TimersOnlyEnd, Timers, Procs, Holding, Starting, Updating, Ending
<1>4. UnbornIsNowhere'
  BY CallsAreNumbers, <1>2 DEF TrackerInv, UnbornIsNowhere, Crash
<1>5. StarterIsAlone' /\ ClosersContend'
  BY CallsAreNumbers, <1>2 DEF StarterIsAlone, ClosersContend, Starts, Closes
<1>6. EnteredIsLive' /\ InactiveIsLeaving' /\ TimerlessIsInHand' /\ NoForgottenCall'
  BY DEF Crash, EnteredIsLive, InactiveIsLeaving, TimerlessIsInHand, NoForgottenCall
<1>7. QED BY <1>1, <1>3, <1>4, <1>5, <1>6 DEF TrackerInv


\* A goroutine goes on without a call to hold, and without touching one.
LEMMA WalkKeeps ==
    ASSUME TrackerInv, NEW p \in Procs, UNCHANGED <<calls, cur, contended, crashed>>,
           NEW label \in (Running \ Holding) \cup {"done"}, NEW s \in Streams,
           NEW S \in SUBSET Calls, pc[p] \notin Holding, Goto(p, label),
           packet' = [packet EXCEPT ![p] = s], todo' = [todo EXCEPT ![p] = S],
           p \in Timers => label \in {"end", "done"} /\ pc[p] = "end" /\ s = packet[p],
           p \in Timers /\ p \in todo[p] \cap inFlight => (label = "end" /\ p \in S) \/ ~active[p]
    PROVE  TrackerInv'
<1>1. cur[p] = NoCall
  BY DEF TrackerInv, HoldsACall
<1>2. TypeOK'
  BY DEF TrackerInv, TypeOK, Goto, calls
<1>3. /\ pc'[p] = label /\ todo'[p] = S /\ packet'[p] = s
      /\ \A q \in Procs : q # p => pc'[q] = pc[q] /\ todo'[q] = todo[q] /\ packet'[q] = packet[q]
      /\ UNCHANGED <<db, inFlight, entered, timer, active, stream, cur, contended>>
      /\ NoCall \notin Calls
  BY CallsAreNumbers DEF TrackerInv, TypeOK, Goto, calls
<1>4. HoldsACall'
  BY <1>1, <1>3 DEF TrackerInv, HoldsACall, Holding, Starting, Updating, Ending
<1>5. TimersOnlyEnd'
  BY <1>1, <1>3 DEF TrackerInv, TimersOnlyEnd, Timers, Procs, Ending
<1>6. UnbornIsNowhere'
  BY <1>1, <1>3 DEF TrackerInv, UnbornIsNowhere, NoCall, Calls
<1>7. StarterIsAlone'
  BY <1>1, <1>3 DEF TrackerInv, StarterIsAlone, Starts, Closes, Starting, Ending
<1>8. ClosersContend'
  BY <1>1, <1>3 DEF TrackerInv, ClosersContend, Closes, Ending
<1>9. EnteredIsLive'
  BY <1>1, <1>3 DEF TrackerInv, TypeOK, EnteredIsLive
<1>10. InactiveIsLeaving'
  BY <1>1, <1>3 DEF TrackerInv, TypeOK, InactiveIsLeaving, At
<1>11. TimerlessIsInHand'
  BY <1>1, <1>3 DEF TrackerInv, TypeOK, TimerlessIsInHand, At
<1>12. NoForgottenCall'
  <2> SUFFICES ASSUME NEW d \in inFlight PROVE NoForgottenCall!(d)'
    BY <1>3 DEF NoForgottenCall
  <2>1. d \in Calls /\ NoForgottenCall!(d) /\ (active[d] \/ At(d, {"save", "leave"}))
    BY DEF TrackerInv, TypeOK, NoForgottenCall, InactiveIsLeaving
  <2>2. QED BY <1>1, <1>3, <2>1 DEF TrackerInv, TypeOK, At, Ending, KeyedUp, Timers, Procs
<1>13. QED BY <1>2, <1>4, <1>5, <1>6, <1>7, <1>8, <1>9, <1>10, <1>11, <1>12 DEF TrackerInv


\* The new row is of a call that was nowhere.
LEMMA CreateKeeps ==
    ASSUME TrackerInv, NEW p \in Procs, NEW c \in Calls, Create(p, c)
    PROVE  TrackerInv'
<1>1. /\ pc[p] = "start" /\ cur[p] = NoCall /\ db[c] = "none"
      /\ timer[c] = "none" /\ c \notin inFlight \cup entered \cup contended
      /\ \A q \in Procs : cur[q] # c
  BY DEF TrackerInv, Create, HoldsACall, UnbornIsNowhere, Holding, Starting, Updating, Ending
<1>2. TypeOK'
  BY DEF TrackerInv, TypeOK, Create, Goto, Running, Holding, Starting, Updating, Ending
<1>3. /\ pc'[p] = "insert" /\ cur'[p] = c /\ db'[c] = "active" /\ active'[c] /\ stream'[c] = packet[p]
      /\ \A q \in Procs : q # p => pc'[q] = pc[q] /\ cur'[q] = cur[q]
      /\ \A d \in Calls : d # c => db'[d] = db[d] /\ active'[d] = active[d] /\ stream'[d] = stream[d]
      /\ UNCHANGED <<inFlight, entered, timer, packet, todo, contended>>
  BY DEF TrackerInv, TypeOK, Create, Goto
<1>4. HoldsACall'
  BY <1>1, <1>3 DEF TrackerInv, HoldsACall, Holding, Starting, Updating, Ending
<1>5. TimersOnlyEnd'
  BY <1>1, <1>3 DEF TrackerInv, TimersOnlyEnd, Timers, Procs, Ending
<1>6. UnbornIsNowhere'
  BY <1>1, <1>3 DEF TrackerInv, UnbornIsNowhere, NoCall, Calls
<1>7. StarterIsAlone'
  BY <1>1, <1>3 DEF TrackerInv, StarterIsAlone, Starts, Closes, Starting, Ending
<1>8. ClosersContend'
  BY <1>1, <1>3 DEF TrackerInv, ClosersContend, Closes, Ending
<1>9. EnteredIsLive'
  BY <1>1, <1>3 DEF TrackerInv, TypeOK, EnteredIsLive
<1>10. InactiveIsLeaving'
  BY <1>1, <1>3 DEF TrackerInv, TypeOK, InactiveIsLeaving, At
<1>11. TimerlessIsInHand'
  BY <1>1, <1>3 DEF TrackerInv, TypeOK, TimerlessIsInHand, At
<1>12. NoForgottenCall'
  <2> SUFFICES ASSUME NEW d \in inFlight PROVE NoForgottenCall!(d)'
    BY <1>3 DEF NoForgottenCall
  <2>1. d \in Calls /\ NoForgottenCall!(d) /\ (active[d] \/ At(d, {"save", "leave"}))
    BY DEF TrackerInv, TypeOK, NoForgottenCall, InactiveIsLeaving
  <2>2. QED BY <1>1, <1>3, <2>1 DEF TrackerInv, TypeOK, At, Ending, KeyedUp, Timers, Procs
<1>13. QED BY <1>2, <1>4, <1>5, <1>6, <1>7, <1>8, <1>9, <1>10, <1>11, <1>12 DEF TrackerInv


\* A goroutine takes up a call of the map, to update or to end it.
LEMMA TakeKeeps ==
    ASSUME TrackerInv, NEW p \in Procs, NEW c \in Matching(p),
           UNCHANGED <<calls, packet, contended, crashed>>,
           cur' = [cur EXCEPT ![p] = c],
           \/ pc[p] = "process" /\ Goto(p, "refresh") /\ UNCHANGED todo
           \/ pc[p] = "end" /\ Goto(p, "find") /\ todo' = [todo EXCEPT ![p] = @ \ {c}]
    PROVE  TrackerInv'
<1>1. /\ c \in Calls /\ c \in inFlight /\ stream[c] = packet[p] /\ cur[p] = NoCall
      /\ pc[p] \in {"process", "end"} /\ db[c] # "none" /\ NoCall \notin Calls
  BY CallsAreNumbers
     DEF TrackerInv, TypeOK, Matching, HoldsACall, UnbornIsNowhere, Holding, Starting, Updating,
         Ending
<1>2. TypeOK'
  BY <1>1 DEF TrackerInv, TypeOK, Goto, Running, calls, Holding, Starting, Updating, Ending
<1>3. /\ pc'[p] = IF pc[p] = "end" THEN "find" ELSE "refresh"
      /\ cur'[p] = c /\ todo[p] \subseteq todo'[p] \cup {c}
      /\ \A q \in Procs : q # p => pc'[q] = pc[q] /\ cur'[q] = cur[q] /\ todo'[q] = todo[q]
      /\ UNCHANGED <<db, inFlight, entered, timer, active, stream, packet, contended>>
  BY <1>1 DEF TrackerInv, TypeOK, Goto, calls
<1>4. HoldsACall'
  BY <1>1, <1>3 DEF TrackerInv, HoldsACall, Holding, Starting, Updating, Ending
<1>5. TimersOnlyEnd'
  BY <1>1, <1>3 DEF TrackerInv, TimersOnlyEnd, Timers, Procs, Ending
<1>6. UnbornIsNowhere'
  BY <1>1, <1>3 DEF TrackerInv, UnbornIsNowhere, NoCall, Calls
<1>7. StarterIsAlone'
  BY <1>1, <1>3 DEF TrackerInv, StarterIsAlone, Starts, Closes, Starting, Ending
<1>8. ClosersContend'
  BY <1>1, <1>3 DEF TrackerInv, ClosersContend, Closes, Ending
<1>9. EnteredIsLive'
  BY <1>1, <1>3 DEF TrackerInv, TypeOK, EnteredIsLive
<1>10. InactiveIsLeaving'
  BY <1>1, <1>3 DEF TrackerInv, TypeOK, InactiveIsLeaving, At
<1>11. TimerlessIsInHand'
  BY <1>1, <1>3 DEF TrackerInv, TypeOK, TimerlessIsInHand, At
<1>12. NoForgottenCall'
  <2> SUFFICES ASSUME NEW d \in inFlight PROVE NoForgottenCall!(d)'
    BY <1>3 DEF NoForgottenCall
  <2>1. d \in Calls /\ NoForgottenCall!(d) /\ (active[d] \/ At(d, {"save", "leave"}))
    BY DEF TrackerInv, TypeOK, NoForgottenCall, InactiveIsLeaving
  <2>2. CASE p = d
    <3>1. pc[p] = "end" /\ pc'[p] = "find"
      BY <1>1, <1>3, <2>1, <2>2 DEF TrackerInv, TimersOnlyEnd, Ending, Timers
    <3>2. d \in todo[d] => d \in todo'[d] \/ cur'[d] = d
      BY <1>3, <2>2
    <3>3. At(d, {"arm", "delete", "judge", "discard", "save", "leave"}) =>
            At(d, {"arm", "delete", "judge", "discard", "save", "leave"})'
      BY <1>1, <1>3 DEF At
    <3>4. QED BY <1>1, <1>3, <2>1, <2>2, <3>1, <3>2, <3>3 DEF Ending, KeyedUp
  <2>3. CASE p # d
    BY <1>1, <1>3, <2>1, <2>3 DEF TrackerInv, TypeOK, At, Ending, KeyedUp, Timers, Procs
  <2>4. QED BY <2>2, <2>3
<1>13. QED BY <1>2, <1>4, <1>5, <1>6, <1>7, <1>8, <1>9, <1>10, <1>11, <1>12 DEF TrackerInv


\* It finds the timer: to end the call alone, or with another that has found it too.
LEMMA LookUpKeeps ==
    ASSUME TrackerInv, NEW p \in Procs, LookUp(p)
    PROVE  TrackerInv'
<1>1. PICK c \in Calls : /\ c = cur[p] /\ pc[p] \in {"refresh", "find"} /\ c \in entered
                         /\ stream[c] = packet[p] /\ db[c] # "none"
  BY DEF TrackerInv, LookUp, HoldsACall, UnbornIsNowhere, Holding, Starting, Updating, Ending
<1>2. TypeOK'
  BY <1>1 DEF TrackerInv, TypeOK, LookUp, Goto, Running, calls, Holding, Starting, Updating, Ending
<1>3. /\ pc'[p] = IF pc[p] = "find" THEN "stop" ELSE "reset"
      /\ contended \subseteq contended' /\ contended' \subseteq contended \cup {c}
      /\ pc[p] = "find" /\ At(c, {"stop", "delete"}) => c \in contended'
      /\ c \in contended' \ contended => pc[p] = "find" /\ At(c, {"stop", "delete"})
      /\ \A q \in Procs : q # p => pc'[q] = pc[q]
      /\ UNCHANGED <<db, inFlight, entered, timer, active, stream, packet, todo, cur>>
  BY <1>1 DEF TrackerInv, TypeOK, LookUp, Goto, calls, At
<1>4. \A q \in Procs : ~Starts(q, c)
  BY <1>1 DEF TrackerInv, StarterIsAlone
<1>5. HoldsACall'
  BY <1>1, <1>3, <1>4 DEF TrackerInv, HoldsACall, Holding, Starting, Updating, Ending
<1>6. TimersOnlyEnd'
  BY <1>1, <1>3, <1>4 DEF TrackerInv, TimersOnlyEnd, Timers, Procs, Ending
<1>7. UnbornIsNowhere'
  BY <1>1, <1>3, <1>4 DEF TrackerInv, UnbornIsNowhere, NoCall, Calls
<1>8. StarterIsAlone'
  BY <1>1, <1>3, <1>4 DEF TrackerInv, StarterIsAlone, Starts, Closes, Starting, Ending
<1>9. ClosersContend'
  <2>1. \A q \in Procs : Closes(q, c) => pc[q] \in {"stop", "delete"}
    BY <1>1 DEF TrackerInv, ClosersContend
  <2>2. \A q \in Procs : Closes(q, c) /\ pc'[p] = "stop" => c \in contended'
    BY <1>1, <1>3, <2>1 DEF Closes, At
  <2>3. c \notin contended => c \in inFlight /\ db[c] = "active"
    BY <1>1 DEF TrackerInv, EnteredIsLive
  <2>4. /\ \A q \in Procs, d \in Calls : q # p \/ d # c => (Closes(q, d)' <=> Closes(q, d))
        /\ Closes(p, c)' <=> pc'[p] = "stop"
    BY <1>1, <1>3 DEF Closes, Ending
  <2>5. QED BY <1>1, <1>3, <2>1, <2>2, <2>3, <2>4 DEF TrackerInv, ClosersContend
<1>10. EnteredIsLive'
  BY <1>1, <1>3, <1>4 DEF TrackerInv, TypeOK, EnteredIsLive
<1>11. InactiveIsLeaving'
  BY <1>1, <1>3, <1>4 DEF TrackerInv, TypeOK, InactiveIsLeaving, At
<1>12. TimerlessIsInHand'
  BY <1>1, <1>3, <1>4 DEF TrackerInv, TypeOK, TimerlessIsInHand, At
<1>13. NoForgottenCall'
  BY <1>1, <1>3, <1>4 DEF TrackerInv, TypeOK, NoForgottenCall, At, Ending, KeyedUp, Timers, Procs
<1>14. QED BY <1>2, <1>5, <1>6, <1>7, <1>8, <1>9, <1>10, <1>11, <1>12, <1>13 DEF TrackerInv


\* The write of updateCall makes a call active, and ends none.
LEMMA UpdateKeeps ==
    ASSUME TrackerInv, NEW p \in Procs, Update(p)
    PROVE  TrackerInv'
<1>1. PICK c \in Calls : c = cur[p] /\ pc[p] = "update" /\ p \notin Timers
  BY DEF TrackerInv, Update, HoldsACall, TimersOnlyEnd, Holding, Starting, Updating, Ending
<1>2. TypeOK'
  BY <1>1
     DEF TrackerInv, TypeOK, Update, AfterProcess, Goto, Running, NoCall, Holding, Starting,
         Updating, Ending
<1>3. /\ pc'[p] \in {"end", "done"} /\ cur'[p] = NoCall
      /\ \A q \in Procs : q # p => pc'[q] = pc[q] /\ cur'[q] = cur[q] /\ todo'[q] = todo[q]
      /\ \A d \in Calls : active[d] => active'[d]
      /\ UNCHANGED <<db, inFlight, entered, timer, stream, packet, contended>>
  BY <1>1 DEF TrackerInv, TypeOK, Update, AfterProcess, Goto
<1>4. HoldsACall'
  BY <1>1, <1>3 DEF TrackerInv, HoldsACall, Holding, Starting, Updating, Ending
<1>5. TimersOnlyEnd'
  BY <1>1, <1>3 DEF TrackerInv, TimersOnlyEnd, Timers, Procs, Ending
<1>6. UnbornIsNowhere'
  BY <1>1, <1>3 DEF TrackerInv, UnbornIsNowhere, NoCall, Calls
<1>7. StarterIsAlone'
  BY <1>1, <1>3 DEF TrackerInv, StarterIsAlone, Starts, Closes, Starting, Ending
<1>8. ClosersContend'
  BY <1>1, <1>3 DEF TrackerInv, ClosersContend, Closes, Ending
<1>9. EnteredIsLive'
  BY <1>1, <1>3 DEF TrackerInv, TypeOK, EnteredIsLive
<1>10. InactiveIsLeaving'
  BY <1>1, <1>3 DEF TrackerInv, TypeOK, InactiveIsLeaving, At
<1>11. TimerlessIsInHand'
  BY <1>1, <1>3 DEF TrackerInv, TypeOK, TimerlessIsInHand, At
<1>12. NoForgottenCall'
  <2> SUFFICES ASSUME NEW d \in inFlight PROVE NoForgottenCall!(d)'
    BY <1>3 DEF NoForgottenCall
  <2>1. d \in Calls /\ NoForgottenCall!(d) /\ (active[d] \/ At(d, {"save", "leave"}))
    BY DEF TrackerInv, TypeOK, NoForgottenCall, InactiveIsLeaving
  <2>2. QED BY <1>1, <1>3, <2>1 DEF TrackerInv, TypeOK, At, Ending, KeyedUp, Timers, Procs
<1>13. QED BY <1>2, <1>4, <1>5, <1>6, <1>7, <1>8, <1>9, <1>10, <1>11, <1>12 DEF TrackerInv


\* The timer fires, and its goroutine has every call of the map to go through.
LEMMA FireKeeps ==
    ASSUME TrackerInv, NEW c \in Calls, Fire(c)
    PROVE  TrackerInv'
<1>1. c \in Timers /\ c \in Procs /\ cur[c] = NoCall /\ db[c] # "none" /\ pc[c] \in {"idle", "done"}
  BY
     DEF TrackerInv, Fire, HoldsACall, UnbornIsNowhere, Timers, Procs, Holding, Starting,
         Updating, Ending
<1>2. TypeOK'
  BY <1>1 DEF TrackerInv, TypeOK, Fire, Goto, Running
<1>3. /\ pc'[c] = "end" /\ todo'[c] = inFlight /\ packet'[c] = stream[c]
      /\ \A q \in Procs : q # c => pc'[q] = pc[q] /\ todo'[q] = todo[q] /\ packet'[q] = packet[q]
      /\ \A d \in Calls : d # c => timer'[d] = timer[d]
      /\ UNCHANGED <<db, inFlight, entered, active, stream, cur, contended>>
  BY <1>1 DEF TrackerInv, TypeOK, Fire, Goto
<1>4. HoldsACall'
  BY <1>1, <1>3 DEF TrackerInv, HoldsACall, Holding, Starting, Updating, Ending
<1>5. TimersOnlyEnd'
  BY <1>1, <1>3 DEF TrackerInv, TimersOnlyEnd, Timers, Procs, Ending
<1>6. UnbornIsNowhere'
  BY <1>1, <1>3 DEF TrackerInv, UnbornIsNowhere, NoCall, Calls
<1>7. StarterIsAlone'
  BY <1>1, <1>3 DEF TrackerInv, StarterIsAlone, Starts, Closes, Starting, Ending
<1>8. ClosersContend'
  BY <1>1, <1>3 DEF TrackerInv, ClosersContend, Closes, Ending
<1>9. EnteredIsLive'
  BY <1>1, <1>3 DEF TrackerInv, TypeOK, EnteredIsLive
<1>10. InactiveIsLeaving'
  BY <1>1, <1>3 DEF TrackerInv, TypeOK, InactiveIsLeaving, At
<1>11. TimerlessIsInHand'
  BY <1>1, <1>3 DEF TrackerInv, TypeOK, TimerlessIsInHand, At
<1>12. NoForgottenCall'
  <2> SUFFICES ASSUME NEW d \in inFlight PROVE NoForgottenCall!(d)'
    BY <1>3 DEF NoForgottenCall
  <2>1. d \in Calls /\ NoForgottenCall!(d) /\ (active[d] \/ At(d, {"save", "leave"}))
    BY DEF TrackerInv, TypeOK, NoForgottenCall, InactiveIsLeaving
  <2>2. QED BY <1>1, <1>3, <2>1 DEF TrackerInv, TypeOK, At, Ending, KeyedUp, Timers, Procs
<1>13. QED BY <1>2, <1>4, <1>5, <1>6, <1>7, <1>8, <1>9, <1>10, <1>11, <1>12 DEF TrackerInv


\* A step that leaves the maps, the rows and the goroutines alone.
LEMMA MatureKeeps ==
    ASSUME TrackerInv, TypeOK',
           UNCHANGED <<db, inFlight, entered, timer, active, stream, pc, packet, cur, todo,
                       contended>>
    PROVE  TrackerInv'
<1>1. HoldsACall' /\ TimersOnlyEnd' /\ UnbornIsNowhere' /\ StarterIsAlone' /\ ClosersContend'
  BY DEF TrackerInv, HoldsACall, TimersOnlyEnd, UnbornIsNowhere, StarterIsAlone, ClosersContend,
         Starts, Closes
<1>2. EnteredIsLive' /\ InactiveIsLeaving' /\ TimerlessIsInHand' /\ NoForgottenCall'
  BY DEF TrackerInv, EnteredIsLive, InactiveIsLeaving, TimerlessIsInHand, NoForgottenCall,
         At, KeyedUp
<1>3. QED BY <1>1, <1>2 DEF TrackerInv


\* The steps that hold no call, ...
LEMMA WalksKeep ==
    ASSUME TrackerInv, NEW p \in Procs,
           \/ Check(p) \/ Recheck(p) \/ Reject(p) \/ LeaveLoop(p)
           \/ Process(p) /\ Matching(p) = {}
           \/ \E c \in Calls : Visit(p, c) /\ c \notin Matching(p)
    PROVE  TrackerInv'
<1>1. /\ pc[p] \in {"check", "recheck", "start", "process", "end"}
      /\ UNCHANGED <<calls, cur, contended, crashed, packet>>
  BY DEF Check, Recheck, Reject, LeaveLoop, Process, Visit, Matching
<1>2. pc[p] \notin Holding /\ (p \in Timers => pc[p] = "end" /\ packet[p] = stream[p])
  BY <1>1 DEF TrackerInv, TimersOnlyEnd, Timers, Holding, Starting, Updating, Ending
<1>3. packet[p] \in Streams /\ packet' = [packet EXCEPT ![p] = packet[p]]
  BY <1>1 DEF TrackerInv, TypeOK
<1>4. CASE Check(p) \/ Recheck(p) \/ Reject(p)
  <2>1. PICK label \in {"start", "recheck", "process", "done"} : Goto(p, label)
    BY <1>4 DEF Check, Recheck, Reject
  <2>2. label \in (Running \ Holding) \cup {"done"}
    BY DEF Running, Holding, Starting, Updating, Ending
  <2>3. todo[p] \in SUBSET Calls /\ todo' = [todo EXCEPT ![p] = todo[p]] /\ p \notin Timers
    BY <1>2, <1>4 DEF Check, Recheck, Reject, TrackerInv, TypeOK
  <2>4. QED BY <1>1, <1>2, <1>3, <2>1, <2>2, <2>3, WalkKeeps
<1>5. CASE LeaveLoop(p)
  <2>1. todo' = [todo EXCEPT ![p] = {}] /\ todo[p] \cap inFlight = {} /\ Goto(p, "done")
    BY <1>5 DEF LeaveLoop
  <2>2. QED BY <1>1, <1>2, <1>3, <2>1, WalkKeeps
<1>6. CASE Process(p) /\ Matching(p) = {}
  <2>1. AfterProcess(p) /\ p \notin Timers
    BY <1>2, <1>6 DEF Process
  <2>2. PICK label \in {"end", "done"}, S \in SUBSET Calls :
          Goto(p, label) /\ todo' = [todo EXCEPT ![p] = S]
    <3>1. inFlight \in SUBSET Calls /\ todo[p] \in SUBSET Calls
          /\ todo = [todo EXCEPT ![p] = todo[p]]
      BY DEF TrackerInv, TypeOK
    <3>2. QED BY <2>1, <3>1 DEF AfterProcess
  <2>3. label \in (Running \ Holding) \cup {"done"}
    BY DEF Running, Holding, Starting, Updating, Ending
  <2>4. QED BY <1>1, <1>2, <1>3, <2>1, <2>2, <2>3, WalkKeeps
<1>7. ASSUME NEW c \in Calls, Visit(p, c), c \notin Matching(p) PROVE TrackerInv'
  <2>1. /\ todo' = [todo EXCEPT ![p] = todo[p] \ {c}] /\ todo[p] \ {c} \in SUBSET Calls
        /\ pc[p] = "end" /\ Goto(p, "end")
    BY <1>7 DEF Visit, Goto, TrackerInv, TypeOK
  <2>2. p \in Timers /\ p \in todo[p] \cap inFlight => p \in todo[p] \ {c} \/ ~active[p]
    BY <1>2, <1>7 DEF Matching
  <2>3. "end" \in (Running \ Holding) \cup {"done"}
    BY DEF Running, Holding, Starting, Updating, Ending
  <2>4. QED BY <1>1, <1>2, <1>3, <2>1, <2>2, <2>3, WalkKeeps
<1>8. QED BY <1>4, <1>5, <1>6, <1>7

\* ... those that take one up, ...
LEMMA TakesKeep ==
    ASSUME TrackerInv, NEW p \in Procs,
           \/ Process(p) /\ Matching(p) # {}
           \/ \E c \in Matching(p) : Visit(p, c)
    PROVE  TrackerInv'
<1>1. PICK c \in Matching(p) :
        /\ UNCHANGED <<calls, packet, contended, crashed>>
        /\ cur' = [cur EXCEPT ![p] = c]
        /\ \/ pc[p] = "process" /\ Goto(p, "refresh") /\ UNCHANGED todo
           \/ pc[p] = "end" /\ Goto(p, "find") /\ todo' = [todo EXCEPT ![p] = @ \ {c}]
  BY DEF Process, Visit
<1>2. QED BY <1>1, TakeKeeps

\* ... and all those of a goroutine.
LEMMA StepKeeps ==
    ASSUME TrackerInv, NEW p \in Procs, Step(p)
    PROVE  TrackerInv'
<1>1. CASE StartCall(p)
  BY <1>1, WalksKeep, CreateKeeps, InsertKeeps, ArmKeeps, EnterKeeps DEF StartCall
<1>2. CASE EndCall(p)
  <2>1. ASSUME NEW c \in Calls, Visit(p, c) PROVE TrackerInv'
    BY <2>1, WalksKeep, TakesKeep
  <2>2. QED BY <1>2, <2>1, WalksKeep, StopKeeps, DeleteKeeps, JudgeKeeps, DiscardKeeps,
                DeactivateKeeps, SaveKeeps, LeaveKeeps DEF EndCall
<1>3. CASE Process(p)
  BY <1>3, WalksKeep, TakesKeep
<1>4. CASE Check(p) \/ Recheck(p) \/ LookUp(p) \/ Panic(p) \/ Reset(p) \/ Update(p)
  BY <1>4, WalksKeep, LookUpKeeps, CrashKeeps, ResetKeeps, UpdateKeeps DEF Panic
<1>5. QED BY <1>1, <1>2, <1>3, <1>4 DEF Step

LEMMA ArriveKeeps ==
    ASSUME TrackerInv, NEW p \in Packets, NEW s \in Streams, Arrive(p, s)
    PROVE  TrackerInv'
<1>1. p \in Procs /\ p \notin Timers
  BY PacketsAreNotCalls DEF Procs, Timers
<1>2. /\ Goto(p, "check") /\ "check" \in (Running \ Holding) \cup {"done"}
      /\ pc[p] \notin Holding /\ packet' = [packet EXCEPT ![p] = s]
      /\ UNCHANGED <<calls, cur, contended, crashed>>
  BY DEF Arrive, Running, Holding, Starting, Updating, Ending
<1>3. todo[p] \in SUBSET Calls /\ todo' = [todo EXCEPT ![p] = todo[p]]
  BY <1>1 DEF Arrive, TrackerInv, TypeOK
<1>4. QED BY <1>1, <1>2, <1>3, WalkKeeps

LEMMA NextKeeps ==
    ASSUME TrackerInv, [Next]_vars
    PROVE  TrackerInv'
<1>1. ASSUME NEW c \in Calls, Mature(c) PROVE TrackerInv'
  <2>1. TypeOK' /\ UNCHANGED <<db, inFlight, entered, timer, active, stream, pc, packet, cur,
                               todo, contended>>
    BY <1>1 DEF TrackerInv, TypeOK, Mature
  <2>2. QED BY <2>1, MatureKeeps
<1>2. CASE UNCHANGED vars
  <2>1. TypeOK' /\ UNCHANGED <<db, inFlight, entered, timer, active, stream, pc, packet, cur,
                               todo, contended>>
    BY <1>2 DEF TrackerInv, TypeOK, vars, calls
  <2>2. QED BY <2>1, MatureKeeps
<1>3. QED BY <1>1, <1>2, StepKeeps, ArriveKeeps, FireKeeps, CrashKeeps DEF Next, MapAbort

LEMMA InitTracks ==
    ASSUME Init
    PROVE  TrackerInv
<1>1. TypeOK
  <2>1. (CHOOSE s \in Streams : TRUE) \in Streams
    BY TrackerAssumption
  <2>2. 0 \in 0..MaxCalls
    BY TrackerAssumption
  <2>3. QED BY <2>1, <2>2 DEF Init, TypeOK, NoCall
<1>2. \A p \in Procs : pc[p] = "idle" /\ cur[p] = NoCall
  BY DEF Init
<1>3. HoldsACall /\ TimersOnlyEnd
  BY <1>2 DEF HoldsACall, TimersOnlyEnd, Timers, Procs, Holding, Starting, Updating, Ending
<1>4. UnbornIsNowhere
  BY CallsAreNumbers, <1>2 DEF Init, UnbornIsNowhere
<1>5. StarterIsAlone /\ ClosersContend
  BY CallsAreNumbers, <1>2 DEF StarterIsAlone, ClosersContend, Starts, Closes
<1>6. EnteredIsLive /\ InactiveIsLeaving /\ TimerlessIsInHand /\ NoForgottenCall
  BY DEF Init, EnteredIsLive, InactiveIsLeaving, TimerlessIsInHand, NoForgottenCall
<1>7. QED BY <1>1, <1>3, <1>4, <1>5, <1>6 DEF TrackerInv

\* The inductive invariant of the tracker (call_tracker.go:40-466), with no atomicity
\* but that of a single map access, row or timer call.
THEOREM TrackerInvariant == Spec => []TrackerInv
BY InitTracks, NextKeeps, PTL DEF Spec

\* The two maps, the rows and the goroutines' locals keep their shape.
THEOREM TrackerTypes == Spec => []TypeOK
<1>1. TrackerInv => TypeOK
  BY DEF TrackerInv
<1>2. QED BY <1>1, TrackerInvariant, PTL

\* A call in InFlightCalls has a timer that will fire, or the goroutine of its fired
\* timer has still to come to it, or another is starting or ending it, but for what a
\* key-up of its stream leaves behind (call_tracker.go:138, 252, 424-432).
THEOREM NoCallIsForgotten == Spec => []NoForgottenCall
<1>1. TrackerInv => NoForgottenCall
  BY DEF TrackerInv
<1>2. QED BY <1>1, TrackerInvariant, PTL

\* The timer that updateCall and EndCall use without looking (call_tracker.go:252,
\* 425) is missing only while a goroutine is about to enter it or to take the call
\* out of the map, or behind a key-up.
THEOREM MissingTimersAreInHand == Spec => []TimerlessIsInHand
<1>1. TrackerInv => TimerlessIsInHand
  BY DEF TrackerInv
<1>2. QED BY <1>1, TrackerInvariant, PTL

----------------------------------------------------------------------------
(* The calls of a stream. *)

LEMMA ClaimsAreFinite ==
    ASSUME NEW s
    PROVE  IsFiniteSet(Claims(s)) /\ Cardinality(Claims(s)) \in Nat
<1>1. IsFiniteSet(Calls) /\ IsFiniteSet(Packets)
  BY TrackerAssumption, FS_Interval DEF Calls
<1>2. IsFiniteSet(Calls \cup Packets)
  BY <1>1, FS_Union
<1>3. Claims(s) \in SUBSET (Calls \cup Packets)
  BY DEF Claims
<1>4. QED BY <1>2, <1>3, FS_Subset, FS_CardinalityType

LEMMA WorkersAreFinite == IsFiniteSet(AtWork(Packets)) /\ Cardinality(AtWork(Packets)) \in Nat
<1>1. AtWork(Packets) \in SUBSET Packets
  BY DEF AtWork
<1>2. QED BY <1>1, TrackerAssumption, FS_Subset, FS_CardinalityType

LEMMA OneMore ==
    ASSUME NEW S, IsFiniteSet(S), NEW x
    PROVE  IsFiniteSet(S \cup {x}) /\ Cardinality(S \cup {x}) <= Cardinality(S) + 1
<1>1. Cardinality(S) \in Nat
  BY FS_CardinalityType
<1>2. IsFiniteSet(S \cup {x})
      /\ Cardinality(S \cup {x}) = IF x \in S THEN Cardinality(S) ELSE Cardinality(S) + 1
  BY FS_AddElement
<1>3. QED BY <1>1, <1>2

LEMMA NoMoreWorkers ==
    ASSUME CountInv, AtWork(Packets)' \subseteq AtWork(Packets)
    PROVE  (Cardinality(AtWork(Packets)) <= MaxRunning)'
<1>1. Cardinality(AtWork(Packets)') <= Cardinality(AtWork(Packets)) /\ IsFiniteSet(AtWork(Packets)')
  BY WorkersAreFinite, FS_Subset
<1>2. Cardinality(AtWork(Packets)') \in Nat
  BY <1>1, FS_CardinalityType
<1>3. QED BY <1>1, <1>2, WorkersAreFinite, TrackerAssumption DEF CountInv

LEMMA NoMoreClaims ==
    ASSUME CountInv, NEW s \in Streams, Claims(s)' \subseteq Claims(s)
    PROVE  (Cardinality(Claims(s)) <= MaxRunning)'
<1>1. Cardinality(Claims(s)') <= Cardinality(Claims(s)) /\ IsFiniteSet(Claims(s)')
  BY ClaimsAreFinite, FS_Subset
<1>2. Cardinality(Claims(s)') \in Nat
  BY <1>1, FS_CardinalityType
<1>3. QED BY <1>1, <1>2, ClaimsAreFinite, TrackerAssumption DEF CountInv

\* No call becomes active in the map but those a goroutine has a share in, and none
\* gets a share but in a call that is active in the map.
LEMMA ClaimsDoNotGrow ==
    ASSUME TypeOK, NEW p \in Procs, UNCHANGED stream,
           \A q \in Procs : q # p => pc'[q] = pc[q] /\ cur'[q] = cur[q] /\ packet'[q] = packet[q],
           \A c \in inFlight' : c \in inFlight \/ At(c, {"insert"}),
           \A c \in inFlight' : active'[c] => active[c] \/ At(c, Updating \cup {"insert"}),
           pc'[p] \in Updating => \/ pc[p] \in Updating /\ cur'[p] = cur[p]
                                  \/ cur'[p] \in inFlight /\ active[cur'[p]],
           pc'[p] # "insert",
           pc'[p] = "start" => pc[p] = "start" /\ packet'[p] = packet[p]
    PROVE  \A s \in Streams : Claims(s)' \subseteq Claims(s)
<1> SUFFICES ASSUME NEW s \in Streams, NEW x \in Claims(s)' PROVE x \in Claims(s)
  OBVIOUS
<1>1. CASE x \in Packets /\ pc'[x] = "start" /\ packet'[x] = s
  BY <1>1 DEF Claims, Procs
<1>2. CASE x \in Calls /\ stream'[x] = s /\ At(x, {"insert"})'
  <2>1. At(x, {"insert"})
    BY <1>2 DEF At
  <2>2. QED BY <1>2, <2>1 DEF Claims
<1>3. CASE x \in Calls /\ stream'[x] = s /\ x \in inFlight' /\ (active'[x] \/ At(x, Updating)')
  <2>1. At(x, Updating)' => At(x, Updating) \/ (x \in inFlight /\ active[x])
    BY DEF At
  <2>2. (x \in inFlight /\ (active[x] \/ At(x, Updating))) \/ At(x, {"insert"})
    <3>1. At(x, Updating \cup {"insert"}) => At(x, Updating) \/ At(x, {"insert"})
      BY DEF At
    <3>2. QED BY <1>3, <2>1, <3>1
  <2>3. QED BY <1>3, <2>2 DEF Claims
<1>4. QED BY <1>1, <1>2, <1>3 DEF Claims

\* A packet that finds no call of its stream: each of those that are claimed still is
\* in the hands of another packet at work.
LEMMA CheckCounts ==
    ASSUME TrackerInv, CountInv, NEW p \in Procs, Check(p)
    PROVE  CountInv'
<1>1. /\ \A q \in Procs : q # p => pc'[q] = pc[q]
      /\ pc[p] = "check" /\ pc'[p] = IF Matching(p) = {} THEN "start" ELSE "recheck"
      /\ UNCHANGED <<inFlight, active, stream, cur, packet>>
  BY DEF Check, Goto, TrackerInv, TypeOK, calls
<1>2. p \in Packets
  BY <1>1 DEF TrackerInv, TimersOnlyEnd, Procs, Timers, Ending
<1>3. AtWork(Packets)' = AtWork(Packets)
  BY <1>1, <1>2 DEF AtWork, Running, Procs
<1>4. CASE Matching(p) # {}
  <2>1. \A s \in Streams : Claims(s)' \subseteq Claims(s)
    BY <1>1, <1>4, ClaimsDoNotGrow DEF TrackerInv, Updating
  <2>2. QED BY <1>3, <2>1, NoMoreWorkers, NoMoreClaims DEF CountInv
<1>5. ASSUME Matching(p) = {}, NEW s \in Streams
      PROVE  (Cardinality(Claims(s)) <= MaxRunning)'
  <2>1. CASE s # packet[p]
    <3>1. Claims(s)' \subseteq Claims(s)
      <4>1. \A c \in Calls : /\ At(c, Updating)' <=> At(c, Updating)
                             /\ At(c, {"insert"})' <=> At(c, {"insert"})
        BY <1>1, <1>5 DEF At, Updating
      <4>2. QED BY <1>1, <2>1, <4>1 DEF Claims, Procs
    <3>2. QED BY <3>1, NoMoreClaims
  <2>2. CASE s = packet[p]
    <3> DEFINE S == AtWork(Packets)'
               f == [q \in S |-> IF pc'[q] = "start" THEN q ELSE cur[q]]
               T == {f[q] : q \in S}
    <3>1. Claims(s)' \subseteq T
      <4> SUFFICES ASSUME NEW x \in Claims(s)' PROVE x \in T
        OBVIOUS
      <4>1. CASE x \in Packets /\ pc'[x] = "start"
        <5>1. x \in S /\ f[x] = x
          BY <4>1 DEF AtWork, Running
        <5>2. QED BY <5>1
      <4>2. CASE x \in Calls /\ At(x, Updating \cup {"insert"})'
        <5>1. PICK q \in Procs : cur[q] = x /\ pc'[q] \in Updating \cup {"insert"}
          BY <1>1, <4>2 DEF At
        <5>2. q # p /\ pc[q] = pc'[q]
          BY <1>1, <1>5, <5>1 DEF Updating
        <5>3. q \in Packets
          BY <5>1, <5>2 DEF TrackerInv, TimersOnlyEnd, Procs, Timers, Ending, Updating
        <5>4. q \in S /\ f[q] = x
          BY <5>1, <5>3 DEF AtWork, Running, Updating, Starting
        <5>5. QED BY <5>4
      <4>3. CASE x \in inFlight' /\ active'[x] /\ stream'[x] = s
        BY <1>1, <1>5, <2>2, <4>3 DEF Matching
      <4>4. At(x, Updating)' \/ At(x, {"insert"})' => At(x, Updating \cup {"insert"})'
        BY DEF At
      <4>5. QED BY <4>1, <4>2, <4>3, <4>4 DEF Claims
    <3>2. f \in Surjection(S, T)
      BY DEF Surjection
    <3>3. IsFiniteSet(S) /\ Cardinality(S) <= MaxRunning /\ Cardinality(S) \in Nat
      BY <1>3, WorkersAreFinite DEF CountInv
    <3> HIDE DEF f, T
    <3>4. IsFiniteSet(T) /\ Cardinality(T) <= Cardinality(S)
      BY <3>2, <3>3, FS_Surjection
    <3>5. Cardinality(Claims(s)') <= Cardinality(T) /\ IsFiniteSet(Claims(s)')
      BY <3>1, <3>4, FS_Subset
    <3>6. Cardinality(T) \in Nat /\ Cardinality(Claims(s)') \in Nat
      BY <3>4, <3>5, FS_CardinalityType
    <3>7. QED BY <3>3, <3>4, <3>5, <3>6, TrackerAssumption
  <2>3. QED BY <2>1, <2>2
<1>6. Matching(p) = {} => CountInv'
  BY <1>3, <1>5, NoMoreWorkers DEF CountInv
<1>7. QED BY <1>4, <1>6

\* A packet that starts a call has the call for its claim.
LEMMA CreateCounts ==
    ASSUME TrackerInv, CountInv, NEW p \in Procs, NEW c \in Calls, Create(p, c)
    PROVE  CountInv'
<1>1. /\ pc[p] = "start" /\ pc'[p] = "insert" /\ cur'[p] = c /\ stream'[c] = packet[p]
      /\ db[c] = "none"
      /\ \A q \in Procs : q # p => pc'[q] = pc[q] /\ cur'[q] = cur[q]
      /\ \A d \in Calls : d # c => active'[d] = active[d] /\ stream'[d] = stream[d]
      /\ UNCHANGED <<inFlight, packet>>
  BY DEF Create, Goto, TrackerInv, TypeOK
<1>2. c \notin inFlight
  BY <1>1 DEF TrackerInv, UnbornIsNowhere
<1>3. p \in Packets /\ p \notin Calls
  BY <1>1, PacketsAreNotCalls DEF TrackerInv, TimersOnlyEnd, Procs, Timers, Ending
<1>4. AtWork(Packets)' \subseteq AtWork(Packets)
  BY <1>1 DEF AtWork, Running, Procs
<1>5. \A d \in Calls : d # c => /\ At(d, Updating)' => At(d, Updating)
                                /\ At(d, {"insert"})' => At(d, {"insert"})
  BY <1>1 DEF At, Updating
<1>6. ASSUME NEW s \in Streams PROVE (Cardinality(Claims(s)) <= MaxRunning)'
  <2>1. CASE s # packet[p]
    <3>1. Claims(s)' \subseteq Claims(s)
      BY <1>1, <1>5, <2>1 DEF Claims, Procs
    <3>2. QED BY <3>1, NoMoreClaims
  <2>2. CASE s = packet[p]
    <3> DEFINE R == Claims(s) \ {p}
    <3>1. p \in Claims(s)
      BY <1>1, <1>3, <2>2 DEF Claims
    <3>2. IsFiniteSet(R) /\ Cardinality(R) = Cardinality(Claims(s)) - 1
      BY <3>1, ClaimsAreFinite, FS_RemoveElement
    <3>3. Claims(s)' \subseteq R \cup {c}
      BY <1>1, <1>2, <1>3, <1>5 DEF Claims, Procs
    <3>4. IsFiniteSet(R \cup {c}) /\ Cardinality(R \cup {c}) <= Cardinality(R) + 1
      BY <3>2, OneMore
    <3>5. Cardinality(Claims(s)') <= Cardinality(R \cup {c}) /\ IsFiniteSet(Claims(s)')
      BY <3>3, <3>4, FS_Subset
    <3>6. Cardinality(Claims(s)') \in Nat /\ Cardinality(R \cup {c}) \in Nat /\ Cardinality(R) \in Nat
      BY <3>2, <3>4, <3>5, FS_CardinalityType
    <3> HIDE DEF R
    <3>7. QED BY <3>2, <3>4, <3>5, <3>6, ClaimsAreFinite, TrackerAssumption DEF CountInv
  <2>3. QED BY <2>1, <2>2
<1>7. QED BY <1>4, <1>6, NoMoreWorkers DEF CountInv

\* The other steps of a goroutine add no claim.
LEMMA OthersCount ==
    ASSUME TrackerInv, CountInv, NEW p \in Procs,
           \/ Recheck(p) \/ Reject(p) \/ Insert(p) \/ Arm(p) \/ Enter(p)
           \/ Process(p) \/ LookUp(p) \/ Reset(p) \/ Update(p) \/ EndCall(p)
    PROVE  CountInv'
<1> USE DEF TrackerInv, TypeOK, Goto, calls, AfterProcess
<1>1. /\ \A q \in Procs : q # p => pc'[q] = pc[q] /\ cur'[q] = cur[q]
      /\ pc[p] \in Running /\ UNCHANGED <<stream, packet>>
  <2>1. CASE Recheck(p) \/ Reject(p) \/ Insert(p) \/ Arm(p) \/ Enter(p)
    BY <2>1 DEF Recheck, Reject, Insert, Arm, Enter, Running, Starting
  <2>2. CASE Process(p) \/ LookUp(p) \/ Reset(p) \/ Update(p)
    BY <2>2 DEF Process, LookUp, Reset, Update, Running, Updating, Ending
  <2>3. CASE EndCall(p)
    BY <2>3 DEF EndCall, Visit, LeaveLoop, Stop, Delete, Judge, Discard, Deactivate, Save, Leave,
                Running, Ending
  <2>4. QED BY <2>1, <2>2, <2>3
<1>2. AtWork(Packets)' \subseteq AtWork(Packets)
  BY <1>1 DEF AtWork, Procs
<1>3. /\ \A c \in inFlight' : c \in inFlight \/ At(c, {"insert"})
      /\ \A c \in inFlight' : active'[c] => active[c] \/ At(c, Updating \cup {"insert"})
      /\ pc'[p] \in Updating => \/ pc[p] \in Updating /\ cur'[p] = cur[p]
                                \/ cur'[p] \in inFlight /\ active[cur'[p]]
      /\ pc'[p] \notin {"insert", "start"}
  <2>1. CASE Recheck(p) \/ Reject(p) \/ Arm(p) \/ Enter(p) \/ Reset(p) \/ LookUp(p)
    BY <2>1 DEF Recheck, Reject, Arm, Enter, Reset, LookUp, Updating
  <2>2. CASE Insert(p)
    BY <2>2 DEF Insert, At, Updating
  <2>3. CASE Process(p)
    BY <2>3 DEF Process, Matching, Updating
  <2>4. CASE Update(p)
    BY <2>4 DEF Update, At, Updating
  <2>5. CASE EndCall(p)
    BY <2>5 DEF EndCall, Visit, LeaveLoop, Stop, Delete, Judge, Discard, Deactivate, Save, Leave,
                Updating
  <2>6. QED BY <2>1, <2>2, <2>3, <2>4, <2>5
<1>4. \A s \in Streams : Claims(s)' \subseteq Claims(s)
  BY <1>1, <1>3, ClaimsDoNotGrow
<1>5. QED BY <1>2, <1>4, NoMoreWorkers, NoMoreClaims DEF CountInv

LEMMA CrashCounts ==
    ASSUME Crash
    PROVE  CountInv'
<1>1. \A q \in Procs : pc'[q] \in {"idle", "done"}
  BY DEF Crash
<1>2. AtWork(Packets)' = {}
  BY <1>1 DEF AtWork, Running, Starting, Updating, Ending, Procs
<1>3. \A s \in Streams : Claims(s)' = {}
  <2>1. inFlight' = {}
    BY DEF Crash
  <2>2. \A c \in Calls : ~At(c, {"insert"})'
    BY <1>1 DEF At
  <2>3. QED BY <1>1, <2>1, <2>2 DEF Claims, Procs
<1>4. QED BY <1>2, <1>3, FS_EmptySet, TrackerAssumption DEF CountInv

\* A packet arrives when there is room for one more.
LEMMA ArriveCounts ==
    ASSUME TrackerInv, CountInv, NEW p \in Packets, NEW s \in Streams, Arrive(p, s)
    PROVE  CountInv'
<1>1. /\ p \in Procs /\ pc'[p] = "check" /\ UNCHANGED <<inFlight, active, stream, cur>>
      /\ \A q \in Procs : q # p => pc'[q] = pc[q] /\ packet'[q] = packet[q]
  BY DEF Arrive, Goto, TrackerInv, TypeOK, calls, Procs
<1>2. (Cardinality(AtWork(Packets)) <= MaxRunning)'
  <2>1. AtWork(Packets)' \subseteq AtWork(Packets) \cup {p}
    BY <1>1 DEF AtWork, Procs
  <2>2. /\ IsFiniteSet(AtWork(Packets) \cup {p})
        /\ Cardinality(AtWork(Packets) \cup {p}) <= Cardinality(AtWork(Packets)) + 1
    BY WorkersAreFinite, OneMore
  <2>3. /\ Cardinality(AtWork(Packets)') <= Cardinality(AtWork(Packets) \cup {p})
        /\ IsFiniteSet(AtWork(Packets)')
    BY <2>1, <2>2, FS_Subset
  <2>4. Cardinality(AtWork(Packets)') \in Nat /\ Cardinality(AtWork(Packets) \cup {p}) \in Nat
    BY <2>2, <2>3, FS_CardinalityType
  <2>5. Cardinality(AtWork(Packets)) < MaxRunning
    BY DEF Arrive
  <2>6. QED BY <2>2, <2>3, <2>4, <2>5, WorkersAreFinite, TrackerAssumption
<1>3. \A t \in Streams : Claims(t)' \subseteq Claims(t)
  BY <1>1, ClaimsDoNotGrow DEF TrackerInv, Updating
<1>4. QED BY <1>2, <1>3, NoMoreClaims DEF CountInv

LEMMA NextCounts ==
    ASSUME TrackerInv, CountInv, [Next]_vars
    PROVE  CountInv'
<1>1. ASSUME NEW p \in Procs, Step(p) PROVE CountInv'
  BY <1>1, CheckCounts, CreateCounts, OthersCount, CrashCounts DEF Step, StartCall, Panic
<1>2. ASSUME NEW c \in Calls, Fire(c) PROVE CountInv'
  <2>1. /\ c \in Procs /\ c \notin Packets /\ pc'[c] = "end"
        /\ UNCHANGED <<inFlight, active, stream, cur>>
        /\ \A q \in Procs : q # c => pc'[q] = pc[q] /\ packet'[q] = packet[q]
    BY <1>2, PacketsAreNotCalls DEF Fire, Goto, TrackerInv, TypeOK, Procs, Timers
  <2>2. AtWork(Packets)' \subseteq AtWork(Packets)
    BY <2>1 DEF AtWork, Procs
  <2>3. \A s \in Streams : Claims(s)' \subseteq Claims(s)
    BY <2>1, ClaimsDoNotGrow DEF TrackerInv, Updating
  <2>4. QED BY <2>2, <2>3, NoMoreWorkers, NoMoreClaims DEF CountInv
<1>3. ASSUME \/ \E c \in Calls : Mature(c)
             \/ UNCHANGED vars
      PROVE  CountInv'
  <2>1. UNCHANGED <<pc, cur, packet, inFlight, active, stream>>
    BY <1>3 DEF Mature, vars, calls
  <2>2. \A L : \A c \in Calls : At(c, L)' <=> At(c, L)
    BY <2>1 DEF At
  <2>3. QED BY <2>1, <2>2 DEF CountInv, Claims, AtWork
<1>4. QED BY <1>1, <1>2, <1>3, ArriveCounts, CrashCounts DEF Next, MapAbort

\* However many packets and timers are at work and however a late updateCall comes
\* after an end, a stream has no more active calls in the map than packets are
\* handled at once (call_tracker.go:143-150, packet_handler.go:195-205).
THEOREM CallsAreAsManyAsPackets == Spec => []CallsPerStream
<1>1. Init => CountInv
  <2>1. SUFFICES ASSUME Init PROVE CountInv
    OBVIOUS
  <2>2. AtWork(Packets) = {}
    BY <2>1 DEF Init, AtWork, Running, Starting, Updating, Ending, Procs
  <2>3. \A s \in Streams : Claims(s) = {}
    BY <2>1 DEF Init, Claims, At, Procs
  <2>4. QED BY <2>2, <2>3, FS_EmptySet, TrackerAssumption DEF CountInv
<1>2. TrackerInv /\ CountInv /\ [Next]_vars => CountInv'
  BY NextCounts
<1>3. TrackerInv /\ CountInv => CallsPerStream
  <2> SUFFICES ASSUME TrackerInv, CountInv, NEW s \in Streams
               PROVE  Cardinality({c \in inFlight : active[c] /\ stream[c] = s}) <= MaxRunning
    BY DEF CallsPerStream
  <2> DEFINE A == {c \in inFlight : active[c] /\ stream[c] = s}
  <2>1. A \subseteq Claims(s)
    BY DEF Claims, TrackerInv, TypeOK
  <2>2. Cardinality(A) <= Cardinality(Claims(s)) /\ IsFiniteSet(A)
    BY <2>1, ClaimsAreFinite, FS_Subset
  <2>3. Cardinality(A) \in Nat
    BY <2>2, FS_CardinalityType
  <2>4. QED BY <2>2, <2>3, ClaimsAreFinite, TrackerAssumption DEF CountInv
<1>4. QED BY <1>1, <1>2, <1>3, TrackerInvariant, PTL DEF Spec

----------------------------------------------------------------------------
(* A step of the tracker is a step in the lives of its calls. *)

\* The phase of a call depends on its row, the map, its starter and the contention.
LEMMA PhaseValue ==
    ASSUME TypeOK, NEW c \in Calls
    PROVE  Phase(c) =
             IF c \in contended THEN "contended"
             ELSE IF db[c] = "none" THEN "unborn"
             ELSE IF db[c] = "ended" THEN "ended"
             ELSE IF db[c] = "deleted" THEN "discarded"
             ELSE IF c \in inFlight \/ At(c, {"insert"}) THEN "live" ELSE "abandoned"
BY DEF TypeOK, Phase

LEMMA NextPhaseValue ==
    ASSUME TypeOK', NEW c \in Calls
    PROVE  Phase(c)' =
             IF c \in contended' THEN "contended"
             ELSE IF db'[c] = "none" THEN "unborn"
             ELSE IF db'[c] = "ended" THEN "ended"
             ELSE IF db'[c] = "deleted" THEN "discarded"
             ELSE IF c \in inFlight' \/ At(c, {"insert"})' THEN "live" ELSE "abandoned"
BY DEF TypeOK, Phase

\* A step that keeps all phases, or abandons some.
LEMMA Abandoned ==
    ASSUME NEW S \in SUBSET Calls, \A c \in S : Phase(c) = "live" /\ Phase(c)' = "abandoned",
           \A c \in Calls \ S : Phase(c)' = Phase(c)
    PROVE  Life!Next
<1> DEFINE f == [c \in Calls |-> Phase(c)]
<1>1. \A c \in S : f[c] = "live"
  OBVIOUS
<1>2. f' = [c \in Calls |-> IF c \in S THEN "abandoned" ELSE f[c]]
  OBVIOUS
<1>3. Life!Abandon(S)
  BY <1>1, <1>2 DEF Life!Abandon
<1>4. QED BY <1>3 DEF Life!Next

LEMMA PhasesStay ==
    ASSUME \A c \in Calls : Phase(c)' = Phase(c)
    PROVE  Life!Next
<1>1. {} \in SUBSET Calls
  OBVIOUS
<1>2. QED BY <1>1, Abandoned

LEMMA OneMoves ==
    ASSUME NEW c \in Calls, NEW v, Phase(c)' = v,
           \A d \in Calls : d # c => Phase(d)' = Phase(d),
           \/ Phase(c) = "unborn" /\ v = "live"
           \/ Phase(c) = "live" /\ v \in {"ended", "discarded", "contended"}
    PROVE  Life!Next
<1> DEFINE f == [d \in Calls |-> Phase(d)]
<1>1. f' = [f EXCEPT ![c] = v] /\ f[c] = Phase(c)
  OBVIOUS
<1>2. Life!Begin(c) \/ Life!End(c) \/ Life!Discard(c) \/ Life!Contend(c)
  BY <1>1 DEF Life!Begin, Life!End, Life!Discard, Life!Contend
<1>3. QED BY <1>2 DEF Life!Next

LEMMA CrashAbandons ==
    ASSUME TrackerInv, Crash
    PROVE  Life!Next
<1> DEFINE S == {c \in Calls : Phase(c) = "live"}
<1>0. TypeOK /\ TypeOK'
  BY CrashKeeps DEF TrackerInv
<1>1. /\ UNCHANGED <<db, contended>> /\ inFlight' = {}
      /\ \A c \in Calls : ~At(c, {"insert"})'
  BY DEF Crash, At
<1>2. \A c \in S : Phase(c)' = "abandoned"
  BY <1>0, <1>1, PhaseValue, NextPhaseValue DEF TypeOK
<1>3. \A c \in Calls \ S : Phase(c)' = Phase(c)
  BY <1>0, <1>1, PhaseValue, NextPhaseValue DEF TypeOK
<1>4. QED BY <1>2, <1>3, Abandoned

\* The steps of a goroutine.
LEMMA StepLives ==
    ASSUME TrackerInv, TrackerInv', NEW p \in Procs, Step(p), ~Crash
    PROVE  Life!Next
<1>0. TypeOK /\ TypeOK'
  BY DEF TrackerInv
<1>1. ASSUME NEW c \in Calls, Create(p, c) PROVE Life!Next
  <2>1. /\ pc[p] = "start" /\ pc'[p] = "insert" /\ cur'[p] = c /\ db[c] = "none"
        /\ db'[c] = "active" /\ \A d \in Calls : d # c => db'[d] = db[d]
        /\ \A q \in Procs : q # p => pc'[q] = pc[q] /\ cur'[q] = cur[q]
        /\ UNCHANGED <<inFlight, contended>>
    BY <1>1 DEF Create, Goto, TrackerInv, TypeOK
  <2>2. c \notin contended
    BY <2>1 DEF TrackerInv, UnbornIsNowhere
  <2>3. \A d \in Calls : d # c => (At(d, {"insert"})' <=> At(d, {"insert"}))
    BY <2>1 DEF At
  <2>4. At(c, {"insert"})'
    BY <2>1 DEF At
  <2>5. Phase(c) = "unborn" /\ Phase(c)' = "live"
    BY <1>0, <2>1, <2>2, <2>4, PhaseValue, NextPhaseValue
  <2>6. \A d \in Calls : d # c => Phase(d)' = Phase(d)
    BY <1>0, <2>1, <2>3, PhaseValue, NextPhaseValue
  <2>7. QED BY <2>5, <2>6, OneMoves
<1>2. CASE Insert(p)
  <2>1. PICK c \in Calls : c = cur[p] /\ pc[p] = "insert"
    BY <1>2 DEF Insert, TrackerInv, HoldsACall, Holding, Starting
  <2>2. /\ inFlight' = inFlight \cup {c} /\ pc'[p] = "arm"
        /\ \A q \in Procs : q # p => pc'[q] = pc[q]
        /\ UNCHANGED <<db, cur, contended>>
    BY <1>2, <2>1 DEF Insert, Goto, TrackerInv, TypeOK
  <2>3. \A d \in Calls : d # c => (At(d, {"insert"})' <=> At(d, {"insert"}))
    BY <2>1, <2>2 DEF At
  <2>4. At(c, {"insert"})
    BY <2>1 DEF At
  <2>5. \A d \in Calls : Phase(d)' = Phase(d)
    BY <1>0, <2>2, <2>3, <2>4, PhaseValue, NextPhaseValue
  <2>6. QED BY <2>5, PhasesStay
<1>3. CASE LookUp(p)
  <2>1. PICK c \in Calls : c = cur[p] /\ c \in entered
    BY <1>3 DEF LookUp, TrackerInv, HoldsACall, Holding, Updating, Ending
  <2>2. /\ \A q \in Procs : q # p => pc'[q] = pc[q]
        /\ pc[p] # "insert" /\ pc'[p] # "insert" /\ UNCHANGED <<db, inFlight, cur>>
        /\ contended' \in {contended, contended \cup {c}}
    BY <1>3, <2>1 DEF LookUp, Goto, TrackerInv, TypeOK, calls
  <2>3. \A d \in Calls : At(d, {"insert"})' <=> At(d, {"insert"})
    BY <2>2 DEF At
  <2>4. \A d \in Calls : d # c \/ contended' = contended => Phase(d)' = Phase(d)
    BY <1>0, <2>2, <2>3, PhaseValue, NextPhaseValue
  <2>5. CASE c \in contended' \ contended
    <3>1. Phase(c) = "live" /\ Phase(c)' = "contended"
      BY <1>0, <2>1, <2>5, PhaseValue, NextPhaseValue DEF TrackerInv, EnteredIsLive
    <3>2. QED BY <2>4, <3>1, OneMoves
  <2>6. CASE c \notin contended' \ contended
    BY <2>2, <2>4, <2>6, PhasesStay
  <2>7. QED BY <2>5, <2>6
<1>4. CASE Discard(p) \/ Save(p)
  <2>1. PICK c \in Calls : c = cur[p] /\ Closes(p, c) /\ pc[p] \in {"discard", "save"}
    BY <1>4 DEF Discard, Save, TrackerInv, HoldsACall, Holding, Ending, Closes
  <2>2. /\ \A d \in Calls : d # c => db'[d] = db[d]
        /\ db[c] = "active" => db'[c] \in {"active", "ended", "deleted"}
        /\ \A q \in Procs : q # p => pc'[q] = pc[q] /\ cur'[q] = cur[q]
        /\ pc'[p] # "insert" /\ UNCHANGED <<inFlight, contended>>
    BY <1>4, <2>1 DEF Discard, Save, Goto, TrackerInv, TypeOK
  <2>3. \A d \in Calls : At(d, {"insert"})' <=> At(d, {"insert"})
    BY <2>1, <2>2 DEF At
  <2>4. c \in contended \/ (c \in inFlight /\ db[c] = "active")
    BY <2>1 DEF TrackerInv, ClosersContend
  <2>5. \A d \in Calls : d # c => Phase(d)' = Phase(d)
    BY <1>0, <2>2, <2>3, PhaseValue, NextPhaseValue
  <2>6. CASE c \in contended \/ db'[c] = "active"
    <3>1. Phase(c)' = Phase(c)
      BY <1>0, <2>2, <2>4, <2>6, PhaseValue, NextPhaseValue
    <3>2. QED BY <2>5, <3>1, PhasesStay
  <2>7. CASE c \notin contended /\ db'[c] # "active"
    <3>1. Phase(c) = "live" /\ Phase(c)' \in {"ended", "discarded"}
      BY <1>0, <2>2, <2>4, <2>7, PhaseValue, NextPhaseValue
    <3>2. QED BY <2>5, <3>1, OneMoves
  <2>8. QED BY <2>6, <2>7
<1>5. CASE Leave(p)
  <2>1. PICK c \in Calls : c = cur[p] /\ Closes(p, c) /\ pc[p] = "leave"
    BY <1>5 DEF Leave, TrackerInv, HoldsACall, Holding, Ending, Closes
  <2>2. /\ inFlight' = inFlight \ {c} /\ pc'[p] = "end"
        /\ \A q \in Procs : q # p => pc'[q] = pc[q] /\ cur'[q] = cur[q]
        /\ UNCHANGED <<db, contended>>
    BY <1>5, <2>1 DEF Leave, Goto, TrackerInv, TypeOK
  <2>3. \A d \in Calls : At(d, {"insert"})' <=> At(d, {"insert"})
    BY <2>1, <2>2 DEF At
  <2>4. ~At(c, {"insert"})
    BY <2>1 DEF At, TrackerInv, StarterIsAlone, Starts, Starting
  <2>5. \A d \in Calls : d # c => Phase(d)' = Phase(d)
    BY <1>0, <2>2, <2>3, PhaseValue, NextPhaseValue
  <2>6. CASE Phase(c) = "live"
    <3>1. c \notin contended /\ db[c] \notin {"none", "ended", "deleted"}
      BY <1>0, <2>6, PhaseValue
    <3>2. Phase(c)' = "abandoned"
      BY <1>0, <2>2, <2>3, <2>4, <3>1, NextPhaseValue
    <3>3. {c} \in SUBSET Calls
      OBVIOUS
    <3>4. QED BY <2>5, <2>6, <3>2, <3>3, Abandoned
  <2>7. CASE Phase(c) # "live"
    <3>1. Phase(c)' = Phase(c)
      BY <1>0, <2>2, <2>3, <2>4, <2>7, PhaseValue, NextPhaseValue DEF TypeOK
    <3>2. QED BY <2>5, <3>1, PhasesStay
  <2>8. QED BY <2>6, <2>7
<1>6. CASE \/ Check(p) \/ Recheck(p) \/ Reject(p) \/ Arm(p) \/ Enter(p) \/ Process(p) \/ Reset(p)
           \/ Update(p) \/ (\E c \in Calls : Visit(p, c)) \/ LeaveLoop(p) \/ Stop(p) \/ Delete(p)
           \/ Judge(p) \/ Deactivate(p)
  <2>1. /\ pc[p] # "insert" /\ pc'[p] # "insert" /\ UNCHANGED <<db, inFlight, contended>>
        /\ \A q \in Procs : q # p => pc'[q] = pc[q] /\ cur'[q] = cur[q]
    BY <1>6 DEF Check, Recheck, Reject, Arm, Enter, Process, Reset, Update, Visit, LeaveLoop, Stop,
                Delete, Judge, Deactivate, AfterProcess, Goto, calls, TrackerInv, TypeOK
  <2>2. \A d \in Calls : At(d, {"insert"})' <=> At(d, {"insert"})
    BY <2>1 DEF At
  <2>3. \A d \in Calls : Phase(d)' = Phase(d)
    BY <1>0, <2>1, <2>2, PhaseValue, NextPhaseValue
  <2>4. QED BY <2>3, PhasesStay
<1>7. QED BY <1>1, <1>2, <1>3, <1>4, <1>5, <1>6 DEF Step, StartCall, EndCall, Panic

LEMMA NextLives ==
    ASSUME TrackerInv, Next
    PROVE  Life!Next
<1>0. TrackerInv' /\ TypeOK /\ TypeOK'
  BY NextKeeps DEF TrackerInv
<1>1. CASE Crash
  BY <1>1, CrashAbandons
<1>2. ASSUME NEW p \in Procs, Step(p), ~Crash PROVE Life!Next
  BY <1>0, <1>2, StepLives
<1>3. ASSUME \/ \E p \in Packets, s \in Streams : Arrive(p, s)
             \/ \E c \in Calls : Fire(c) \/ Mature(c)
      PROVE  Life!Next
  <2>1. /\ UNCHANGED <<db, inFlight, contended, cur>>
        /\ \A q \in Procs : (pc[q] = "insert") <=> (pc'[q] = "insert")
    BY <1>3 DEF Arrive, Fire, Mature, Goto, calls, TrackerInv, TypeOK, Procs, Timers
  <2>2. \A d \in Calls : At(d, {"insert"})' <=> At(d, {"insert"})
    BY <2>1 DEF At
  <2>3. \A d \in Calls : Phase(d)' = Phase(d)
    BY <1>0, <2>1, <2>2, PhaseValue, NextPhaseValue
  <2>4. QED BY <2>3, PhasesStay
<1>4. QED BY <1>1, <1>2, <1>3 DEF Next, MapAbort

\* The tracker implements the safety part of CallLife, whatever the schedule and the
\* crashes: every call is begun once and closed once, and a row is written again after
\* it has been closed only if two goroutines have had the call's timer in hand
\* (call_tracker.go:408-466).
THEOREM TrackerImplementsLife == Spec => CallsCloseOnce
<1>1. Init => Life!Init
  BY DEF Init, Life!Init, Phase
<1>2. TrackerInv /\ [Next]_vars => [Life!Next]_vars
  BY NextLives
<1>3. QED BY <1>1, <1>2, TrackerInvariant, PTL DEF Spec, CallsCloseOnce

----------------------------------------------------------------------------
(* The accounting. *)

\* Wrap is the identity on the values of a uint ...
LEMMA WrapInRange ==
    ASSUME NEW n \in 0..(Modulus - 1)
    PROVE  Wrap(n) = n
BY NumericAssumption DEF Wrap

\* ... and returns a value of a uint when it starts less than Modulus away.
LEMMA WrapType ==
    ASSUME NEW n \in Int, n > -Modulus, n < 2 * Modulus
    PROVE  Wrap(n) \in 0..(Modulus - 1)
BY NumericAssumption DEF Wrap

\* The gap before a voice frame is a uint: the exact difference, or that
\* difference wrapped around when the frame is older than the last one.
LEMMA VoiceGapValue ==
    ASSUME last \in 0..5, NEW n \in 1..4
    PROVE  /\ VoiceGap(n) \in 0..(Modulus - 1)
           /\ last = 5 => VoiceGap(n) \in 1..3 /\ VoiceGap(n) >= n - 1
           /\ last = 0 => VoiceGap(n) = 0
           /\ last \in 1..4 /\ n > last => VoiceGap(n) = n - last - 1
           /\ last \in 1..4 /\ n < last => VoiceGap(n) = Modulus + n - last - 1
BY NumericAssumption DEF VoiceGap, Wrap

\* Counting a frame keeps lost and total in range.
LEMMA CountType ==
    ASSUME CountersTypeOK, NEW gap \in 0..(Modulus - 1), Count(gap)
    PROVE  lost' \in 0..(Modulus - 1) /\ total' \in 0..(Modulus - 1)
BY NumericAssumption, WrapType DEF Count, CountersTypeOK

\* The invariant of the accounting is preserved by each kind of frame.
LEMMA HearPreserves ==
    ASSUME AccountingInv, NEW f \in Frame, Hear(f)
    PROVE  AccountingInv'
<1> USE NumericAssumption
<1>0. /\ CountersTypeOK /\ TotalNeverWraps /\ TotalBound
      /\ open = TRUE /\ open' = TRUE
      /\ frames \in Nat /\ frames < MaxFrames /\ frames' = frames + 1
      /\ total <= 7 * frames
      /\ Modulus > 7 * frames + 13
      /\ f.seq \in 0..15
  BY DEF AccountingInv, Hear, CountersTypeOK, TotalBound, Frame, VoiceHead, VoiceTerm
<1>1. SUFFICES /\ last' \in 0..5
               /\ hasHeader' \in BOOLEAN
               /\ hasTerm' \in BOOLEAN
               /\ total' \in 0..(7 * frames + 7)
               /\ lost' \in 0..(Modulus - 1)
               /\ last' = 0 => total' >= 2
               /\ last' \in 1..4 => total' >= last' - 1
               /\ hasTerm' /\ last' = 5 => total' >= 1
               /\ hasHeader' /\ last' = 5 => total' >= 1
  <2>1. frames' \in 0..MaxFrames /\ 7 * frames + 7 < Modulus
    BY <1>0
  <2>2. SUFFICES AccountingInv'
    OBVIOUS
  <2>3. /\ last' \in 0..5 /\ hasHeader' \in BOOLEAN /\ hasTerm' \in BOOLEAN
        /\ total' \in 0..(7 * frames + 7) /\ lost' \in 0..(Modulus - 1)
    OBVIOUS
  <2>4. total' \in 0..(Modulus - 1) /\ total' <= 7 * frames' /\ total' \in Nat
    BY <1>0, <2>1, <2>3
  <2>5. CountersTypeOK'
    BY <1>0, <2>1, <2>3, <2>4 DEF CountersTypeOK
  <2>6. TotalNeverWraps'
    BY <1>0, <2>4 DEF TotalNeverWraps
  <2>7. TotalBound'
    BY <2>4 DEF TotalBound
  <2>8. QED BY <2>5, <2>6, <2>7 DEF AccountingInv
<1>2. CASE Duplicate(f)
  <2>1. /\ last' = last /\ hasHeader' = hasHeader /\ hasTerm' = hasTerm
        /\ last # 0 /\ last \in 0..5
    BY <1>0, <1>2 DEF Duplicate, Repeated, CountersTypeOK
  <2>2. CASE total' = Wrap(total + 1) /\ lost' = lost
    BY <1>0, <2>1, <2>2 DEF CountersTypeOK, TotalBound, Wrap
  <2>3. CASE total' = Wrap(total + 6) /\ lost' = Wrap(lost + 1)
    BY <1>0, <2>1, <2>3 DEF CountersTypeOK, TotalBound, Wrap
  <2>4. QED BY <1>2, <2>2, <2>3 DEF Duplicate
<1>3. CASE Header(f)
  BY <1>0, <1>3 DEF Header, CountersTypeOK, TotalBound, Wrap
<1>4. CASE VoiceSync(f)
  <2> DEFINE gap == (IF hasHeader THEN 0 ELSE 1) + (5 - last)
  <2>1. /\ gap \in 0..6 /\ total + 1 + gap \in 2..(7 * frames + 7)
        /\ last' = 0 /\ hasHeader' = hasHeader /\ hasTerm' = hasTerm
    BY <1>0, <1>4 DEF VoiceSync, CountersTypeOK, TotalBound
  <2>2. total' = total + 1 + gap
    BY <1>0, <1>4, <2>1, WrapInRange DEF VoiceSync, Count
  <2>3. lost' \in 0..(Modulus - 1)
    BY <1>0, <1>4, <2>1, CountType DEF VoiceSync
  <2>4. QED BY <2>1, <2>2, <2>3, <1>0 DEF CountersTypeOK
<1>5. CASE Voice(f)
  <2> DEFINE n == f.seq
  <2>1. n \in 1..4 /\ n # last /\ last \in 0..5
    BY <1>0, <1>5 DEF Voice, IsVoice, Repeated, CountersTypeOK
  <2>2. /\ last' = n /\ hasHeader' = hasHeader /\ hasTerm' = hasTerm
        /\ Count(VoiceGap(n))
    BY <1>5 DEF Voice
  <2>3. lost' \in 0..(Modulus - 1)
    BY <1>0, <2>1, <2>2, CountType, VoiceGapValue
  <2>4. CASE last = 5
    <3>1. VoiceGap(n) \in 1..3 /\ VoiceGap(n) >= n - 1
      BY <2>1, <2>4, VoiceGapValue
    <3>2. total' = total + 1 + VoiceGap(n)
      BY <1>0, <2>2, <3>1, WrapInRange DEF Count, CountersTypeOK
    <3>3. QED BY <1>0, <2>1, <2>2, <2>3, <3>1, <3>2 DEF CountersTypeOK
  <2>5. CASE last = 0
    <3>1. VoiceGap(n) = 0
      BY <2>1, <2>5, VoiceGapValue
    <3>2. total' = total + 1
      BY <1>0, <2>2, <3>1, WrapInRange DEF Count, CountersTypeOK
    <3>3. QED BY <1>0, <2>1, <2>2, <2>3, <2>5, <3>2 DEF CountersTypeOK, TotalBound
  <2>6. CASE last \in 1..4 /\ n > last
    <3>1. VoiceGap(n) = n - last - 1
      BY <2>1, <2>6, VoiceGapValue
    <3>2. total' = total + n - last
      BY <1>0, <2>1, <2>2, <2>6, <3>1, WrapInRange DEF Count, CountersTypeOK
    <3>3. QED BY <1>0, <2>1, <2>2, <2>3, <2>6, <3>2 DEF CountersTypeOK, TotalBound
  <2>7. CASE last \in 1..4 /\ n < last
    <3>1. VoiceGap(n) = Modulus + n - last - 1
      BY <2>1, <2>7, VoiceGapValue
    <3>2. total + n - last \in 0..(Modulus - 1)
      BY <1>0, <2>1, <2>7 DEF CountersTypeOK, TotalBound
    <3>3. total' = total + n - last
      BY <1>0, <2>1, <2>2, <2>7, <3>1, <3>2 DEF Count, CountersTypeOK, Wrap
    <3>4. QED BY <1>0, <2>1, <2>2, <2>3, <2>7, <3>3 DEF CountersTypeOK, TotalBound
  <2>8. QED BY <2>1, <2>4, <2>5, <2>6, <2>7
<1>6. CASE LastVoice(f)
  <2>1. /\ 4 - last \in 0..4 /\ last \in 0..4
        /\ last' = 5 /\ hasHeader' = hasHeader /\ hasTerm' = hasTerm
    BY <1>0, <1>6 DEF LastVoice, Repeated, IsLastVoice, CountersTypeOK
  <2>2. total' = total + 5 - last
    BY <1>0, <1>6, <2>1, WrapInRange DEF LastVoice, Count, CountersTypeOK
  <2>3. lost' \in 0..(Modulus - 1)
    BY <1>0, <1>6, <2>1, CountType DEF LastVoice
  <2>4. QED BY <1>0, <2>1, <2>2, <2>3 DEF CountersTypeOK
<1>7. CASE Terminator(f)
  <2>1. /\ 5 - last \in 0..5
        /\ last' = 5 /\ hasHeader' = hasHeader /\ hasTerm' = TRUE
    BY <1>0, <1>7 DEF Terminator, CountersTypeOK
  <2>2. total' = total + 6 - last
    BY <1>0, <1>7, <2>1, WrapInRange DEF Terminator, Count, CountersTypeOK
  <2>3. lost' \in 0..(Modulus - 1)
    BY <1>0, <1>7, <2>1, CountType DEF Terminator
  <2>4. QED BY <1>0, <2>1, <2>2, <2>3 DEF CountersTypeOK
<1>8. CASE Unmatched(f)
  BY <1>0, <1>8 DEF Unmatched, CountersTypeOK, TotalBound
<1>9. QED
  BY <1>2, <1>3, <1>4, <1>5, <1>6, <1>7, <1>8 DEF Hear

\* The sum that EndCall divides by neither wraps nor is zero.
LEMMA DivisorValue ==
    ASSUME AccountingInv, open
    PROVE  /\ EndGap \in 0..6
           /\ Divisor = total + EndGap
           /\ Divisor \in 1..(7 * frames + 6)
<1> USE NumericAssumption
<1>1. EndGap \in 0..6 /\ total + EndGap \in 1..(7 * frames + 6)
  BY DEF EndGap, AccountingInv, CountersTypeOK, TotalBound
<1>2. 7 * frames + 6 < Modulus /\ frames \in Nat
  BY DEF AccountingInv, CountersTypeOK
<1>3. Divisor = total + EndGap
  BY <1>1, <1>2, WrapInRange DEF Divisor
<1>4. QED BY <1>1, <1>3

\* EndCall closes the books within the same bounds.
LEMMA EndCallPreserves ==
    ASSUME AccountingInv, EndCallTail
    PROVE  AccountingInv'
<1> USE NumericAssumption
<1>1. Divisor \in 1..(7 * frames + 6) /\ EndGap \in 0..6
  BY DivisorValue DEF EndCallTail
<1>2. Divisor = total + EndGap /\ 7 * frames + 6 < Modulus
  BY DivisorValue DEF EndCallTail, AccountingInv, CountersTypeOK
<1>3. lost' \in 0..(Modulus - 1)
  BY <1>1, WrapType DEF EndCallTail, AccountingInv, CountersTypeOK
<1>4. CountersTypeOK' /\ TotalNeverWraps'
  <2>1. total' \in 0..(Modulus - 1) /\ total' <= 7 * frames' + 6 /\ frames' = frames
    BY <1>1, <1>2 DEF EndCallTail, AccountingInv, CountersTypeOK
  <2>2. open' \in BOOLEAN /\ hasHeader' \in BOOLEAN /\ hasTerm' \in BOOLEAN
    BY DEF EndCallTail, AccountingInv, CountersTypeOK
  <2>3. last' \in 0..5 /\ frames' \in 0..MaxFrames
    BY DEF EndCallTail, AccountingInv, CountersTypeOK
  <2>4. QED BY <1>3, <2>1, <2>2, <2>3 DEF CountersTypeOK, TotalNeverWraps
<1>5. total' >= total
  BY <1>1, <1>2 DEF EndCallTail, AccountingInv, CountersTypeOK
<1>6. TotalBound'
  BY <1>5, <1>4 DEF EndCallTail, AccountingInv, CountersTypeOK, TotalBound
<1>7. QED BY <1>4, <1>6 DEF AccountingInv

\* A call as StartCall creates it.
LEMMA InitAccounts ==
    ASSUME CountersInit
    PROVE  AccountingInv
<1>1. Modulus > 6 /\ Modulus \in Nat /\ MaxFrames \in Nat
  BY NumericAssumption
<1>2. CountersTypeOK
  <2>1. hasHeader \in BOOLEAN /\ hasTerm \in BOOLEAN /\ open \in BOOLEAN
    BY DEF CountersInit
  <2>2. /\ last \in 0..5 /\ total \in 0..(Modulus - 1)
        /\ lost \in 0..(Modulus - 1) /\ frames \in 0..MaxFrames
    BY <1>1 DEF CountersInit
  <2>3. QED BY <2>1, <2>2 DEF CountersTypeOK
<1>3. TotalNeverWraps /\ TotalBound
  BY DEF CountersInit, TotalNeverWraps, TotalBound
<1>4. QED BY <1>2, <1>3 DEF AccountingInv

LEMMA AccountingStays ==
    ASSUME AccountingInv, [CountersNext]_counters
    PROVE  AccountingInv'
<1>1. CASE \E f \in Frame : Hear(f)
  BY <1>1, HearPreserves
<1>2. CASE EndCallTail
  BY <1>2, EndCallPreserves
<1>3. CASE UNCHANGED counters
  BY <1>3 DEF counters, AccountingInv, CountersTypeOK, TotalNeverWraps, TotalBound
<1>4. QED BY <1>1, <1>2, <1>3 DEF CountersNext

\* The bounds of TotalPackets hold of every call at every moment.
THEOREM Accounting == CountersSpec => []AccountingInv
<1>1. QED BY InitAccounts, AccountingStays, PTL DEF CountersSpec

\* Every field of the call keeps the range of its Go type.
THEOREM TypeCorrect == CountersSpec => []CountersTypeOK
<1>1. AccountingInv => CountersTypeOK
  BY DEF AccountingInv
<1>2. QED BY <1>1, Accounting, PTL

\* TotalPackets of a call is at most seven per frame heard, plus six.
THEOREM NoWrap == CountersSpec => []TotalNeverWraps
<1>1. AccountingInv => TotalNeverWraps
  BY DEF AccountingInv
<1>2. QED BY <1>1, Accounting, PTL

\* EndCall's integer division never panics, whatever frames were heard.
THEOREM DivisionIsDefined == CountersSpec => []DivisorNeverZero
<1>1. AccountingInv => DivisorNeverZero
  BY DivisorValue DEF DivisorNeverZero, AccountingInv, CountersTypeOK
<1>2. QED BY <1>1, Accounting, PTL

----------------------------------------------------------------------------
(* The transmission. *)

\* The number of a voice frame follows that of the frame before it.
LEMMA NumberFollows ==
    ASSUME NEW k \in Nat \ {0}
    PROVE  /\ (k - 1) % 6 \in 0..5
           /\ k % 6 = IF (k - 1) % 6 = 5 THEN 0 ELSE ((k - 1) % 6) + 1
OBVIOUS

\* A superframe is whole when the terminator is due.
LEMMA LastNumber ==
    /\ Length \in Nat /\ Length >= 2
    /\ Length > 2 => (Length - 3) % 6 = 5 /\ (Length - 4) % 6 = 4 /\ Length >= 8
<1>1. Superframes \in Nat
  BY StreamAssumption
<1>2. (6 * Superframes) % 6 = 0
  BY <1>1
<1>3. ASSUME Superframes > 0
      PROVE  (6 * Superframes - 1) % 6 = 5 /\ (6 * Superframes - 2) % 6 = 4
  BY <1>1, <1>3
<1>4. QED BY <1>1, <1>3 DEF Length

\* A transmission is made of frames ...
LEMMA FramesAreFrames ==
    ASSUME NEW k \in 0..(Length - 1)
    PROVE  FrameAt(k) \in Frame
<1>1. CASE k = 0 \/ k = Length - 1
  BY <1>1 DEF FrameAt, Frame, VoiceHead, VoiceTerm
<1>2. CASE k # 0 /\ k # Length - 1
  <2>1. (k - 1) % 6 \in 0..15
    BY <1>2, LastNumber, NumberFollows
  <2>2. QED BY <1>2, <2>1 DEF FrameAt, Frame
<1>3. QED BY <1>1, <1>2

\* ... so that it is a behaviour of the accounting.
LEMMA StreamIsHeard ==
    ASSUME StreamTypeOK, [StreamNext]_<<counters, streamVars>>
    PROVE  [CountersNext]_counters
<1>1. CASE Deliver
  <2>1. FrameAt(pos) \in Frame
    BY <1>1, LastNumber, FramesAreFrames DEF Deliver, StreamTypeOK
  <2>2. QED BY <1>1, <2>1 DEF Deliver, CountersNext
<1>2. CASE Lose
  BY <1>2 DEF Lose
<1>3. CASE Stray
  BY <1>3 DEF Stray, CountersNext
<1>4. CASE HangUp
  BY <1>4 DEF HangUp, CountersNext
<1>5. CASE UNCHANGED <<counters, streamVars>>
  BY <1>5
<1>6. QED BY <1>1, <1>2, <1>3, <1>4, <1>5 DEF StreamNext

LEMMA StreamTypesStay ==
    ASSUME AccountingInv, StreamTypeOK, [StreamNext]_<<counters, streamVars>>
    PROVE  StreamTypeOK'
<1> USE StreamAssumption
<1>1. CountersTypeOK'
  BY StreamIsHeard, AccountingStays DEF AccountingInv
<1>2. Length \in Nat
  BY LastNumber
<1>3. QED
  BY <1>1, <1>2 DEF StreamTypeOK, StreamNext, Deliver, Lose, Stray, HangUp, streamVars

----------------------------------------------------------------------------
(* Frames in their order, no two of them lost in a row. *)

\* What the next frame of the transmission is, and what LastFrameNum is by then.
LEMMA FrameInStep ==
    ASSUME StreamTypeOK, burst <= 1, pos - burst >= 1, pos < Length,
           last = Number(pos - burst - 1)
    PROVE  LET f == FrameAt(pos)
           IN  /\ f.seq = (IF pos = Length - 1 THEN VoiceTerm ELSE (pos - 1) % 6)
               /\ f.type = IF pos = Length - 1 THEN "DataSync"
                           ELSE IF f.seq = 0 THEN "VoiceSync" ELSE "Voice"
               /\ f.seq \in 0..5
               /\ pos = Length - 1 => last = 5 - burst
               /\ pos # Length - 1 =>
                    last = IF f.seq = 0 THEN 5 - burst
                           ELSE IF f.seq = 1 /\ burst = 1 THEN 5
                           ELSE f.seq - 1 - burst
<1>1. pos \in Nat /\ pos >= 1 /\ burst \in {0, 1} /\ pos - burst - 1 \in Nat
  BY LastNumber, StreamAssumption DEF StreamTypeOK
<1>2. CASE pos = Length - 1
  <2>1. FrameAt(pos) = [type |-> "DataSync", seq |-> VoiceTerm]
    BY <1>1, <1>2 DEF FrameAt
  <2>2. last = 5 - burst
    BY <1>1, <1>2, LastNumber DEF Number
  <2>3. QED BY <1>2, <2>1, <2>2 DEF VoiceTerm
<1>3. CASE pos # Length - 1
  <2> DEFINE n == (pos - 1) % 6
  <2>1. FrameAt(pos) = [type |-> IF pos % 6 = 1 THEN "VoiceSync" ELSE "Voice", seq |-> n]
    BY <1>1, <1>3 DEF FrameAt
  <2>2. n \in 0..5 /\ (pos % 6 = 1 <=> n = 0)
    BY <1>1, NumberFollows
  <2>3. last = IF n = 0 THEN 5 - burst ELSE IF n = 1 /\ burst = 1 THEN 5 ELSE n - 1 - burst
    <3>1. CASE burst = 0
      <4>1. CASE pos = 1
        BY <1>1, <3>1, <4>1 DEF Number
      <4>2. CASE pos # 1
        <5>1. last = (pos - 2) % 6
          <6> DEFINE k == pos - burst - 1
          <6>1. k = pos - 1 /\ k # 0 /\ k # Length - 1 /\ k - 1 = pos - 2
            BY <1>1, <3>1, <4>2, LastNumber
          <6>2. last = (k - 1) % 6
            BY <6>1 DEF Number
          <6> HIDE DEF k
          <6>3. QED BY <6>1, <6>2
        <5>2. n = IF (pos - 2) % 6 = 5 THEN 0 ELSE ((pos - 2) % 6) + 1
          BY <1>1, <4>2, NumberFollows
        <5>3. (pos - 2) % 6 \in 0..5
          BY <1>1, <4>2
        <5>4. QED BY <3>1, <5>1, <5>2, <5>3
      <4>3. QED BY <4>1, <4>2
    <3>2. CASE burst = 1
      <4>1. CASE pos = 2
        BY <1>1, <3>2, <4>1 DEF Number
      <4>2. CASE pos # 2
        <5>1. pos >= 3 /\ last = (pos - 3) % 6
          <6> DEFINE k == pos - burst - 1
          <6>1. pos >= 3 /\ k # 0 /\ k # Length - 1 /\ k - 1 = pos - 3
            BY <1>1, <3>2, <4>2, LastNumber
          <6>2. last = (k - 1) % 6
            BY <6>1 DEF Number
          <6> HIDE DEF k
          <6>3. QED BY <6>1, <6>2
        <5>2. n = IF (pos - 3) % 6 = 5 THEN 1 ELSE IF (pos - 3) % 6 = 4 THEN 0
                  ELSE ((pos - 3) % 6) + 2
          BY <1>1, <5>1
        <5>3. (pos - 3) % 6 \in 0..5
          BY <1>1, <5>1
        <5>4. QED BY <3>2, <5>1, <5>2, <5>3
      <4>3. QED BY <4>1, <4>2
    <3>3. QED BY <1>1, <3>1, <3>2
  <2> HIDE DEF n
  <2>4. /\ FrameAt(pos).seq = n
        /\ FrameAt(pos).type = IF n = 0 THEN "VoiceSync" ELSE "Voice"
    BY <2>1, <2>2
  <2>5. FrameAt(pos).seq = IF pos = Length - 1 THEN VoiceTerm ELSE (pos - 1) % 6
    BY <1>3, <2>4 DEF n
  <2>6. QED BY <1>3, <2>2, <2>3, <2>4, <2>5
<1>4. QED BY <1>2, <1>3

\* A frame that is not a repetition takes the branch of its kind.
LEMMA Branches ==
    ASSUME NEW f, Hear(f), ~Repeated(f)
    PROVE  \/ IsHeader(f) /\ Header(f)
           \/ IsSync(f) /\ VoiceSync(f)
           \/ IsVoice(f) /\ Voice(f)
           \/ IsLastVoice(f) /\ LastVoice(f)
           \/ IsTerminator(f) /\ Terminator(f)
           \/ ~(IsHeader(f) \/ IsSync(f) \/ IsVoice(f) \/ IsLastVoice(f) \/ IsTerminator(f))
BY DEF Hear, Duplicate, Header, VoiceSync, Voice, LastVoice, Terminator, Unmatched

\* A frame is charged with as many as were lost since the frame before it, or with
\* none of them.
LEMMA DeliverKeepsStep ==
    ASSUME AccountingInv, StreamTypeOK, InStep, burst <= 1, Deliver,
           strays = 0, hasHeader
    PROVE  /\ \E gap \in 0..burst : Count(gap)
           /\ last' = Number(pos) /\ hasHeader'
           /\ hasTerm' <=> pos = Length - 1
<1> DEFINE f == FrameAt(pos)
<1> USE NumericAssumption
<1>1. /\ pos < Length /\ pos - burst >= 1 /\ pos \in Nat /\ burst \in {0, 1}
      /\ open /\ last = Number(pos - burst - 1) /\ ~hasTerm
      /\ Length \in Nat
  BY LastNumber, StreamAssumption DEF Deliver, Hear, InStep, StreamTypeOK
<1>2. Hear(f) /\ f \in Frame
  BY <1>1, FramesAreFrames DEF Deliver
<1>3. /\ f.seq = (IF pos = Length - 1 THEN VoiceTerm ELSE (pos - 1) % 6)
      /\ f.type = IF pos = Length - 1 THEN "DataSync"
                  ELSE IF f.seq = 0 THEN "VoiceSync" ELSE "Voice"
      /\ f.seq \in 0..5
      /\ pos = Length - 1 => last = 5 - burst
      /\ pos # Length - 1 =>
            last = IF f.seq = 0 THEN 5 - burst
                   ELSE IF f.seq = 1 /\ burst = 1 THEN 5
                   ELSE f.seq - 1 - burst
  BY <1>1, FrameInStep
<1> HIDE DEF f
<1>4. ~Repeated(f)
  BY <1>1, <1>3 DEF Repeated, VoiceTerm
<1>5. CASE pos = Length - 1
  <2>1. f.type = "DataSync" /\ f.seq = VoiceTerm /\ last = 5 - burst
    BY <1>3, <1>5
  <2>2. Terminator(f)
    <3>1. ~IsHeader(f) /\ ~IsSync(f) /\ ~IsVoice(f) /\ ~IsLastVoice(f) /\ IsTerminator(f)
      BY <2>1 DEF IsHeader, IsSync, IsVoice, IsLastVoice, IsTerminator, VoiceHead, VoiceTerm
    <3>2. QED BY <1>2, <1>4, <3>1, Branches
  <2>3. Count(burst) /\ last' = 5 /\ hasTerm' = TRUE /\ hasHeader' = hasHeader
    <3>1. 5 - last = burst
      BY <1>1, <2>1
    <3>2. QED BY <2>2, <3>1 DEF Terminator
  <2>4. QED BY <1>1, <1>5, <2>3 DEF Number
<1>6. CASE pos # Length - 1 /\ f.seq = 0
  <2>1. f.type = "VoiceSync" /\ last = 5 - burst
    BY <1>3, <1>6
  <2>2. VoiceSync(f)
    <3>1. ~IsHeader(f) /\ IsSync(f) /\ ~IsVoice(f) /\ ~IsLastVoice(f) /\ ~IsTerminator(f)
      BY <1>6, <2>1 DEF IsHeader, IsSync, IsVoice, IsLastVoice, IsTerminator
    <3>2. QED BY <1>2, <1>4, <3>1, Branches
  <2>3. Count(burst) /\ last' = 0 /\ hasTerm' = hasTerm /\ hasHeader' = hasHeader
    <3>1. (IF hasHeader THEN 0 ELSE 1) + (5 - last) = burst
      BY <1>1, <2>1
    <3>2. QED BY <2>2, <3>1 DEF VoiceSync
  <2>4. QED BY <1>1, <1>3, <1>6, <2>3 DEF Number
<1>7. CASE pos # Length - 1 /\ f.seq \in 1..4
  <2>1. f.type = "Voice"
    BY <1>3, <1>7
  <2>2. Voice(f)
    <3>1. ~IsHeader(f) /\ ~IsSync(f) /\ IsVoice(f) /\ ~IsLastVoice(f) /\ ~IsTerminator(f)
      BY <1>7, <2>1 DEF IsHeader, IsSync, IsVoice, IsLastVoice, IsTerminator
    <3>2. QED BY <1>2, <1>4, <3>1, Branches
  <2>3. VoiceGap(f.seq) \in 0..burst
    BY <1>1, <1>3, <1>7 DEF VoiceGap, Wrap
  <2>4. Count(VoiceGap(f.seq)) /\ last' = f.seq /\ hasTerm' = hasTerm /\ hasHeader' = hasHeader
    BY <2>2 DEF Voice
  <2>5. QED BY <1>1, <1>3, <1>7, <2>3, <2>4 DEF Number
<1>8. CASE pos # Length - 1 /\ f.seq = 5
  <2>1. f.type = "Voice" /\ last = 4 - burst
    BY <1>3, <1>8
  <2>2. LastVoice(f)
    <3>1. ~IsHeader(f) /\ ~IsSync(f) /\ ~IsVoice(f) /\ IsLastVoice(f) /\ ~IsTerminator(f)
      BY <1>8, <2>1 DEF IsHeader, IsSync, IsVoice, IsLastVoice, IsTerminator
    <3>2. QED BY <1>2, <1>4, <3>1, Branches
  <2>3. Count(burst) /\ last' = 5 /\ hasTerm' = hasTerm /\ hasHeader' = hasHeader
    <3>1. 4 - last = burst
      BY <1>1, <2>1
    <3>2. QED BY <2>2, <3>1 DEF LastVoice
  <2>4. QED BY <1>1, <1>3, <1>8, <2>3 DEF Number
<1>9. QED BY <1>3, <1>5, <1>6, <1>7, <1>8

\* The header is heard first or not at all.
LEMMA HeaderKeepsStep ==
    ASSUME StreamTypeOK, BeforeHeader, Deliver, strays = 0, pos = 0
    PROVE  /\ hasHeader' /\ ~hasTerm' /\ last' = 5 /\ lost' = 0 /\ total' = 1
           /\ frames' = 1 /\ dropped = 0
<1> DEFINE f == FrameAt(0)
<1>1. Hear(f) /\ f.type = "DataSync" /\ f.seq = VoiceHead
  BY DEF Deliver, FrameAt
<1>2. /\ last = 5 /\ ~hasTerm /\ lost = 0 /\ total = 0 /\ frames = 0 /\ dropped = 0
  BY DEF BeforeHeader, StreamTypeOK
<1> HIDE DEF f
<1>3. Header(f)
  BY <1>1, <1>2 DEF Hear, Duplicate, VoiceSync, Voice, LastVoice, Terminator, Unmatched, Repeated,
                    IsHeader, IsSync, IsVoice, IsLastVoice, IsTerminator, VoiceHead, VoiceTerm
<1>4. frames' = frames + 1
  BY <1>1 DEF Hear
<1>5. QED BY <1>2, <1>3, <1>4, NumericAssumption DEF Header, Wrap

\* A header is not heard later.
LEMMA NoLateHeader ==
    ASSUME StreamTypeOK, Deliver, ~hasHeader, pos # 0
    PROVE  ~hasHeader'
<1> DEFINE f == FrameAt(pos)
<1>1. Hear(f) /\ ~IsHeader(f)
  BY DEF Deliver, FrameAt, IsHeader, VoiceHead, VoiceTerm
<1> HIDE DEF f
<1>2. QED BY <1>1 DEF Hear, Duplicate, Header, VoiceSync, Voice, LastVoice, Terminator, Unmatched

----------------------------------------------------------------------------
(* The specification. *)

LEMMA StepKeepsInStep ==
    ASSUME StreamInv, MaxBurst <= 1, [StreamNext]_<<counters, streamVars>>
    PROVE  InStep'
<1> USE NumericAssumption, StreamAssumption
<1>0. /\ AccountingInv /\ StreamTypeOK /\ InStep /\ BeforeHeader
      /\ burst \in Nat /\ burst <= 1 /\ pos \in Nat /\ pos <= Length /\ Length \in Nat
      /\ dropped \in Nat /\ dropped <= pos
      /\ lost \in Nat /\ total \in Nat /\ frames \in Nat /\ strays \in Nat
      /\ total <= 7 * frames + 6 /\ frames <= MaxFrames
      /\ Length <= MaxFrames
  BY LastNumber DEF StreamInv, StreamTypeOK, AccountingInv, CountersTypeOK, TotalNeverWraps, Length
<1>1. CASE Deliver
  <2> SUFFICES ASSUME strays = 0, hasHeader'
               PROVE  /\ pos' - burst' >= 1
                      /\ open' => /\ last' = Number(pos' - burst' - 1)
                                  /\ lost' + burst' <= dropped'
                                  /\ hasTerm' <=> pos' - burst' = Length
                      /\ ~open' => lost' <= dropped'
                      /\ total' = frames' + lost'
    BY <1>1 DEF Deliver, InStep, Number, Length
  <2>1. /\ pos < Length /\ pos' = pos + 1 /\ burst' = 0 /\ dropped' = dropped /\ open /\ open'
        /\ frames' = frames + 1 /\ frames < MaxFrames
    BY <1>1 DEF Deliver, Hear
  <2>2. pos' - burst' - 1 = pos
    BY <1>0, <2>1
  <2>3. CASE pos = 0
    BY <1>0, <1>1, <2>1, <2>2, <2>3, HeaderKeepsStep, LastNumber DEF Number
  <2>4. CASE pos # 0
    <3>1. hasHeader
      BY <1>0, <1>1, <2>4, NoLateHeader
    <3>2. /\ last' = Number(pos) /\ (hasTerm' <=> pos = Length - 1)
          /\ \E gap \in 0..burst : Count(gap)
      BY <1>0, <1>1, <3>1, DeliverKeepsStep
    <3>3. PICK gap \in 0..burst : Count(gap)
      BY <3>2
    <3>4. lost + burst <= dropped /\ total = frames + lost
      BY <1>0, <2>1, <3>1 DEF InStep
    <3>5. lost' = lost + gap /\ total' = total + 1 + gap
      <4>1. lost + gap \in 0..(Modulus - 1) /\ total + 1 + gap \in 0..(Modulus - 1)
        BY <1>0, <2>1, <3>4
      <4>2. QED BY <3>3, <4>1, WrapInRange DEF Count
    <3>6. QED BY <1>0, <2>1, <2>2, <3>2, <3>4, <3>5
  <2>5. QED BY <2>3, <2>4
<1>2. CASE Lose
  <2>1. /\ pos' = pos + 1 /\ burst' = burst + 1 /\ dropped' = dropped + 1
        /\ UNCHANGED <<counters, strays>>
        /\ pos' - burst' = pos - burst /\ pos < Length
    BY <1>0, <1>2 DEF Lose
  <2> SUFFICES ASSUME strays = 0, hasHeader
               PROVE  /\ pos - burst >= 1
                      /\ open => /\ last = Number(pos - burst - 1)
                                 /\ lost + burst' <= dropped'
                                 /\ hasTerm <=> pos - burst = Length
                      /\ ~open => lost <= dropped'
                      /\ total = frames + lost
    BY <2>1 DEF InStep, counters, Number, Length
  <2>2. QED BY <1>0, <2>1 DEF InStep
<1>3. CASE Stray
  BY <1>0, <1>3 DEF Stray, InStep
<1>4. CASE HangUp
  <2>1. /\ EndCallTail /\ pos = Length /\ open /\ ~open' /\ UNCHANGED streamVars
        /\ UNCHANGED <<last, hasHeader, hasTerm, frames>>
    BY <1>4 DEF HangUp, EndCallTail
  <2> SUFFICES ASSUME strays = 0, hasHeader
               PROVE  /\ pos - burst >= 1
                      /\ lost' <= dropped
                      /\ total' = frames + lost'
    BY <2>1 DEF InStep, streamVars
  <2>2. /\ pos - burst >= 1 /\ last = Number(pos - burst - 1) /\ lost + burst <= dropped
        /\ (hasTerm <=> burst = 0) /\ total = frames + lost
    BY <1>0, <2>1 DEF InStep
  <2>3. last = 5
    BY <1>0, <2>1, <2>2, LastNumber DEF Number
  <2>4. EndGap = burst
    BY <1>0, <2>2, <2>3 DEF EndGap
  <2>5. Divisor = total + burst /\ Wrap(lost + burst) = lost + burst
    <3>1. lost + burst \in 0..(Modulus - 1)
      BY <1>0, <2>2
    <3>2. QED BY <1>0, <2>1, <2>4, <3>1, DivisorValue, WrapInRange
  <2>6. QED BY <1>0, <2>1, <2>2, <2>4, <2>5 DEF EndCallTail
<1>5. CASE UNCHANGED <<counters, streamVars>>
  BY <1>0, <1>5 DEF counters, streamVars, InStep, Number, Length
<1>6. QED BY <1>1, <1>2, <1>3, <1>4, <1>5 DEF StreamNext

LEMMA StepKeepsBefore ==
    ASSUME StreamInv, [StreamNext]_<<counters, streamVars>>
    PROVE  BeforeHeader'
<1>0. /\ pos \in Nat /\ strays \in Nat /\ BeforeHeader /\ Length >= 2 /\ Length \in Nat
  BY LastNumber, StreamAssumption DEF StreamInv, StreamTypeOK
<1>1. CASE Deliver \/ Lose
  BY <1>0, <1>1 DEF Deliver, Lose, BeforeHeader
<1>2. CASE Stray
  BY <1>0, <1>2 DEF Stray, BeforeHeader
<1>3. CASE HangUp
  BY <1>0, <1>3 DEF HangUp, streamVars, BeforeHeader
<1>4. CASE UNCHANGED <<counters, streamVars>>
  BY <1>0, <1>4 DEF counters, streamVars, BeforeHeader
<1>5. QED BY <1>1, <1>2, <1>3, <1>4 DEF StreamNext

LEMMA StreamStart ==
    ASSUME StreamInit
    PROVE  StreamInv
<1>1. AccountingInv
  BY InitAccounts DEF StreamInit
<1>2. StreamTypeOK
  BY <1>1, LastNumber, StreamAssumption DEF StreamInit, StreamTypeOK, AccountingInv
<1>3. InStep /\ BeforeHeader
  BY DEF StreamInit, CountersInit, InStep, BeforeHeader
<1>4. QED BY <1>1, <1>2, <1>3 DEF StreamInv

\* Every transmission is a behaviour of the accounting, whose invariant holds.
THEOREM StreamAccounting == StreamSpec => [](AccountingInv /\ StreamTypeOK)
<1>1. StreamInit => AccountingInv /\ StreamTypeOK
  BY StreamStart DEF StreamInv
<1>2. AccountingInv /\ StreamTypeOK /\ [StreamNext]_<<counters, streamVars>>
        => (AccountingInv /\ StreamTypeOK)'
  BY StreamIsHeard, AccountingStays, StreamTypesStay
<1>3. QED BY <1>1, <1>2, PTL DEF StreamSpec

\* EndCall never divides by zero, whatever the network does with a transmission.
THEOREM StreamDivides == StreamSpec => []DivisorNeverZero
<1>1. AccountingInv => DivisorNeverZero
  BY DivisorValue DEF DivisorNeverZero, AccountingInv, CountersTypeOK
<1>2. QED BY <1>1, StreamAccounting, PTL

\* TotalPackets of a transmission never wraps around.
THEOREM StreamNoWrap == StreamSpec => []TotalNeverWraps
<1>1. AccountingInv => TotalNeverWraps
  BY DEF AccountingInv
<1>2. QED BY <1>1, StreamAccounting, PTL

\* The variables of a transmission keep their types.
THEOREM StreamTypes == StreamSpec => []StreamTypeOK
<1>1. QED BY StreamAccounting, PTL

\* What is proved of the accounting holds of it in a transmission: every step of
\* the one is a step of the other, or leaves it alone.
THEOREM StreamIsAccounted == StreamSpec => CountersSpec
<1>1. StreamInit => CountersInit
  BY DEF StreamInit
<1>2. StreamTypeOK /\ [StreamNext]_<<counters, streamVars>> => [CountersNext]_counters
  BY StreamIsHeard
<1>3. QED BY <1>1, <1>2, StreamTypes, PTL DEF StreamSpec, CountersSpec

\* The inductive invariant, with no two frames lost in a row.
THEOREM StreamInvariant ==
    ASSUME MaxBurst <= 1
    PROVE  StreamSpec => []StreamInv
<1>1. StreamInit => StreamInv
  BY StreamStart
<1>2. StreamInv /\ [StreamNext]_<<counters, streamVars>> => StreamInv'
  BY StreamIsHeard, AccountingStays, StreamTypesStay, StepKeepsInStep, StepKeepsBefore DEF StreamInv
<1>3. QED BY <1>1, <1>2, PTL DEF StreamSpec

\* Whatever the length of the transmission and wherever frames are lost, one at a
\* time, the call is not charged with more than were lost (call_tracker.go:284).
THEOREM NotOvercharged ==
    ASSUME MaxBurst <= 1
    PROVE  StreamSpec => []NeverOvercharged
<1>1. StreamInv => NeverOvercharged
  BY DEF StreamInv, StreamTypeOK, AccountingInv, CountersTypeOK, InStep, NeverOvercharged
<1>2. QED BY <1>1, StreamInvariant, PTL

\* TotalPackets is then what was heard and what is charged as lost, so that Loss,
\* LostSequences over TotalPackets, is a ratio (call_tracker.go:387).
THEOREM LossIsOfTheTotal ==
    ASSUME MaxBurst <= 1
    PROVE  StreamSpec => []TotalIsHeardAndLost
<1>1. StreamInv => TotalIsHeardAndLost
  BY DEF StreamInv, InStep, TotalIsHeardAndLost
<1>2. QED BY <1>1, StreamInvariant, PTL
=============================================================================
