-------------------------- MODULE ArmMotionProofs --------------------------
(***************************************************************************)
(* Proofs about ArmMotion, for any number of overlapping calls and movers. *)
(***************************************************************************)
EXTENDS ArmMotion, TLAPS

USE AtomsAssumption, EnvironmentAssumption

(* An agent that starts holds no lock and has called nothing.              *)
LEMMA CallInit == Init => CallInv
<1>1. Init => TypeOK
  <2>1. Init => adrift \in BOOLEAN
    BY DEF Init
  <2>2. QED
    BY <2>1 DEF Init, TypeOK, Guards, Reading, Unread, Steps
<1>2. Init => LocksHeld /\ Cleared
  BY DEF Init, LocksHeld, Cleared, Unread, PoseSteps, GuardedSteps, ScriptSteps, Moving
<1>3. QED
  BY <1>1, <1>2 DEF CallInv

(* Every step keeps the locks with the calls that need them, and what a    *)
(* call has read as clear was clear while it held them; agents that die    *)
(* and scripts that outlive their timeout included.                        *)
LEMMA CallStep == ASSUME CallInv, [Next]_vars PROVE CallInv'
<1> USE DEF CallInv, TypeOK, LocksHeld, Cleared, GoTo, arming, robot, locks, calls
<1>1. ASSUME NEW t \in Handlers, NEW action \in Poses, PoseCall(t, action) PROVE CallInv'
  <2>1. TypeOK'
    BY <1>1 DEF PoseCall, Steps, Guards, Reading, Poses, Moves, Collects, Clear, Says
  <2>2. LocksHeld'
    BY <1>1 DEF PoseCall, PoseSteps, GuardedSteps, ScriptSteps, Moving, Poses, Moves, Collects
  <2>3. Cleared'
    BY <1>1 DEF PoseCall, GuardedSteps, Unread, Moving, Guards, Reading, Moves, Collects, Clear, Says
  <2>4. QED
    BY <2>1, <2>2, <2>3
<1>2. ASSUME NEW t \in Handlers, NEW action \in Collects, CollectCall(t, action) PROVE CallInv'
  <2>1. TypeOK'
    BY <1>2 DEF CollectCall, Steps, Guards, Reading, Poses, Moves, Collects, Clear, Says
  <2>2. LocksHeld'
    BY <1>2 DEF CollectCall, PoseSteps, GuardedSteps, ScriptSteps, Moving, Poses, Moves, Collects
  <2>3. Cleared'
    BY <1>2 DEF CollectCall, GuardedSteps, Unread, Moving, Guards, Reading, Moves, Collects, Clear, Says
  <2>4. QED
    BY <2>1, <2>2, <2>3
<1>3. ASSUME NEW t \in Handlers, LockCollect(t) PROVE CallInv'
  <2>1. TypeOK'
    <3>1. Clear \in SUBSET {"armed", "quiet"}
      BY DEF Clear
    <3>2. CASE Answer(t)
      BY <1>3, <3>2 DEF LockCollect, Answer, Unread, Steps, Guards, Reading
    <3>3. CASE ~Answer(t)
      BY <1>3, <3>1, <3>3 DEF LockCollect, Steps
    <3>4. QED
      BY <3>2, <3>3
  <2>2. LocksHeld'
    BY <1>3 DEF LockCollect, Answer, PoseSteps, GuardedSteps, ScriptSteps, Moving, Poses, Moves, Collects
  <2>3. Cleared'
    BY <1>3 DEF LockCollect, Answer, Unread, GuardedSteps, Moving, Guards, Reading, Moves, Collects, Clear, Says
  <2>4. QED
    BY <2>1, <2>2, <2>3
<1>4. ASSUME NEW t \in Handlers, ReadArmed(t) PROVE CallInv'
  <2>1. TypeOK'
    BY <1>4 DEF ReadArmed, Steps, Guards, Reading, Poses, Moves, Collects, Clear, Says
  <2>2. LocksHeld'
    BY <1>4 DEF ReadArmed, PoseSteps, GuardedSteps, ScriptSteps, Moving, Poses, Moves, Collects
  <2>3. Cleared'
    BY <1>4 DEF ReadArmed, GuardedSteps, Unread, Moving, Guards, Reading, Moves, Collects, Clear, Says
  <2>4. QED
    BY <2>1, <2>2, <2>3
<1>5. ASSUME NEW t \in Handlers, ReadRecording(t) PROVE CallInv'
  <2>1. TypeOK'
    BY <1>5 DEF ReadRecording, Read, Steps, Guards, Reading, Poses, Moves, Collects, Clear, Says
  <2>2. LocksHeld'
    BY <1>5 DEF ReadRecording, Read, PoseSteps, GuardedSteps, ScriptSteps, Moving, Poses, Moves, Collects
  <2>3. Cleared'
    BY <1>5 DEF ReadRecording, Read, GuardedSteps, Unread, Moving, Guards, Reading, Moves, Collects, Clear, Says
  <2>4. QED
    BY <2>1, <2>2, <2>3
<1>6. ASSUME NEW t \in Handlers, ReadLoop(t) PROVE CallInv'
  <2>1. TypeOK'
    BY <1>6 DEF ReadLoop, Read, LoopDrives, Steps, Guards, Reading, Poses, Moves, Collects, Clear, Says
  <2>2. LocksHeld'
    BY <1>6 DEF ReadLoop, Read, LoopDrives, PoseSteps, GuardedSteps, ScriptSteps, Moving, Poses, Moves, Collects
  <2>3. Cleared'
    BY <1>6 DEF ReadLoop, Read, LoopDrives, GuardedSteps, Unread, Moving, Guards, Reading, Moves, Collects, Clear, Says
  <2>4. QED
    BY <2>1, <2>2, <2>3
<1>7. ASSUME NEW t \in Handlers, Decide(t) PROVE CallInv'
  <2>1. TypeOK'
    <3>1. CASE Answer(t)
      BY <1>7, <3>1 DEF Decide, Answer, Unread, Steps, Guards, Reading
    <3>2. CASE ~Answer(t)
      BY <1>7, <3>2 DEF Decide, Steps
    <3>3. QED
      BY <3>1, <3>2
  <2>2. LocksHeld'
    BY <1>7 DEF Decide, MayMove, Answer, PoseSteps, GuardedSteps, ScriptSteps, Moving, Poses, Moves, Collects
  <2>3. Cleared'
    BY <1>7 DEF Decide, MayMove, Answer, Unread, GuardedSteps, Moving, Guards, Reading, Moves, Collects, Clear, Says
  <2>4. QED
    BY <2>1, <2>2, <2>3
<1>8. ASSUME NEW t \in Handlers, Launch(t) PROVE CallInv'
  <2>1. TypeOK'
    <3>1. CASE Answer(t)
      BY <1>8, <3>1 DEF Launch, Answer, Unread, Steps, Guards, Reading
    <3>2. CASE ~Answer(t)
      BY <1>8, <3>2 DEF Launch, Steps
    <3>3. QED
      BY <3>1, <3>2
  <2>2. LocksHeld'
    BY <1>8 DEF Launch, Answer, PoseSteps, GuardedSteps, ScriptSteps, Moving, Poses, Moves, Collects
  <2>3. Cleared'
    BY <1>8 DEF Launch, Answer, Unread, GuardedSteps, Moving, Guards, Reading, Moves, Collects, Clear, Says
  <2>4. QED
    BY <2>1, <2>2, <2>3
<1>9. ASSUME NEW t \in Handlers, EndPose(t) PROVE CallInv'
  <2>1. TypeOK'
    BY <1>9 DEF EndPose, Answer, Unread, Steps, Guards, Reading, Poses, Moves, Collects, Clear, Says
  <2>2. LocksHeld'
    BY <1>9 DEF EndPose, Answer, PoseSteps, GuardedSteps, ScriptSteps, Moving, Poses, Moves, Collects
  <2>3. Cleared'
    BY <1>9 DEF EndPose, Answer, Unread, GuardedSteps, Moving, Guards, Reading, Moves, Collects, Clear, Says
  <2>4. QED
    BY <2>1, <2>2, <2>3
<1>10. ASSUME NEW t \in Handlers, RunScript(t) PROVE CallInv'
  <2>1. TypeOK'
    <3>1. CASE Answer(t)
      BY <1>10, <3>1 DEF RunScript, Answer, Unread, Steps, Guards, Reading
    <3>2. CASE ~Answer(t)
      BY <1>10, <3>2 DEF RunScript, Steps
    <3>3. QED
      BY <3>1, <3>2
  <2>2. LocksHeld'
    BY <1>10 DEF RunScript, Answer, PoseSteps, GuardedSteps, ScriptSteps, Moving, Poses, Moves, Collects
  <2>3. Cleared'
    BY <1>10 DEF RunScript, Answer, Unread, GuardedSteps, Moving, Guards, Reading, Moves, Collects, Clear, Says
  <2>4. QED
    BY <2>1, <2>2, <2>3
<1>11. ASSUME NEW t \in Handlers, EndScript(t) PROVE CallInv'
  <2>1. TypeOK'
    BY <1>11 DEF EndScript, Answer, Unread, Steps, Guards, Reading, Poses, Moves, Collects, Clear, Says
  <2>2. LocksHeld'
    BY <1>11 DEF EndScript, Answer, PoseSteps, GuardedSteps, ScriptSteps, Moving, Poses, Moves, Collects
  <2>3. Cleared'
    BY <1>11 DEF EndScript, Answer, Unread, GuardedSteps, Moving, Guards, Reading, Moves, Collects, Clear, Says
  <2>4. QED
    BY <2>1, <2>2, <2>3
<1>12. ASSUME NEW m \in Movers, MoverDrives(m) \/ MoverEnds(m) PROVE CallInv'
  BY <1>12 DEF MoverDrives, MoverEnds, Moving, Clear
<1>13. CASE LoopStarts \/ LoopEnds
  <2>1. adrift' \in BOOLEAN
    BY <1>13 DEF LoopStarts, LoopEnds
  <2>2. TypeOK'
    BY <1>13, <2>1 DEF LoopStarts, LoopEnds
  <2>3. LocksHeld' /\ Cleared'
    BY <1>13 DEF LoopStarts, LoopEnds, Moving, Clear
  <2>4. QED
    BY <2>2, <2>3
<1>14. CASE Arm
  BY <1>14 DEF Arm, Moving, Clear
<1>15. CASE Record
  BY <1>15 DEF Record, Moving, Clear
<1>16. CASE Crash
  BY <1>16 DEF Crash, Guards, Reading, Unread, Steps, PoseSteps, GuardedSteps, ScriptSteps, Moving, Clear
<1>17. CASE UNCHANGED vars
  BY <1>17 DEF vars, Moving, Clear
<1>18. QED
  BY <1>1, <1>2, <1>3, <1>4, <1>5, <1>6, <1>7, <1>8, <1>9, <1>10, <1>11, <1>12,
     <1>13, <1>14, <1>15, <1>16, <1>17 DEF Next, Step

(* Locks are held by the calls that need them and by no other, whatever    *)
(* dies and whatever goes wrong.                                           *)
THEOREM CallsKeepLocks == Spec => []CallInv
<1>1. CallInv /\ [Next]_vars => CallInv'
  BY CallStep
<1>2. QED
  BY CallInit, <1>1, PTL DEF Spec

(* Every variable keeps its type.                                          *)
THEOREM TypeCorrect == Spec => []TypeOK
<1>1. CallInv => TypeOK
  BY DEF CallInv
<1>2. QED
  BY CallsKeepLocks, <1>1, PTL

(* A move was armed, and the workcell not recording, at some moment since  *)
(* the move had its locks.                                                 *)
THEOREM MovesAreClear == Spec => []MoveWasClear
<1>1. CallInv => MoveWasClear
  BY DEF CallInv, Cleared, MoveWasClear, Moving
<1>2. QED
  BY CallsKeepLocks, <1>1, PTL

-----------------------------------------------------------------------------
(* The arms have one driver as long as the agent lives, whatever cannot be *)
(* read and whatever becomes of a start that was given up.                 *)

(* At start-up nothing moves the arms.                                     *)
LEMMA ArmInit == Init => ArmInv
<1>1. Init => MoversOwned /\ LoopKept
  BY DEF Init, MoversOwned, LoopKept, Moving
<1>2. QED
  BY CallInit, <1>1 DEF ArmInv

(* Every step keeps each mover with its call, and the loop off while a     *)
(* move is on its way unless its start was given up.                       *)
LEMMA ArmStep == ASSUME ArmInv, [Next]_vars PROVE ArmInv'
<1> USE DEF MoversOwned, LoopKept, Moving, GoTo, arming, robot, locks, calls
<1> DEFINE Kept == MoversOwned /\ LoopKept
<1>0. CallInv'
  BY CallStep DEF ArmInv
<1>c. crashes \in Nat /\ (crashes' = 0 => crashes = 0)
  <2>1. crashes \in Nat
    BY DEF ArmInv, CallInv, TypeOK
  <2>2. crashes' = crashes \/ crashes' = crashes + 1
    BY DEF Next, Step, PoseCall, CollectCall, LockCollect, ReadArmed, ReadRecording, ReadLoop,
           Decide, Launch, EndPose, RunScript, EndScript, MoverDrives, MoverEnds, LoopStarts,
           LoopEnds, Arm, Record, Crash, vars
  <2>3. QED
    BY <2>1, <2>2
<1>d. SUFFICES ASSUME crashes' = 0 PROVE Kept'
  BY <1>0 DEF ArmInv
<1>a. MoversOwned /\ LoopKept /\ pc \in [Handlers -> Steps] /\ mine \in [Handlers -> Movers \cup {None}]
      /\ act \in [Handlers -> Poses \cup Collects \cup {None}] /\ seen \in [Handlers -> Guards]
      /\ mover \in [Movers -> {"none", "planning", "ready", "driving"}]
  BY <1>c, <1>d DEF ArmInv, CallInv, TypeOK
<1>b. LocksHeld
  BY DEF ArmInv, CallInv
<1>1. ASSUME NEW t \in Handlers, NEW action \in Poses, PoseCall(t, action)
      PROVE  Kept'
  BY <1>1, <1>a DEF PoseCall
<1>2. ASSUME NEW t \in Handlers, NEW action \in Collects, CollectCall(t, action)
      PROVE  Kept'
  BY <1>2, <1>a DEF CollectCall
<1>3. ASSUME NEW t \in Handlers, LockCollect(t) PROVE Kept'
  BY <1>3, <1>a DEF LockCollect, Answer
<1>4. ASSUME NEW t \in Handlers, ReadArmed(t) PROVE Kept'
  BY <1>4, <1>a DEF ReadArmed
<1>5. ASSUME NEW t \in Handlers, ReadRecording(t) PROVE Kept'
  BY <1>5, <1>a DEF ReadRecording
<1>6. ASSUME NEW t \in Handlers, ReadLoop(t) PROVE Kept'
  <2>1. loop = "starting" => adrift
    BY <1>6, <1>a, <1>b DEF ReadLoop, LocksHeld, GuardedSteps, ScriptSteps
  <2>2. loop = "off" \/ LoopDrives \/ adrift
    BY <2>1 DEF LoopDrives, ArmInv, CallInv, TypeOK
  <2>3. LoopDrives => "no" \notin Read(LoopDrives)
    BY DEF Read, Says
  <2>4. loop = "off" \/ adrift \/ seen'[t].collecting # "no"
    BY <1>6, <1>a, <2>2, <2>3 DEF ReadLoop, Guards
  <2>5. QED
    BY <1>6, <1>a, <2>4 DEF ReadLoop
<1>7. ASSUME NEW t \in Handlers, Decide(t) PROVE Kept'
  BY <1>7, <1>a DEF Decide, MayMove, Answer
<1>8. ASSUME NEW t \in Handlers, Launch(t) PROVE Kept'
  BY <1>8, <1>a, <1>b DEF Launch, Answer, Poses, LocksHeld, PoseSteps
<1>9. ASSUME NEW t \in Handlers, EndPose(t) PROVE Kept'
  BY <1>9, <1>a DEF EndPose, Answer, LocalTimeout, ProcessDeadline, Moves
<1>10. ASSUME NEW t \in Handlers, RunScript(t) PROVE Kept'
  BY <1>10, <1>a, <1>b DEF RunScript, Answer, LoopDrives, Moves, Collects, LocksHeld, GuardedSteps, ScriptSteps
<1>11. ASSUME NEW t \in Handlers, EndScript(t) PROVE Kept'
  BY <1>11, <1>a, <1>b DEF EndScript, Answer, Awaited, Moves, Collects, LocksHeld, ScriptSteps
<1>12. ASSUME NEW m \in Movers, MoverDrives(m) \/ MoverEnds(m) PROVE Kept'
  BY <1>12, <1>a DEF MoverDrives, MoverEnds
<1>13. ASSUME LoopStarts \/ LoopEnds PROVE Kept'
  <2>1. CASE LoopEnds
    BY <2>1, <1>a DEF LoopEnds
  <2>2. CASE LoopStarts /\ adrift
    BY <2>2, <1>a DEF LoopStarts
  <2>3. CASE LoopStarts /\ ~adrift
    <3>1. PICK u \in Handlers : pc[u] = "awaitLoop"
      BY <2>3, <1>a DEF LoopStarts
    <3>2. \A t \in Handlers : pc[t] # "decide" /\ ~Moving(t)
      BY <3>1, <1>b DEF LocksHeld, GuardedSteps, ScriptSteps
    <3>3. QED
      BY <2>3, <3>2, <1>a DEF LoopStarts
  <2>4. QED
    BY <1>13, <2>1, <2>2, <2>3
<1>14. ASSUME Arm \/ Record PROVE Kept'
  BY <1>14, <1>a DEF Arm, Record
<1>15. ASSUME Crash PROVE Kept'
  BY <1>15, <1>c, <1>d DEF Crash
<1>16. ASSUME UNCHANGED vars PROVE Kept'
  BY <1>16, <1>a DEF vars
<1>17. QED
  <2> HIDE DEF Kept
  <2>1. QED
    BY <1>1, <1>2, <1>3, <1>4, <1>5, <1>6, <1>7, <1>8, <1>9, <1>10, <1>11, <1>12,
       <1>13, <1>14, <1>15, <1>16 DEF Next, Step

(* The inductive invariant of the arms.                                    *)
THEOREM ArmsOwned == Spec => []ArmInv
<1>1. ArmInv /\ [Next]_vars => ArmInv'
  BY ArmStep
<1>2. QED
  BY ArmInit, <1>1, PTL DEF Spec

(* One thing at a time drives the arms, but for a loop whose start was     *)
(* given up.                                                               *)
THEOREM OneDriver == Spec => []ArmsExclusive
<1>1. ArmInv => ArmsExclusive
  BY DEF ArmInv, CallInv, LocksHeld, MoversOwned, LoopKept, Moving, LoopDrives, Drivers,
         ArmsExclusive
<1>2. QED
  BY ArmsOwned, <1>1, PTL
=============================================================================
