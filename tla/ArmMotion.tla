----------------------------- MODULE ArmMotion -----------------------------
(***************************************************************************)
(* What moves the Anvil's arms on the fleet's behalf: the `pose' verb,     *)
(* which runs pose_move.py inside the ros2 container, and the `collect'    *)
(* verb, which starts and stops the collection loop's own container        *)
(* through its script.                                                     *)
(*                                                                         *)
(* Two non-blocking locks keep the calls apart, and three guards stand in  *)
(* front of a move.  What moves the arms outlives the call that started    *)
(* it: a mover is a process in the container, the loop a container of its  *)
(* own, and the agent's locks die with the agent.                          *)
(***************************************************************************)
EXTENDS Naturals, FiniteSets

CONSTANTS
  Handlers,       \* calls of the queryable's handler that can be in flight
  Movers,         \* bound: processes of pose_move.py that can be alive
  None,           \* nobody, nothing
  Faults,         \* what can go wrong: see FaultKinds
  MaxCrashes      \* bound: crashes of the agent

(* What can go wrong.                                                      *)
(*   unread    the recorder's or the loop's state cannot be read           *)
FaultKinds == {"unread"}

ASSUME AtomsAssumption ==
  /\ None \notin Handlers
  /\ None \notin Movers

ASSUME EnvironmentAssumption ==
  /\ Faults \subseteq FaultKinds
  /\ MaxCrashes \in Nat

Moves    == {"go", "home"}
Poses    == Moves \cup {"plan"}
Collects == {"start", "stop", "status"}

(* Seconds: what a mover's process is given in the container, and how long *)
(* the agent waits for it.                                                 *)
ProcessDeadline == 80
(* Mutant: every pose call waits as long as a service call.                *)
LocalTimeoutShort(action) == 30

LocalTimeout(action) == IF action = "plan" THEN 30 ELSE 90

VARIABLES
  poseArmed,      \* the operator's file that arms moves
  collectArmed,   \* the operator's file that arms a start of the loop
  recording,      \* whether the workcell records a take
  loop,           \* the collection loop's container
  mover,          \* every process of pose_move.py
  poseLock,       \* who holds _pose_lock
  collectLock,    \* who holds _collect_lock
  pc,             \* where each call is
  act,            \* what each call was asked
  mine,           \* the process a call waits for
  seen,           \* the guards as a call read them
  clear,          \* history: the guards that held since a call had its locks
  adrift,         \* history: the loop's start was given up at its timeout, and
                  \* the loop has not been off since
  crashes         \* crashes of the agent so far

arming  == <<poseArmed, collectArmed>>
robot   == <<recording, loop, adrift, mover>>
locks   == <<poseLock, collectLock>>
calls   == <<pc, act, mine, seen, clear>>
vars    == <<poseArmed, collectArmed, recording, loop, mover, poseLock,
             collectLock, pc, act, mine, seen, clear, adrift, crashes>>

Reading == {"yes", "no", "unknown"}
Guards  == [armed : Reading, recording : Reading, collecting : Reading]
Unread  == [armed |-> "unknown", recording |-> "unknown", collecting |-> "unknown"]

Steps == {"idle", "lockCollect", "readArmed", "readRecording", "readLoop",
          "decide", "launch", "moving", "script", "awaitLoop"}

-----------------------------------------------------------------------------
(* Helpers.                                                                *)

(* The loop's container drives the arms while it runs and while it homes.  *)
LoopDrives == loop \in {"on", "homing"}

Drivers == {m \in Movers : mover[m] = "driving"}

Says(fact) == IF fact THEN "yes" ELSE "no"

Read(fact) == {Says(fact)} \cup (IF "unread" \in Faults THEN {"unknown"} ELSE {})

(* The facts that make a move clear, of those that hold.                   *)
Clear == (IF poseArmed THEN {"armed"} ELSE {}) \cup (IF recording THEN {} ELSE {"quiet"})

(* Mutant: a state that could not be read is taken for a clear one.        *)
GuessedClear(g) ==
  /\ g.armed = "yes"
  /\ g.recording # "yes"
  /\ g.collecting # "yes"

(* move_refusal: unknown refuses as well.                                  *)
MayMove(g) ==
  /\ g.armed = "yes"
  /\ g.recording = "no"
  /\ g.collecting = "no"

GoTo(t, step) == pc' = [pc EXCEPT ![t] = step]

(* Mutant: a refusal after the second lock returns without releasing it.   *)
AnswerLeaks(t) ==
  /\ GoTo(t, "idle")
  /\ mine' = [mine EXCEPT ![t] = None]
  /\ seen' = [seen EXCEPT ![t] = Unread]
  /\ act' = [act EXCEPT ![t] = None]
  /\ clear' = [clear EXCEPT ![t] = {}]
  /\ poseLock' = (IF poseLock = t THEN None ELSE poseLock)
  /\ UNCHANGED collectLock

(* The call answers, and lets go of every lock it holds.                   *)
Answer(t) ==
  /\ GoTo(t, "idle")
  /\ mine' = [mine EXCEPT ![t] = None]
  /\ seen' = [seen EXCEPT ![t] = Unread]
  /\ act' = [act EXCEPT ![t] = None]
  /\ clear' = [clear EXCEPT ![t] = {}]
  /\ poseLock' = (IF poseLock = t THEN None ELSE poseLock)
  /\ collectLock' = (IF collectLock = t THEN None ELSE collectLock)

-----------------------------------------------------------------------------
Init ==
  /\ poseArmed \in BOOLEAN
  /\ collectArmed \in BOOLEAN
  /\ recording \in BOOLEAN
  /\ loop = "off"
  /\ mover = [m \in Movers |-> "none"]
  /\ poseLock = None
  /\ collectLock = None
  /\ pc = [t \in Handlers |-> "idle"]
  /\ act = [t \in Handlers |-> None]
  /\ mine = [t \in Handlers |-> None]
  /\ seen = [t \in Handlers |-> Unread]
  /\ clear = [t \in Handlers |-> {}]
  /\ adrift = FALSE
  /\ crashes = 0

-----------------------------------------------------------------------------
(* pose plan, go and home.                                                 *)

(* A second pose call is refused as busy, and changes nothing.             *)
PoseCall(t, action) ==
  /\ pc[t] = "idle"
  /\ poseLock = None
  /\ poseLock' = t
  /\ act' = [act EXCEPT ![t] = action]
  /\ GoTo(t, IF action \in Moves THEN "lockCollect" ELSE "launch")
  /\ UNCHANGED <<arming, robot, collectLock, mine, seen, clear, crashes>>

(* Mutant: a move takes the pose lock alone.                               *)
LockPoseOnly(t) ==
  /\ pc[t] = "lockCollect"
  /\ clear' = [clear EXCEPT ![t] = Clear]
  /\ GoTo(t, "readArmed")
  /\ UNCHANGED <<arming, robot, locks, act, mine, seen, crashes>>

(* A move holds the collect lock too, or is refused as busy.               *)
LockCollect(t) ==
  /\ pc[t] = "lockCollect"
  /\ \/ /\ collectLock = None
        /\ collectLock' = t
        /\ clear' = [clear EXCEPT ![t] = Clear]
        /\ GoTo(t, "readArmed")
        /\ UNCHANGED <<poseLock, act, mine, seen>>
     \/ /\ collectLock # None
        /\ Answer(t)
  /\ UNCHANGED <<arming, robot, crashes>>

(* The guards, read one after the other with both locks held.              *)
ReadArmed(t) ==
  /\ pc[t] = "readArmed"
  /\ seen' = [seen EXCEPT ![t].armed = Says(poseArmed)]
  /\ GoTo(t, "readRecording")
  /\ UNCHANGED <<arming, robot, locks, act, mine, clear, crashes>>

ReadRecording(t) ==
  /\ pc[t] = "readRecording"
  /\ \E value \in Read(recording) : seen' = [seen EXCEPT ![t].recording = value]
  /\ GoTo(t, "readLoop")
  /\ UNCHANGED <<arming, robot, locks, act, mine, clear, crashes>>

(* _collect_running: the script's own status.                              *)
ReadLoop(t) ==
  /\ pc[t] = "readLoop"
  /\ \E value \in Read(LoopDrives) : seen' = [seen EXCEPT ![t].collecting = value]
  /\ GoTo(t, "decide")
  /\ UNCHANGED <<arming, robot, locks, act, mine, clear, crashes>>

Decide(t) ==
  /\ pc[t] = "decide"
  /\ \/ /\ MayMove(seen[t])
        /\ GoTo(t, "launch")
        /\ UNCHANGED <<locks, act, mine, seen, clear>>
     \/ /\ ~MayMove(seen[t])
        /\ Answer(t)
  /\ UNCHANGED <<arming, robot, crashes>>

(* _ros_python: the script starts in the container, or the exec fails.     *)
Launch(t) ==
  /\ pc[t] = "launch"
  /\ \/ \E m \in Movers :
          /\ mover[m] = "none"
          /\ \A u \in Handlers : mine[u] # m
          /\ mover' = [mover EXCEPT ![m] = IF act[t] = "plan" THEN "planning" ELSE "ready"]
          /\ mine' = [mine EXCEPT ![t] = m]
          /\ GoTo(t, "moving")
          /\ UNCHANGED <<locks, act, seen, clear>>
     \/ /\ Answer(t)
        /\ UNCHANGED mover
  /\ UNCHANGED <<arming, recording, loop, adrift, crashes>>

(* The exec ends with its process, or before it if the agent's own timeout *)
(* is the shorter one.                                                     *)
EndPose(t) ==
  /\ pc[t] = "moving"
  /\ \/ mover[mine[t]] = "none"
     \/ LocalTimeout(act[t]) < ProcessDeadline
  /\ Answer(t)
  /\ UNCHANGED <<arming, robot, crashes>>

MoverDrives(m) ==
  /\ mover[m] = "ready"
  /\ mover' = [mover EXCEPT ![m] = "driving"]
  /\ UNCHANGED <<arming, recording, loop, adrift, locks, calls, crashes>>

(* It is done, or stopped by the deadline in the container.                *)
MoverEnds(m) ==
  /\ mover[m] # "none"
  /\ mover' = [mover EXCEPT ![m] = "none"]
  /\ UNCHANGED <<arming, recording, loop, adrift, locks, calls, crashes>>

-----------------------------------------------------------------------------
(* collect start, stop and status.                                         *)

(* A start that is not armed, and any call while another holds the lock,   *)
(* is refused and changes nothing.                                         *)
CollectCall(t, action) ==
  /\ pc[t] = "idle"
  /\ action = "start" => collectArmed
  /\ collectLock = None
  /\ collectLock' = t
  /\ act' = [act EXCEPT ![t] = action]
  /\ GoTo(t, "script")
  /\ UNCHANGED <<arming, robot, poseLock, mine, seen, clear, crashes>>

(* The script asks for the loop's container or stops it, then waits for it;*)
(* or it refuses, has nothing to do, or could not be run.                  *)
RunScript(t) ==
  /\ pc[t] = "script"
  /\ \/ /\ \/ act[t] = "start" /\ loop = "off" /\ loop' = "starting"
           \/ act[t] = "stop" /\ LoopDrives /\ loop' = "homing"
        /\ GoTo(t, "awaitLoop")
        /\ UNCHANGED <<locks, act, mine, seen, clear>>
     \/ /\ Answer(t)
        /\ UNCHANGED loop
  /\ UNCHANGED <<arming, recording, adrift, mover, crashes>>

Awaited(t) == IF act[t] = "start" THEN loop # "starting" ELSE loop = "off"

(* Mutant: the script is given as long as it takes.                        *)
EndScriptUntimed(t) ==
  /\ pc[t] = "awaitLoop"
  /\ Awaited(t)
  /\ Answer(t)
  /\ UNCHANGED <<arming, robot, crashes>>

(* The script answers, or its timeout kills it and leaves the loop as it   *)
(* is: an arm that is homing goes on homing, and the container that was    *)
(* asked for may still come up.                                            *)
EndScript(t) ==
  /\ pc[t] = "awaitLoop"
  /\ adrift' = (adrift \/ (act[t] = "start" /\ loop = "starting"))
  /\ Answer(t)
  /\ UNCHANGED <<arming, recording, loop, mover, crashes>>

(* The loop's container comes up, or does not.                             *)
LoopStarts ==
  /\ loop = "starting"
  /\ loop' \in {"on", "off"}
  /\ adrift' = (adrift /\ loop' # "off")
  /\ UNCHANGED <<arming, recording, mover, locks, calls, crashes>>

(* Its hours or cycles are over, it fails, or the arm has reached home.    *)
LoopEnds ==
  /\ LoopDrives
  /\ loop' = "off"
  /\ adrift' = FALSE
  /\ UNCHANGED <<arming, recording, mover, locks, calls, crashes>>

-----------------------------------------------------------------------------
(* Around the agent.                                                       *)

(* An operator arms or disarms, with a shell on the robot.                 *)
Arm ==
  /\ \/ poseArmed' = ~poseArmed /\ UNCHANGED collectArmed
     \/ collectArmed' = ~collectArmed /\ UNCHANGED poseArmed
  /\ UNCHANGED <<robot, locks, pc, act, mine, seen, crashes>>
  /\ clear' = [t \in Handlers |-> IF collectLock = t THEN clear[t] \cup Clear' ELSE clear[t]]

(* A take begins or ends: the record verb and the headset take no lock.    *)
Record ==
  /\ recording' = ~recording
  /\ UNCHANGED <<arming, loop, adrift, mover, locks, pc, act, mine, seen, crashes>>
  /\ clear' = [t \in Handlers |-> IF collectLock = t THEN clear[t] \cup Clear' ELSE clear[t]]

(* The agent dies and is started again.  The script it ran dies with it;   *)
(* the mover and the loop do not.                                          *)
Crash ==
  /\ crashes < MaxCrashes
  /\ crashes' = crashes + 1
  /\ poseLock' = None
  /\ collectLock' = None
  /\ pc' = [t \in Handlers |-> "idle"]
  /\ mine' = [t \in Handlers |-> None]
  /\ seen' = [t \in Handlers |-> Unread]
  /\ act' = [t \in Handlers |-> None]
  /\ clear' = [t \in Handlers |-> {}]
  /\ UNCHANGED <<arming, robot>>

-----------------------------------------------------------------------------
Step(t) ==
  \/ LockCollect(t) \/ ReadArmed(t) \/ ReadRecording(t) \/ ReadLoop(t)
  \/ Decide(t) \/ Launch(t) \/ EndPose(t) \/ RunScript(t) \/ EndScript(t)

Next ==
  \/ \E t \in Handlers :
       \/ \E action \in Poses : PoseCall(t, action)
       \/ \E action \in Collects : CollectCall(t, action)
       \/ Step(t)
  \/ \E m \in Movers : MoverDrives(m) \/ MoverEnds(m)
  \/ LoopStarts \/ LoopEnds \/ Arm \/ Record \/ Crash

Spec == Init /\ [][Next]_vars

(* Every wait of a call has a timeout, and `timeout' in the container ends *)
(* a mover.  Nothing is assumed of the loop.                               *)
Fairness ==
  /\ \A t \in Handlers : WF_vars(Step(t))
  /\ \A m \in Movers : WF_vars(MoverEnds(m))

FairSpec == Spec /\ Fairness

-----------------------------------------------------------------------------
(* Properties.                                                             *)

(* Every variable stays in its type.                                       *)
TypeOK ==
  /\ poseArmed \in BOOLEAN
  /\ collectArmed \in BOOLEAN
  /\ recording \in BOOLEAN
  /\ loop \in {"off", "starting", "on", "homing"}
  /\ mover \in [Movers -> {"none", "planning", "ready", "driving"}]
  /\ poseLock \in Handlers \cup {None}
  /\ collectLock \in Handlers \cup {None}
  /\ pc \in [Handlers -> Steps]
  /\ act \in [Handlers -> Poses \cup Collects \cup {None}]
  /\ mine \in [Handlers -> Movers \cup {None}]
  /\ seen \in [Handlers -> Guards]
  /\ clear \in [Handlers -> SUBSET {"armed", "quiet"}]
  /\ adrift \in BOOLEAN
  /\ crashes \in Nat

(* What the code says of the arms: two movers never drive them, nor a mover*)
(* while the loop runs (a move holds the collect lock, so the loop cannot  *)
(* start mid-move).                                                        *)
OneAtATime == \A m \in Drivers : ~LoopDrives /\ \A n \in Drivers : n = m

(* What is so while the agent, and its locks with it, lives: two movers    *)
(* never drive, and the loop drives with a mover only if its own start was *)
(* given up at the timeout, which lets go of the lock under a container    *)
(* that may come up after a move has read that none runs.                  *)
ArmsExclusive ==
  crashes = 0 =>
    \A m \in Drivers : (LoopDrives => adrift) /\ \A n \in Drivers : n = m

(* A move was armed, and the workcell not recording, at some moment since  *)
(* the move had its locks: it is never a guess, nor an older answer.       *)
MoveWasClear ==
  \A t \in Handlers :
    pc[t] = "moving" /\ act[t] \in Moves => clear[t] = {"armed", "quiet"}

(* Every pose and collect call is answered, whatever it started.           *)
CallAnswered == \A t \in Handlers : pc[t] # "idle" ~> pc[t] = "idle"

-----------------------------------------------------------------------------
(* The inductive invariants the proofs use.                                *)

PoseSteps    == {"lockCollect", "readArmed", "readRecording", "readLoop",
                 "decide", "launch", "moving"}
GuardedSteps == {"readArmed", "readRecording", "readLoop", "decide"}
ScriptSteps  == {"script", "awaitLoop"}

(* A call past its guards, whose move may already be on its way.           *)
Moving(t) == pc[t] \in {"launch", "moving"} /\ act[t] \in Moves

(* Who holds what: a lock is held by a call that still needs it.           *)
LocksHeld ==
  \A t \in Handlers :
    /\ pc[t] \in PoseSteps <=> poseLock = t
    /\ pc[t] \in GuardedSteps \cup ScriptSteps \/ Moving(t) <=> collectLock = t
    /\ pc[t] \in GuardedSteps \cup {"lockCollect"} => act[t] \in Moves
    /\ pc[t] \in {"launch", "moving"} => act[t] \in Poses
    /\ pc[t] \in ScriptSteps => act[t] \in Collects

(* What a call has read as clear was clear while it had its locks.         *)
Cleared ==
  \A t \in Handlers :
    /\ pc[t] \in GuardedSteps => Clear \subseteq clear[t]
    /\ pc[t] \in GuardedSteps /\ seen[t].armed = "yes" => "armed" \in clear[t]
    /\ pc[t] \in GuardedSteps /\ seen[t].recording = "no" => "quiet" \in clear[t]
    /\ pc[t] \notin GuardedSteps /\ ~Moving(t) => seen[t] = Unread
    /\ Moving(t) => clear[t] = {"armed", "quiet"}

(* A mover that can move the arms is waited for by the call that runs it.  *)
MoversOwned ==
  /\ \A m \in Movers : mover[m] \in {"ready", "driving"} =>
       \E t \in Handlers : mine[t] = m /\ pc[t] = "moving" /\ act[t] \in Moves
  /\ \A t \in Handlers : pc[t] = "moving" <=> mine[t] # None

(* The loop is off from the moment a move has seen it off, and is started  *)
(* only by a call that holds the collect lock, but for a start given up.   *)
LoopKept ==
  /\ \A t \in Handlers :
       (pc[t] = "decide" /\ seen[t].collecting = "no") \/ Moving(t) => loop = "off" \/ adrift
  /\ loop = "starting" =>
       adrift \/ \E t \in Handlers : pc[t] = "awaitLoop" /\ act[t] = "start"

(* True of every agent, and of one that has not died under its calls.      *)
CallInv == TypeOK /\ LocksHeld /\ Cleared
ArmInv  == CallInv /\ (crashes = 0 => MoversOwned /\ LoopKept)
=============================================================================
