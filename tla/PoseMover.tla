----------------------------- MODULE PoseMover -----------------------------
(***************************************************************************)
(* One run of pose_move.py inside the ros2 container: measure the joints,  *)
(* switch both arms to their trajectory controllers, send one goal to each,*)
(* wait, and hold or hand the arms back.  Every call of the robot's        *)
(* controllers takes up to its timeout and may fail; the clock counts the  *)
(* seconds of Mover.run's budget.                                          *)
(***************************************************************************)
EXTENDS Integers

CONSTANTS
  Swings,         \* bound: the radians the furthest joint may have to turn
  Grain,          \* bound: the times a step may take are this many seconds apart
  Requests,       \* what is asked: see RequestKinds
  Faults          \* what can go wrong beside a reported failure: FaultKinds

RequestKinds == {"plan", "go", "home"}

(*   raise        a call, but for a cancellation, raises before it has had *)
(*                any effect                                               *)
(*   unconfirmed  a switch is made, and its answer or the states are not   *)
(*                seen in time                                             *)
(*   lateAccept   a goal is accepted after send has given up on it         *)
(*   uncancelled  a cancellation fails, or is not answered in time         *)
(*   unmeasured   the joints cannot be read once the arms have moved       *)
FaultKinds == {"raise", "unconfirmed", "lateAccept", "uncancelled", "unmeasured"}

(* What a run may not have seen: these, and, unread, which controllers the *)
(* arms are on when it hands them back.                                    *)
HiddenKinds == (FaultKinds \ {"raise"}) \cup {"unread"}

ASSUME RequestAssumption ==
  /\ Swings \subseteq Nat \ {0}
  /\ Grain \in Nat \ {0}
  /\ Requests \subseteq RequestKinds
  /\ Faults \subseteq FaultKinds

Sides       == {"l", "r"}
Controllers == {"forward", "trajectory"}
Positions   == {"start", "between", "target"}

(* Seconds.                                                                *)
Deadline     == 70      \* arm_poses.MOVE_DEADLINE_S
HardStop     == 80      \* arm_poses.PROCESS_DEADLINE_S
MeasureTime  == 5
AgainTime    == 2
StatesTime   == 5
SwitchTime   == 10
SendTime     == 5
CancelTime   == 5
SeedTime     == 1       \* both arms, 25 commands 20 ms apart each
MinSeconds   == 6

VARIABLES
  pc,             \* where the run is
  request,        \* plan, go or home
  swing,          \* radians the furthest joint has to turn
  clock,          \* seconds since the run began
  controller,     \* the controller that commands each arm
  found,          \* history: the controllers the run found
  goal,           \* each arm's trajectory goal, at its controller
  handles,        \* the arms whose goal the run knows to be accepted
  position,       \* where each arm is
  known,          \* where the run last measured the arms
  to,             \* the controllers being switched to
  recovering,     \* whether run's except clause is being executed
  seeded,         \* the position each forward controller was seeded with
  hidden,         \* history: what happened and was hidden from the run
  reply           \* what the run answered

robot  == <<controller, goal, position>>
vars   == <<pc, request, swing, clock, controller, found, goal, handles,
            position, known, to, recovering, seeded, hidden, reply>>

Steps == {"measure", "fits", "servers", "states", "ask", "confirm", "sendL",
          "sendR", "wait", "after", "recover", "measureAgain", "seed", "done"}

Replies == {"none", "planned", "untouched", "holding", "handed", "stuck", "failed"}

-----------------------------------------------------------------------------
(* Helpers.                                                                *)

Least(a, b) == IF a < b THEN a ELSE b
Most(a, b)  == IF a > b THEN a ELSE b

(* plan: a cubic's peak is 1.5 of its average, held under 0.25 rad/s.      *)
Duration == Most(MinSeconds, 6 * swing)

(* Mutant: half the reserve.                                               *)
ThinReserve == 10

Reserve == 20           \* Mover.RESERVE_S

(* _left: a step's own time, or what the budget has left, less the reserve.*)
Left(time) == Most(0, Least(time, Deadline - Reserve - clock))

(* A step takes anything up to its time, or all of it.                     *)
Takes(time) ==
  \E seconds \in 0..time :
    /\ seconds % Grain = 0 \/ seconds = time
    /\ clock' = clock + seconds

GoTo(step) == pc' = step

Hidden(fault) == fault \in Faults /\ hidden' = hidden \cup {fault}

Answer(kind) == GoTo("done") /\ reply' = kind

All(f, value) == \A s \in Sides : f[s] = value

(* Both arms on one controller; a goal on a controller that is switched off*)
(* is aborted.                                                             *)
Switched(kind) ==
  /\ controller' = [s \in Sides |-> kind]
  /\ goal' = [s \in Sides |-> IF kind = "forward" /\ goal[s] = "active"
                                THEN "failed" ELSE goal[s]]

-----------------------------------------------------------------------------
Init ==
  /\ pc = "measure"
  /\ request \in Requests
  /\ swing \in Swings
  /\ clock = 0
  /\ \E kind \in Controllers : controller = [s \in Sides |-> kind]
  /\ found = controller
  /\ goal = [s \in Sides |-> "none"]
  /\ handles = {}
  /\ position = [s \in Sides |-> "start"]
  /\ known = position
  /\ to = "trajectory"
  /\ recovering = FALSE
  /\ seeded = [s \in Sides |-> "none"]
  /\ hidden = {}
  /\ reply = "none"

-----------------------------------------------------------------------------
(* Before the switch: any failure answers that nothing moved.              *)

Measure ==
  /\ pc = "measure"
  /\ Takes(Left(MeasureTime))
  /\ \/ Answer("untouched") /\ UNCHANGED known
     \/ /\ known' = position
        /\ IF request = "plan" THEN Answer("planned")
                               ELSE GoTo("fits") /\ UNCHANGED reply
  /\ UNCHANGED <<request, swing, robot, found, handles, to, recovering, seeded, hidden>>

(* A move that cannot end before the reserve is not started.               *)
Fits ==
  /\ pc = "fits"
  /\ IF Duration + 10 > Deadline - Reserve - clock
       THEN Answer("untouched")
       ELSE GoTo("servers") /\ UNCHANGED reply
  /\ UNCHANGED <<request, swing, clock, robot, found, handles, known, to,
                 recovering, seeded, hidden>>

(* One wait for the switcher and one for each arm's action server.         *)
ServersReady ==
  /\ pc = "servers"
  /\ Takes(3 * Left(MeasureTime))
  /\ \/ Answer("untouched")
     \/ GoTo("states") /\ UNCHANGED reply
  /\ UNCHANGED <<request, swing, robot, found, handles, known, to, recovering, seeded, hidden>>

-----------------------------------------------------------------------------
(* switch_controllers, to the trajectory controllers and back.             *)

Switching ==
  IF to = "trajectory" THEN GoTo("sendL") /\ UNCHANGED reply
                       ELSE GoTo("seed") /\ UNCHANGED reply

NotSwitched == IF to = "trajectory" THEN Answer("untouched") ELSE Answer("stuck")

Unread == hidden' = hidden \cup {"unread"}

(* Read the states; nothing is asked of arms that are there already.       *)
ReadStates ==
  /\ pc = "states"
  /\ Takes(StatesTime)
  /\ \/ NotSwitched /\ IF to = "forward" THEN Unread ELSE UNCHANGED hidden
     \/ All(controller, to) /\ Switching /\ UNCHANGED hidden
     \/ ~All(controller, to) /\ GoTo("ask") /\ UNCHANGED <<hidden, reply>>
  /\ UNCHANGED <<request, swing, robot, found, handles, known, to, recovering, seeded>>

(* A strict switch: agreed and made, agreed and not made, or refused.      *)
AskSwitch ==
  /\ pc = "ask"
  /\ Takes(SwitchTime)
  /\ \/ Switched(to) /\ GoTo("confirm") /\ UNCHANGED <<hidden, reply>>
     \/ UNCHANGED <<controller, goal, hidden, reply>> /\ GoTo("confirm")
     \/ UNCHANGED <<controller, goal, hidden>> /\ NotSwitched
     \/ Hidden("unconfirmed") /\ Switched(to) /\ NotSwitched
  /\ UNCHANGED <<request, swing, found, handles, position, known, to, recovering, seeded>>

(* Mutant: the manager's agreement is taken for the switch.                *)
ConfirmTrusting ==
  /\ pc = "confirm"
  /\ Switching
  /\ UNCHANGED <<request, swing, clock, robot, found, handles, known, to,
                 recovering, seeded, hidden>>

(* The states are read again: an agreement is not yet a switch.            *)
Confirm ==
  /\ pc = "confirm"
  /\ Takes(StatesTime)
  /\ \/ All(controller, to) /\ Switching /\ UNCHANGED hidden
     \/ ~All(controller, to) /\ NotSwitched /\ UNCHANGED hidden
     \/ Hidden("unconfirmed") /\ NotSwitched
  /\ UNCHANGED <<request, swing, robot, found, handles, known, to, recovering, seeded>>

-----------------------------------------------------------------------------
(* _move: a goal to each arm, and the wait for both.                       *)

Send(step, s, next) ==
  /\ pc = step
  /\ Takes(SendTime)
  /\ \/ /\ goal' = [goal EXCEPT ![s] = "active"]
        /\ handles' = handles \cup {s}
        /\ GoTo(next)
        /\ UNCHANGED hidden
     \/ /\ \/ UNCHANGED <<goal, hidden>>
           \/ Hidden("lateAccept") /\ goal' = [goal EXCEPT ![s] = "active"]
        /\ GoTo("recover")
        /\ UNCHANGED handles
  /\ UNCHANGED <<request, swing, controller, found, position, known, to,
                 recovering, seeded, reply>>

(* Both goals ended, or the time for them, which may be none, is over.     *)
Wait ==
  /\ pc = "wait"
  /\ \/ /\ Left(Duration + 10) > 0
        /\ \A s \in handles : goal[s] # "active"
        /\ Takes(Left(Duration + 10))
        /\ GoTo(IF All(goal, "reached") THEN "after" ELSE "recover")
     \/ /\ clock' = clock + Left(Duration + 10)
        /\ GoTo("recover")
  /\ UNCHANGED <<request, swing, robot, found, handles, known, to, recovering,
                 seeded, hidden, reply>>

(* The joints as they are now, or as last known.                           *)
Remeasured ==
  \/ known' = position /\ UNCHANGED hidden
  \/ Hidden("unmeasured") /\ UNCHANGED known

(* Hold where the move ended; hand back if that was asked, or if a joint   *)
(* stopped short of its target.                                            *)
After ==
  /\ pc = "after"
  /\ Takes(AgainTime)
  /\ Remeasured
  /\ IF All(known', "target") /\ request = "go"
       THEN Answer("holding")
       ELSE GoTo("measureAgain") /\ UNCHANGED reply
  /\ UNCHANGED <<request, swing, robot, found, handles, to, recovering, seeded>>

-----------------------------------------------------------------------------
(* _recover and _hand_back.                                                *)

(* Mutant: the arms are handed back with their goals still running.        *)
RecoverNothing ==
  /\ pc = "recover"
  /\ GoTo("measureAgain")
  /\ UNCHANGED <<request, swing, clock, robot, found, handles, known, to,
                 recovering, seeded, hidden, reply>>

Recover ==
  /\ pc = "recover"
  /\ Takes(CancelTime)
  /\ \/ /\ goal' = [s \in Sides |-> IF s \in handles /\ goal[s] = "active"
                                      THEN "failed" ELSE goal[s]]
        /\ UNCHANGED hidden
     \/ Hidden("uncancelled") /\ UNCHANGED goal
  /\ GoTo("measureAgain")
  /\ UNCHANGED <<request, swing, controller, found, handles, position, known, to,
                 recovering, seeded, reply>>

(* Mutant: the seed is what was measured before the move.                  *)
MeasureOnce ==
  /\ pc = "measureAgain"
  /\ to' = "forward"
  /\ GoTo("states")
  /\ UNCHANGED <<request, swing, clock, robot, found, handles, known, recovering,
                 seeded, hidden, reply>>

(* What the seed will be.                                                  *)
MeasureAgain ==
  /\ pc = "measureAgain"
  /\ Takes(AgainTime)
  /\ Remeasured
  /\ to' = "forward"
  /\ GoTo("states")
  /\ UNCHANGED <<request, swing, robot, found, handles, recovering, seeded, reply>>

Seed ==
  /\ pc = "seed"
  /\ clock' = clock + SeedTime
  /\ seeded' = known
  /\ Answer("handed")
  /\ UNCHANGED <<request, swing, robot, found, handles, known, to, recovering, hidden>>

(* A controller call raises.  Before the try, and in a seed on the way out,*)
(* main answers that the move failed.                                      *)
RaisePast ==
  /\ pc \in {"measure", "servers"} \/ (pc = "seed" /\ recovering)
  /\ Answer("failed")
  /\ UNCHANGED <<known, recovering, hidden>>

(* Inside the try, run cancels and hands back: what it then knows of the   *)
(* arms is what it measured first.                                         *)
RaiseInTry ==
  /\ \/ pc \in {"states", "ask", "confirm"} /\ to = "trajectory"
     \/ pc \in {"sendL", "sendR", "wait", "after"}
     \/ pc = "seed" /\ ~recovering
  /\ GoTo("recover")
  /\ recovering' = TRUE
  /\ known' = [s \in Sides |-> "start"]
  /\ UNCHANGED <<hidden, reply>>

(* While handing back, the switch counts as not made, whether it is or not.*)
RaiseHandingBack ==
  /\ pc = "measureAgain" \/ (pc \in {"states", "ask", "confirm"} /\ to = "forward")
  /\ Answer("stuck")
  /\ Unread
  /\ UNCHANGED <<known, recovering>>

Raise ==
  /\ "raise" \in Faults
  /\ RaisePast \/ RaiseInTry \/ RaiseHandingBack
  /\ UNCHANGED <<request, swing, clock, robot, found, handles, to, seeded>>

-----------------------------------------------------------------------------
(* The trajectory controllers: an arm on its way, its goal reached, or     *)
(* given up short of the target.                                           *)
ArmMoves(s) ==
  /\ goal[s] = "active"
  /\ controller[s] = "trajectory"
  /\ \/ position[s] = "start" /\ position' = [position EXCEPT ![s] = "between"]
        /\ UNCHANGED goal
     \/ position' = [position EXCEPT ![s] = "target"] /\ goal' = [goal EXCEPT ![s] = "reached"]
     \/ goal' = [goal EXCEPT ![s] = "failed"] /\ UNCHANGED position
  /\ UNCHANGED <<pc, request, swing, clock, controller, found, handles, known, to,
                 recovering, seeded, hidden, reply>>

Next ==
  \/ Measure \/ Fits \/ ServersReady
  \/ ReadStates \/ AskSwitch \/ Confirm
  \/ Send("sendL", "l", "sendR") \/ Send("sendR", "r", "wait") \/ Wait \/ After
  \/ Recover \/ MeasureAgain \/ Seed \/ Raise
  \/ \E s \in Sides : ArmMoves(s)

Spec == Init /\ [][Next]_vars

-----------------------------------------------------------------------------
(* Properties.                                                             *)

(* Every variable stays in its type.                                       *)
TypeOK ==
  /\ pc \in Steps
  /\ request \in Requests
  /\ swing \in Swings
  /\ clock \in Nat
  /\ controller \in [Sides -> Controllers]
  /\ found \in [Sides -> Controllers]
  /\ goal \in [Sides -> {"none", "active", "reached", "failed"}]
  /\ handles \subseteq Sides
  /\ position \in [Sides -> Positions]
  /\ known \in [Sides -> Positions]
  /\ to \in Controllers
  /\ recovering \in BOOLEAN
  /\ seeded \in [Sides -> Positions \cup {"none"}]
  /\ hidden \subseteq HiddenKinds
  /\ reply \in Replies

Resting == \A s \in Sides : goal[s] # "active"

AtStart == [s \in Sides |-> "start"]

(* What the run had to see to know that the arms rest, where they are, and *)
(* which controllers they are on.                                          *)
SawRest        == hidden \cap {"lateAccept", "uncancelled"} = {}
SawPosition    == SawRest /\ "unmeasured" \notin hidden
SawControllers == hidden \cap {"unconfirmed", "unread"} = {}

(* The reply says where the arms are, whatever is refused, times out or    *)
(* raises.  "Nothing moved": no goal was sent, and the controllers are     *)
(* those the run found unless it did not see its own switch.  "Holding":   *)
(* at rest on the trajectory controllers, at the target.  "Handed back": at*)
(* rest on the forward controllers, goals the run never knew of included.  *)
(* "Holding on their trajectory controllers": there, and at rest, each     *)
(* unless what the run had to see of it was hidden.                        *)
ReplyIsTrue ==
  /\ reply \in {"planned", "untouched"} => All(goal, "none") /\ position = AtStart
  /\ reply = "planned" \/ (reply = "untouched" /\ SawControllers) => controller = found
  /\ reply = "holding" => All(controller, "trajectory") /\ All(position, "target")
  /\ reply = "handed" => All(controller, "forward")
  /\ reply \in {"holding", "handed"} \/ (reply = "stuck" /\ SawRest) => Resting
  /\ reply = "stuck" /\ SawControllers => All(controller, "trajectory")

(* What the message, and the module's own account of it, say of "stuck".   *)
StuckOnTrajectory == reply = "stuck" => All(controller, "trajectory")
StuckAtRest       == reply = "stuck" => Resting

(* Arms that were handed back were seeded where they are, so that they     *)
(* cannot jump, if the run could see where that is.                        *)
SeededWhereTheyAre == SawPosition /\ reply = "handed" => seeded = position

(* The arms are never left on controllers nothing commands: a run that says*)
(* nothing moved has switched nothing.                                     *)
NeverStranded == reply = "untouched" => controller = found

(* The deadline is the plan: a run is over by then.                        *)
OverByDeadline == clock <= Deadline

(* The container's own `timeout' is a backstop: a run whose try did not    *)
(* raise is over before it, whatever else is late.                         *)
OverByHardStop == ~recovering => clock <= HardStop

(* Why: what the steps before it can have taken by each step.              *)
BudgetInv ==
  /\ TypeOK
  /\ ~recovering =>
     /\ pc = "measure" => clock = 0
     /\ pc \in {"fits", "servers"} => clock <= 5
     /\ to = "trajectory" =>
          /\ pc = "states"  => clock <= 20
          /\ pc = "ask"     => clock <= 25
          /\ pc = "confirm" => clock <= 35
     /\ pc = "sendL" => clock <= 40
     /\ pc = "sendR" => clock <= 45
     /\ pc \in {"wait", "after", "recover"} => clock <= 50
     /\ pc = "measureAgain" => clock <= 55
     /\ to = "forward" =>
          /\ pc = "states"  => clock <= 57
          /\ pc = "ask"     => clock <= 62
          /\ pc = "confirm" => clock <= 72
     /\ pc = "seed" => clock <= 77
     /\ pc = "done" => clock <= 78

-----------------------------------------------------------------------------
(* Why the replies are true: the inductive form of ReplyIsTrue and         *)
(* SeededWhereTheyAre.                                                     *)

Early  == {"measure", "fits", "servers"}
OnItsWay == pc \in {"states", "ask", "confirm"} /\ to = "trajectory"
HandingBack == (pc \in {"states", "ask", "confirm"} /\ to = "forward") \/ pc = "seed"
Moving == {"sendL", "sendR", "wait", "after"}

(* Both arms are on one controller, a switch is asked for only if it is    *)
(* needed, and a goal runs only under its controller: where the run can    *)
(* cancel it, unless it was accepted too late.                             *)
GoalsKnown ==
  /\ \E kind \in Controllers : All(controller, kind)
  /\ pc = "ask" => ~All(controller, to)
  /\ \A s \in Sides : goal[s] = "active" =>
       controller[s] = "trajectory" /\ (s \in handles \/ "lateAccept" \in hidden)

(* Up to the first goal nothing has moved, and up to the switch the        *)
(* controllers are those found.                                            *)
NothingYet ==
  /\ pc \in Early \/ OnItsWay \/ pc = "sendL" => All(goal, "none") /\ position = AtStart
  /\ pc \in Early \/ (OnItsWay /\ pc # "confirm") => controller = found
  /\ OnItsWay => controller = found \/ All(controller, "trajectory")

(* While goals may run the trajectory controllers command, and past a wait *)
(* that succeeded the arms are at their targets.  What the run takes for   *)
(* the target it has measured.                                             *)
GoalsCommanded ==
  /\ pc \in Early \cup Moving => to = "trajectory"
  /\ pc \in Early \cup Moving \/ OnItsWay => known = AtStart
  /\ pc \in Moving => All(controller, "trajectory")
  /\ \A s \in Sides : goal[s] = "reached" => position[s] = "target"
  /\ pc = "after" => All(goal, "reached")

(* The arms are handed back at rest, seeded with where they are, as far as *)
(* the run could see.                                                      *)
BackAtRest ==
  /\ pc = "measureAgain" \/ HandingBack => (SawRest => Resting)
  /\ HandingBack => (SawPosition => known = position)
  /\ pc = "seed" => All(controller, "forward") /\ to = "forward"
  /\ pc # "done" => reply = "none"

(* The type invariant, and the parts above.                                *)
RunInv ==
  /\ TypeOK
  /\ GoalsKnown /\ NothingYet /\ GoalsCommanded /\ BackAtRest
  /\ ReplyIsTrue
  /\ SeededWhereTheyAre
=============================================================================
