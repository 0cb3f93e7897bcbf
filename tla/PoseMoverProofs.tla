-------------------------- MODULE PoseMoverProofs --------------------------
(***************************************************************************)
(* Proofs about PoseMover, for any joint distances and any way the steps   *)
(* share their times.                                                      *)
(***************************************************************************)
EXTENDS PoseMover, TLAPS

USE RequestAssumption

(* A step's time, cut to the budget, is a number of seconds and no more    *)
(* than was asked for or is left.                                          *)
LEMMA LeftBounded ==
  ASSUME clock \in Nat, NEW time \in Nat
  PROVE  /\ Left(time) \in Nat
         /\ Left(time) <= time
         /\ clock + Left(time) <= 50 \/ Left(time) = 0
  BY DEF Left, Least, Most, Deadline, Reserve

(* The clock counts on, by no more than the step's time.                   *)
LEMMA TakesBounded ==
  ASSUME clock \in Nat, NEW time \in Nat, Takes(time)
  PROVE  clock' \in Nat /\ clock' <= clock + time
  BY DEF Takes

(* A move's planned duration is a number of seconds.                       *)
LEMMA DurationIsNat == ASSUME swing \in Nat PROVE Duration \in Nat
  BY DEF Duration, Most, MinSeconds

(* Every step keeps the types.                                             *)
LEMMA TypeStep == ASSUME TypeOK, [Next]_vars PROVE TypeOK'
<1> USE DEF TypeOK, robot, GoTo, Answer, All
<1>1. CASE Measure
  <2>1. clock' \in Nat
    <3>1. Left(MeasureTime) \in Nat
      BY LeftBounded DEF MeasureTime
    <3>2. QED
      BY <1>1, <3>1, TakesBounded DEF Measure
  <2>2. QED
    BY <1>1, <2>1 DEF Measure, Steps, Replies, Sides, Controllers, Positions
<1>2. CASE Fits
  BY <1>2 DEF Fits, Steps, Replies, Sides, Positions
<1>3. CASE ServersReady
  <2>1. clock' \in Nat
    <3>1. 3 * Left(MeasureTime) \in Nat
      BY LeftBounded DEF MeasureTime
    <3>2. QED
      BY <1>3, <3>1, TakesBounded DEF ServersReady
  <2>2. QED
    BY <1>3, <2>1 DEF ServersReady, Steps, Replies, Sides, Controllers, Positions
<1>4. CASE ReadStates
  <2>1. clock' \in Nat
    <3>1. StatesTime \in Nat
      BY DEF StatesTime
    <3>2. QED
      BY <1>4, <3>1, TakesBounded DEF ReadStates
  <2>2. QED
    BY <1>4, <2>1 DEF ReadStates, Switching, NotSwitched, Unread, HiddenKinds, Steps, Replies, Sides, Controllers, Positions
<1>5. CASE AskSwitch
  <2>1. clock' \in Nat
    <3>1. SwitchTime \in Nat
      BY DEF SwitchTime
    <3>2. QED
      BY <1>5, <3>1, TakesBounded DEF AskSwitch
  <2>2. goal' \in [Sides -> {"none", "active", "reached", "failed"}]
    BY <1>5 DEF AskSwitch, Switched, Hidden
  <2>3. hidden' \subseteq HiddenKinds
    BY <1>5 DEF AskSwitch, Hidden, HiddenKinds, FaultKinds
  <2>4. QED
    BY <1>5, <2>1, <2>2, <2>3 DEF AskSwitch, Switched, NotSwitched, Steps, Replies, Controllers
<1>6. CASE Confirm
  <2>1. clock' \in Nat
    <3>1. StatesTime \in Nat
      BY DEF StatesTime
    <3>2. QED
      BY <1>6, <3>1, TakesBounded DEF Confirm
  <2>2. QED
    BY <1>6, <2>1 DEF Confirm, Switching, NotSwitched, Hidden, HiddenKinds, FaultKinds, Steps, Replies, Sides, Controllers, Positions
<1>7. CASE Send("sendL", "l", "sendR")
  <2>1. clock' \in Nat
    <3>1. SendTime \in Nat
      BY DEF SendTime
    <3>2. QED
      BY <1>7, <3>1, TakesBounded DEF Send
  <2>2. hidden' \subseteq HiddenKinds
    BY <1>7 DEF Send, Hidden, HiddenKinds, FaultKinds
  <2>3. goal' \in [Sides -> {"none", "active", "reached", "failed"}] /\ handles' \subseteq Sides
    BY <1>7 DEF Send, Sides
  <2>4. QED
    BY <1>7, <2>1, <2>2, <2>3 DEF Send, Steps
<1>8. CASE Send("sendR", "r", "wait")
  <2>1. clock' \in Nat
    <3>1. SendTime \in Nat
      BY DEF SendTime
    <3>2. QED
      BY <1>8, <3>1, TakesBounded DEF Send
  <2>2. hidden' \subseteq HiddenKinds
    BY <1>8 DEF Send, Hidden, HiddenKinds, FaultKinds
  <2>3. goal' \in [Sides -> {"none", "active", "reached", "failed"}] /\ handles' \subseteq Sides
    BY <1>8 DEF Send, Sides
  <2>4. QED
    BY <1>8, <2>1, <2>2, <2>3 DEF Send, Steps
<1>9. CASE Wait
  <2>1. clock' \in Nat
    <3>1. Left(Duration + 10) \in Nat
      BY DurationIsNat, LeftBounded
    <3>2. QED
      BY <1>9, <3>1, TakesBounded DEF Wait
  <2>2. QED
    BY <1>9, <2>1 DEF Wait, Steps
<1>10. CASE After
  <2>1. clock' \in Nat
    <3>1. AgainTime \in Nat
      BY DEF AgainTime
    <3>2. QED
      BY <1>10, <3>1, TakesBounded DEF After
  <2>2. QED
    BY <1>10, <2>1 DEF After, Remeasured, Hidden, HiddenKinds, FaultKinds, Steps, Replies, Sides, Controllers, Positions
<1>11. CASE Recover
  <2>1. clock' \in Nat
    <3>1. CancelTime \in Nat
      BY DEF CancelTime
    <3>2. QED
      BY <1>11, <3>1, TakesBounded DEF Recover
  <2>2. goal' \in [Sides -> {"none", "active", "reached", "failed"}]
    BY <1>11 DEF Recover, Hidden
  <2>3. hidden' \subseteq HiddenKinds
    BY <1>11 DEF Recover, Hidden, HiddenKinds, FaultKinds
  <2>4. QED
    BY <1>11, <2>1, <2>2, <2>3 DEF Recover, Steps, Replies, Controllers
<1>12. CASE MeasureAgain
  <2>1. clock' \in Nat
    <3>1. AgainTime \in Nat
      BY DEF AgainTime
    <3>2. QED
      BY <1>12, <3>1, TakesBounded DEF MeasureAgain
  <2>2. QED
    BY <1>12, <2>1 DEF MeasureAgain, Remeasured, Hidden, HiddenKinds, FaultKinds, Steps, Replies, Sides, Controllers, Positions
<1>13. CASE Seed
  BY <1>13 DEF Seed, SeedTime, Steps, Replies
<1>14. CASE Raise
  BY <1>14 DEF Raise, RaisePast, RaiseInTry, RaiseHandingBack, Unread, HiddenKinds, Steps, Replies, Sides, Positions
<1>15. ASSUME NEW s \in Sides, ArmMoves(s) PROVE TypeOK'
  BY <1>15 DEF ArmMoves, Positions
<1>16. CASE UNCHANGED vars
  BY <1>16 DEF vars
<1>17. QED
  BY <1>1, <1>2, <1>3, <1>4, <1>5, <1>6, <1>7, <1>8, <1>9, <1>10, <1>11, <1>12, <1>13, <1>14, <1>15, <1>16 DEF Next

(* A run that starts has every variable in its type.                       *)
LEMMA TypeInit == Init => TypeOK
<1>1. Init => controller \in [Sides -> Controllers] /\ found \in [Sides -> Controllers]
  BY DEF Init
<1>2. Init => /\ goal \in [Sides -> {"none", "active", "reached", "failed"}]
              /\ position \in [Sides -> Positions]
              /\ known \in [Sides -> Positions]
              /\ seeded \in [Sides -> Positions \cup {"none"}]
  BY DEF Init, Positions
<1>3. Init => /\ pc \in Steps /\ to \in Controllers /\ reply \in Replies
              /\ clock \in Nat /\ handles \subseteq Sides
              /\ hidden \subseteq HiddenKinds
  BY DEF Init, Steps, Controllers, Replies
<1>4. Init => recovering \in BOOLEAN
  BY DEF Init
<1>5. QED
  BY <1>1, <1>2, <1>3, <1>4 DEF Init, TypeOK

(* Whatever fails, every variable stays in its type.                       *)
THEOREM TypeCorrect == Spec => []TypeOK
<1>1. TypeOK /\ [Next]_vars => TypeOK'
  BY TypeStep
<1>2. QED
  BY TypeInit, <1>1, PTL DEF Spec

(* No step takes a run past what the steps before it may have taken.       *)
LEMMA BudgetStep == ASSUME BudgetInv, [Next]_vars PROVE BudgetInv'
<1> USE DEF BudgetInv
<1>1. TypeOK'
  BY TypeStep
<1> USE DEF TypeOK, robot, GoTo, Answer
<1>2. CASE Measure
  <2>1. clock' <= clock + 5
    <3>1. Left(MeasureTime) \in Nat /\ Left(MeasureTime) <= 5
      BY LeftBounded DEF MeasureTime
    <3>2. QED
      BY <1>2, <3>1, TakesBounded DEF Measure
  <2>2. QED
    BY <1>1, <1>2, <2>1 DEF Measure, Controllers
<1>3. CASE Fits
  BY <1>1, <1>3 DEF Fits
<1>4. CASE ServersReady
  <2>1. clock' <= clock + 15
    <3>1. 3 * Left(MeasureTime) \in Nat /\ 3 * Left(MeasureTime) <= 15
      BY LeftBounded DEF MeasureTime
    <3>2. QED
      BY <1>4, <3>1, TakesBounded DEF ServersReady
  <2>2. QED
    BY <1>1, <1>4, <2>1 DEF ServersReady, Controllers
<1>5. CASE ReadStates
  <2>1. clock' <= clock + 5
    <3>1. StatesTime \in Nat /\ StatesTime <= 5
      BY DEF StatesTime
    <3>2. QED
      BY <1>5, <3>1, TakesBounded DEF ReadStates
  <2>2. QED
    BY <1>1, <1>5, <2>1 DEF ReadStates, Switching, NotSwitched, Controllers
<1>6. CASE AskSwitch
  <2>1. clock' <= clock + 10
    <3>1. SwitchTime \in Nat /\ SwitchTime <= 10
      BY DEF SwitchTime
    <3>2. QED
      BY <1>6, <3>1, TakesBounded DEF AskSwitch
  <2>2. QED
    BY <1>1, <1>6, <2>1 DEF AskSwitch, Switched, NotSwitched, Controllers
<1>7. CASE Confirm
  <2>1. clock' <= clock + 5
    <3>1. StatesTime \in Nat /\ StatesTime <= 5
      BY DEF StatesTime
    <3>2. QED
      BY <1>7, <3>1, TakesBounded DEF Confirm
  <2>2. QED
    BY <1>1, <1>7, <2>1 DEF Confirm, Switching, NotSwitched, Controllers
<1>8. CASE Send("sendL", "l", "sendR")
  <2>1. clock' <= clock + 5
    <3>1. SendTime \in Nat /\ SendTime <= 5
      BY DEF SendTime
    <3>2. QED
      BY <1>8, <3>1, TakesBounded DEF Send
  <2>2. QED
    BY <1>1, <1>8, <2>1 DEF Send, Controllers
<1>9. CASE Send("sendR", "r", "wait")
  <2>1. clock' <= clock + 5
    <3>1. SendTime \in Nat /\ SendTime <= 5
      BY DEF SendTime
    <3>2. QED
      BY <1>9, <3>1, TakesBounded DEF Send
  <2>2. QED
    BY <1>1, <1>9, <2>1 DEF Send, Controllers
<1>10. CASE Wait
  <2>1. /\ Left(Duration + 10) \in Nat
        /\ clock + Left(Duration + 10) <= 50 \/ Left(Duration + 10) = 0
    BY DurationIsNat, LeftBounded
  <2>2. ~recovering => clock' <= 50
    BY <1>10, <2>1, TakesBounded DEF Wait
  <2>3. QED
    BY <1>1, <1>10, <2>2 DEF Wait
<1>11. CASE After
  <2>1. clock' <= clock + 2
    <3>1. AgainTime \in Nat /\ AgainTime <= 2
      BY DEF AgainTime
    <3>2. QED
      BY <1>11, <3>1, TakesBounded DEF After
  <2>2. QED
    BY <1>1, <1>11, <2>1 DEF After, Controllers
<1>12. CASE Recover
  <2>1. clock' <= clock + 5
    <3>1. CancelTime \in Nat /\ CancelTime <= 5
      BY DEF CancelTime
    <3>2. QED
      BY <1>12, <3>1, TakesBounded DEF Recover
  <2>2. QED
    BY <1>1, <1>12, <2>1 DEF Recover, Controllers
<1>13. CASE MeasureAgain
  <2>1. clock' <= clock + 2
    <3>1. AgainTime \in Nat /\ AgainTime <= 2
      BY DEF AgainTime
    <3>2. QED
      BY <1>13, <3>1, TakesBounded DEF MeasureAgain
  <2>2. QED
    BY <1>1, <1>13, <2>1 DEF MeasureAgain, Controllers
<1>14. CASE Seed
  BY <1>1, <1>14 DEF Seed, SeedTime
<1>15. CASE Raise
  BY <1>1, <1>15 DEF Raise, RaisePast, RaiseInTry, RaiseHandingBack
<1>16. ASSUME NEW s \in Sides, ArmMoves(s) PROVE BudgetInv'
  BY <1>1, <1>16 DEF ArmMoves
<1>17. CASE UNCHANGED vars
  BY <1>1, <1>17 DEF vars
<1>18. QED
  BY <1>2, <1>3, <1>4, <1>5, <1>6, <1>7, <1>8, <1>9, <1>10, <1>11, <1>12, <1>13, <1>14, <1>15, <1>16, <1>17 DEF Next

(* A step that is cut to the budget begins with what is left of it.        *)
THEOREM BudgetKept == Spec => []BudgetInv
<1>1. Init => BudgetInv
  BY TypeInit DEF Init, BudgetInv
<1>2. BudgetInv /\ [Next]_vars => BudgetInv'
  BY BudgetStep
<1>3. QED
  BY <1>1, <1>2, PTL DEF Spec

(* A run whose try does not raise is over before the container's timeout,  *)
(* however late each of its calls answers.                                 *)
THEOREM OverInTime == Spec => []OverByHardStop
<1>1. BudgetInv => OverByHardStop
  BY DEF BudgetInv, TypeOK, Steps, Controllers, OverByHardStop, HardStop
<1>2. QED
  BY <1>1, BudgetKept, PTL

(* Every step keeps the run's invariant: what the run says of the arms is  *)
(* what they do, as far as it could see.                                   *)
LEMMA RunStep == ASSUME RunInv, [Next]_vars PROVE RunInv'
<1>1. TypeOK'
  BY TypeStep DEF RunInv
<1> USE DEF RunInv, GoalsKnown, NothingYet, GoalsCommanded, BackAtRest, ReplyIsTrue,
            SeededWhereTheyAre, SawRest, SawPosition, SawControllers
<1> USE DEF TypeOK, robot, GoTo, Answer, All, Resting, AtStart, Early, OnItsWay, HandingBack,
            Moving, Sides, Controllers
<1>2. CASE Measure
  <2>1. GoalsKnown'
    BY <1>2 DEF Measure
  <2>2. NothingYet'
    BY <1>2 DEF Measure
  <2>3. GoalsCommanded'
    BY <1>2 DEF Measure
  <2>4. BackAtRest'
    BY <1>2 DEF Measure
  <2>5. ReplyIsTrue'
    BY <1>2 DEF Measure
  <2>6. SeededWhereTheyAre'
    BY <1>2 DEF Measure
  <2>7. QED
    BY <1>1, <2>1, <2>2, <2>3, <2>4, <2>5, <2>6
<1>3. CASE Fits
  <2>1. GoalsKnown'
    BY <1>3 DEF Fits
  <2>2. NothingYet'
    BY <1>3 DEF Fits
  <2>3. GoalsCommanded'
    BY <1>3 DEF Fits
  <2>4. BackAtRest'
    BY <1>3 DEF Fits
  <2>5. ReplyIsTrue'
    BY <1>3 DEF Fits
  <2>6. SeededWhereTheyAre'
    BY <1>3 DEF Fits
  <2>7. QED
    BY <1>1, <2>1, <2>2, <2>3, <2>4, <2>5, <2>6
<1>4. CASE ServersReady
  <2>1. GoalsKnown'
    BY <1>4 DEF ServersReady
  <2>2. NothingYet'
    BY <1>4 DEF ServersReady
  <2>3. GoalsCommanded'
    BY <1>4 DEF ServersReady
  <2>4. BackAtRest'
    BY <1>4 DEF ServersReady
  <2>5. ReplyIsTrue'
    BY <1>4 DEF ServersReady
  <2>6. SeededWhereTheyAre'
    BY <1>4 DEF ServersReady
  <2>7. QED
    BY <1>1, <2>1, <2>2, <2>3, <2>4, <2>5, <2>6
<1>5. CASE ReadStates
  <2>1. GoalsKnown'
    <3>1. hidden \subseteq hidden'
      BY <1>5 DEF ReadStates, Unread
    <3>2. pc' = "ask" => ~All(controller, to)
      BY <1>5 DEF ReadStates, Switching, NotSwitched, Unread
    <3>3. QED
      BY <1>5, <3>1, <3>2 DEF ReadStates
  <2>2. NothingYet'
    BY <1>5 DEF ReadStates, Switching, NotSwitched, Unread
  <2>3. GoalsCommanded'
    BY <1>5 DEF ReadStates, Switching, NotSwitched, Unread
  <2>4. BackAtRest'
    BY <1>5 DEF ReadStates, Switching, NotSwitched, Unread
  <2>5. ReplyIsTrue'
    BY <1>5 DEF ReadStates, Switching, NotSwitched, Unread
  <2>6. SeededWhereTheyAre'
    BY <1>5 DEF ReadStates, Switching, NotSwitched, Unread
  <2>7. QED
    BY <1>1, <2>1, <2>2, <2>3, <2>4, <2>5, <2>6
<1>6. CASE AskSwitch
  <2>1. GoalsKnown'
    BY <1>6 DEF AskSwitch, Switched, NotSwitched, Hidden
  <2>2. NothingYet'
    BY <1>6 DEF AskSwitch, Switched, NotSwitched, Hidden
  <2>3. GoalsCommanded'
    BY <1>6 DEF AskSwitch, Switched, NotSwitched, Hidden
  <2>4. BackAtRest'
    BY <1>6 DEF AskSwitch, Switched, NotSwitched, Hidden
  <2>5. ReplyIsTrue'
    BY <1>6 DEF AskSwitch, Switched, NotSwitched, Hidden
  <2>6. SeededWhereTheyAre'
    BY <1>6 DEF AskSwitch, Switched, NotSwitched, Hidden
  <2>7. QED
    BY <1>1, <2>1, <2>2, <2>3, <2>4, <2>5, <2>6
<1>7. CASE Confirm
  <2>1. GoalsKnown'
    <3>1. hidden \subseteq hidden'
      BY <1>7 DEF Confirm, Hidden
    <3>2. pc' = "ask" => ~All(controller, to)
      BY <1>7 DEF Confirm, Switching, NotSwitched, Hidden
    <3>3. QED
      BY <1>7, <3>1, <3>2 DEF Confirm
  <2>2. NothingYet'
    BY <1>7 DEF Confirm, Switching, NotSwitched, Hidden
  <2>3. GoalsCommanded'
    BY <1>7 DEF Confirm, Switching, NotSwitched, Hidden
  <2>4. BackAtRest'
    BY <1>7 DEF Confirm, Switching, NotSwitched, Hidden
  <2>5. ReplyIsTrue'
    BY <1>7 DEF Confirm, Switching, NotSwitched, Hidden
  <2>6. SeededWhereTheyAre'
    BY <1>7 DEF Confirm, Switching, NotSwitched, Hidden
  <2>7. QED
    BY <1>1, <2>1, <2>2, <2>3, <2>4, <2>5, <2>6
<1>8. CASE Send("sendL", "l", "sendR")
  <2>1. GoalsKnown'
    BY <1>8 DEF Send, Hidden
  <2>2. NothingYet'
    BY <1>8 DEF Send, Hidden
  <2>3. GoalsCommanded'
    BY <1>8 DEF Send, Hidden
  <2>4. BackAtRest'
    BY <1>8 DEF Send, Hidden
  <2>5. ReplyIsTrue'
    BY <1>8 DEF Send, Hidden
  <2>6. SeededWhereTheyAre'
    BY <1>8 DEF Send, Hidden
  <2>7. QED
    BY <1>1, <2>1, <2>2, <2>3, <2>4, <2>5, <2>6
<1>9. CASE Send("sendR", "r", "wait")
  <2>1. GoalsKnown'
    BY <1>9 DEF Send, Hidden
  <2>2. NothingYet'
    BY <1>9 DEF Send, Hidden
  <2>3. GoalsCommanded'
    BY <1>9 DEF Send, Hidden
  <2>4. BackAtRest'
    BY <1>9 DEF Send, Hidden
  <2>5. ReplyIsTrue'
    BY <1>9 DEF Send, Hidden
  <2>6. SeededWhereTheyAre'
    BY <1>9 DEF Send, Hidden
  <2>7. QED
    BY <1>1, <2>1, <2>2, <2>3, <2>4, <2>5, <2>6
<1>10. CASE Wait
  <2>1. GoalsKnown'
    BY <1>10 DEF Wait
  <2>2. NothingYet'
    BY <1>10 DEF Wait
  <2>3. GoalsCommanded'
    BY <1>10 DEF Wait
  <2>4. BackAtRest'
    BY <1>10 DEF Wait
  <2>5. ReplyIsTrue'
    BY <1>10 DEF Wait
  <2>6. SeededWhereTheyAre'
    BY <1>10 DEF Wait
  <2>7. QED
    BY <1>1, <2>1, <2>2, <2>3, <2>4, <2>5, <2>6
<1>11. CASE After
  <2>1. GoalsKnown'
    BY <1>11 DEF After, Remeasured, Hidden
  <2>2. NothingYet'
    BY <1>11 DEF After, Remeasured, Hidden
  <2>3. GoalsCommanded'
    BY <1>11 DEF After, Remeasured, Hidden
  <2>4. BackAtRest'
    BY <1>11 DEF After, Remeasured, Hidden
  <2>5. ReplyIsTrue'
    BY <1>11 DEF After, Remeasured, Hidden
  <2>6. SeededWhereTheyAre'
    BY <1>11 DEF After, Remeasured, Hidden
  <2>7. QED
    BY <1>1, <2>1, <2>2, <2>3, <2>4, <2>5, <2>6
<1>12. CASE Recover
  <2>1. GoalsKnown'
    BY <1>12 DEF Recover, Hidden
  <2>2. NothingYet'
    BY <1>12 DEF Recover, Hidden
  <2>3. GoalsCommanded'
    BY <1>12 DEF Recover, Hidden
  <2>4. BackAtRest'
    BY <1>12 DEF Recover, Hidden
  <2>5. ReplyIsTrue'
    BY <1>12 DEF Recover, Hidden
  <2>6. SeededWhereTheyAre'
    BY <1>12 DEF Recover, Hidden
  <2>7. QED
    BY <1>1, <2>1, <2>2, <2>3, <2>4, <2>5, <2>6
<1>13. CASE MeasureAgain
  <2>1. GoalsKnown'
    BY <1>13 DEF MeasureAgain, Remeasured, Hidden
  <2>2. NothingYet'
    BY <1>13 DEF MeasureAgain, Remeasured, Hidden
  <2>3. GoalsCommanded'
    BY <1>13 DEF MeasureAgain, Remeasured, Hidden
  <2>4. BackAtRest'
    BY <1>13 DEF MeasureAgain, Remeasured, Hidden
  <2>5. ReplyIsTrue'
    BY <1>13 DEF MeasureAgain, Remeasured, Hidden
  <2>6. SeededWhereTheyAre'
    BY <1>13 DEF MeasureAgain, Remeasured, Hidden
  <2>7. QED
    BY <1>1, <2>1, <2>2, <2>3, <2>4, <2>5, <2>6
<1>14. CASE Seed
  <2>1. GoalsKnown'
    BY <1>14 DEF Seed
  <2>2. NothingYet'
    BY <1>14 DEF Seed
  <2>3. GoalsCommanded'
    BY <1>14 DEF Seed
  <2>4. BackAtRest'
    BY <1>14 DEF Seed
  <2>5. ReplyIsTrue'
    BY <1>14 DEF Seed
  <2>6. SeededWhereTheyAre'
    BY <1>14 DEF Seed
  <2>7. QED
    BY <1>1, <2>1, <2>2, <2>3, <2>4, <2>5, <2>6
<1>15. CASE Raise
  <2>1. GoalsKnown'
    BY <1>15 DEF Raise, RaisePast, RaiseInTry, RaiseHandingBack, Unread
  <2>2. NothingYet'
    BY <1>15 DEF Raise, RaisePast, RaiseInTry, RaiseHandingBack, Unread
  <2>3. GoalsCommanded'
    BY <1>15 DEF Raise, RaisePast, RaiseInTry, RaiseHandingBack, Unread
  <2>4. BackAtRest'
    BY <1>15 DEF Raise, RaisePast, RaiseInTry, RaiseHandingBack, Unread
  <2>5. ReplyIsTrue'
    BY <1>15 DEF Raise, RaisePast, RaiseInTry, RaiseHandingBack, Unread
  <2>6. SeededWhereTheyAre'
    BY <1>15 DEF Raise, RaisePast, RaiseInTry, RaiseHandingBack, Unread
  <2>7. QED
    BY <1>1, <2>1, <2>2, <2>3, <2>4, <2>5, <2>6
<1>16. ASSUME NEW s \in Sides, ArmMoves(s) PROVE RunInv'
  <2>1. GoalsKnown'
    BY <1>16 DEF ArmMoves
  <2>2. NothingYet'
    BY <1>16 DEF ArmMoves
  <2>3. GoalsCommanded'
    BY <1>16 DEF ArmMoves
  <2>4. BackAtRest'
    BY <1>16 DEF ArmMoves
  <2>5. ReplyIsTrue'
    BY <1>16 DEF ArmMoves
  <2>6. SeededWhereTheyAre'
    BY <1>16 DEF ArmMoves
  <2>7. QED
    BY <1>1, <2>1, <2>2, <2>3, <2>4, <2>5, <2>6
<1>17. CASE UNCHANGED vars
  BY <1>1, <1>17 DEF vars
<1>18. QED
  BY <1>2, <1>3, <1>4, <1>5, <1>6, <1>7, <1>8, <1>9, <1>10, <1>11, <1>12, <1>13, <1>14, <1>15, <1>16, <1>17 DEF Next

(* The run's invariant holds of every run.                                 *)
THEOREM RunsKeep == Spec => []RunInv
<1>1. Init => RunInv
  <2>1. Init => TypeOK
    BY TypeInit
  <2>2. QED
    BY <2>1 DEF Init, RunInv, GoalsKnown, NothingYet, GoalsCommanded, BackAtRest,
                ReplyIsTrue, SeededWhereTheyAre, All, Resting, AtStart, Early, OnItsWay,
                HandingBack, Moving, Sides, Controllers
<1>2. RunInv /\ [Next]_vars => RunInv'
  BY RunStep
<1>3. QED
  BY <1>1, <1>2, PTL DEF Spec

(* A run says truly where it left the arms, whatever was refused, timed out*)
(* or raised; of what a fault hid from it, it says no more than it saw.    *)
THEOREM RepliesAreTrue == Spec => []ReplyIsTrue
<1>1. RunInv => ReplyIsTrue
  BY DEF RunInv
<1>2. QED
  BY <1>1, RunsKeep, PTL

(* A run that can see where the arms are never hands one back seeded with  *)
(* where it is not.                                                        *)
THEOREM NoJump == Spec => []SeededWhereTheyAre
<1>1. RunInv => SeededWhereTheyAre
  BY DEF RunInv
<1>2. QED
  BY <1>1, RunsKeep, PTL
=============================================================================
