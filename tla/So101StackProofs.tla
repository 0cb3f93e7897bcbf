-------------------------- MODULE So101StackProofs -------------------------
(***************************************************************************)
(* For any number of calls and of children: the agent forgets no child it  *)
(* started as long as nothing upsets it, and says truly when none is left. *)
(***************************************************************************)
EXTENDS So101Stack, TLAPS

LEMMA StackInit == Init => StackInv
  BY So101Assumption DEF Init, StackInv, Owned, TypeOK, Quiet, Alive, Threads,
     Modes, Steps, Answers

(* A thread's own step leaves the type invariant.                          *)
LEMMA StackTypeStep == TypeOK /\ [Next]_vars => TypeOK'
<1> SUFFICES ASSUME TypeOK, [Next]_vars PROVE TypeOK'
  OBVIOUS
<1> USE So101Assumption DEF TypeOK, Threads, Modes, Steps, Answers, GoTo, Answer, robot
<1>1. ASSUME NEW t \in Threads, Call(t) PROVE TypeOK'
  BY <1>1 DEF Call, Begin
<1>2. ASSUME NEW t \in Threads, Step(t) PROVE TypeOK'
  <2>1. CASE Probe(t)          BY <2>1 DEF Probe, Reachable
  <2>2. CASE Spawn(t)          BY <2>2 DEF Spawn, Alive
  <2>3. CASE Poll(t)           BY <2>3 DEF Poll
  <2>4. CASE Reach(t)          BY <2>4 DEF Reach, Reachable
  <2>5. CASE GiveUp(t)         BY <2>5 DEF GiveUp
  <2>6. CASE Check(t)          BY <2>6 DEF Check
  <2>7. CASE ProbeDown(t)      BY <2>7 DEF ProbeDown, Reachable
  <2>8. CASE Terminate(t)      BY <2>8 DEF Terminate, Alive
  <2>9. CASE Wait(t)           BY <2>9 DEF Wait
  <2>10. CASE WaitNoLonger(t)  BY <2>10 DEF WaitNoLonger
  <2>11. CASE Kill(t)          BY <2>11 DEF Kill, Ends, Exited, Alive
  <2>12. CASE Await(t)         BY <2>12 DEF Await
  <2>13. CASE Post(t)          BY <2>13 DEF Post
  <2>14. CASE SpawnFails(t)    BY <2>14 DEF SpawnFails
  <2> QED BY <1>2, <2>1, <2>2, <2>3, <2>4, <2>5, <2>6, <2>7, <2>8, <2>9, <2>10,
             <2>11, <2>12, <2>13, <2>14 DEF Step
<1>3. ASSUME NEW s \in Stacks, Connect(s) \/ Exit(s) PROVE TypeOK'
  BY <1>3 DEF Connect, Exit, Ends
<1>4. CASE ByHand
  BY <1>4 DEF ByHand
<1>5. CASE UNCHANGED vars
  BY <1>5 DEF vars
<1> QED BY <1>1, <1>2, <1>3, <1>4, <1>5 DEF Next

LEMMA StackStep == StackInv /\ [Next]_vars => StackInv'
<1> SUFFICES ASSUME StackInv, [Next]_vars, calm' PROVE Owned'
  BY StackTypeStep DEF StackInv
<1>0. TypeOK
  BY DEF StackInv
<1> USE So101Assumption, <1>0 DEF TypeOK, GoTo, Answer, At, robot
<1>1. ASSUME NEW t \in Threads, Call(t) PROVE Owned'
  <2>1. PICK step \in {"probe", "check", "post"} : Begin(t, step)
    BY <1>1 DEF Call
  <2>2. calm /\ Owned /\ \A u \in Threads : pc[u] = "idle"
    BY <2>1 DEF Begin, StackInv
  <2>3. \A u \in Threads : pc'[u] # "idle" => u = t /\ pc'[u] = step
    BY <2>1, <2>2 DEF Begin
  <2>4. said' = "none" /\ UNCHANGED <<proc, stack>>
    BY <2>1 DEF Begin
  <2> QED BY <2>2, <2>3, <2>4 DEF Owned, Alive
<1>2. ASSUME NEW t \in Threads, Step(t) PROVE Owned'
  <2>0. calm /\ Owned
    BY <1>2 DEF Step, Probe, Spawn, SpawnFails, Poll, Reach, GiveUp, Check, ProbeDown,
       Terminate, Wait, WaitNoLonger, Kill, Await, Post, Reachable, StackInv
  <2>1. CASE Probe(t)          BY <2>0, <2>1 DEF Probe, Reachable, Serves, Owned, Alive, Quiet
  <2>2. CASE Spawn(t)          BY <2>0, <2>2 DEF Spawn, Owned, Alive, Quiet
  <2>3. CASE Poll(t)           BY <2>0, <2>3 DEF Poll, Exited, Owned, Alive, Quiet
  <2>4. CASE Reach(t)
    <3>1. PICK found \in BOOLEAN :
            /\ Reachable(found, ~alien)
            /\ IF found THEN Answer(t, "upTrue")
                        ELSE GoTo(t, "poll") /\ UNCHANGED <<awaited, said>>
      BY <2>4 DEF Reach
    <3>2. UNCHANGED <<proc, stack>>
      BY <2>4 DEF Reach
    <3>3. ASSUME found PROVE \A s \in Stacks : proc[s] # "connecting"
      <4>1. ~alien /\ Serves
        BY <3>1, <3>3 DEF Reachable
      <4>2. PICK s \in Stacks : proc[s] = "serving"
        BY <4>1 DEF Serves
      <4> QED BY <2>0, <4>2 DEF Owned, Alive
    <3>4. CASE found
      <4>1. said' = "upTrue" /\ pc' = [pc EXCEPT ![t] = "idle"] /\ UNCHANGED <<proc, stack>>
        BY <3>1, <3>2, <3>4
      <4>2. \A s \in Stacks : proc[s] # "connecting"
        BY <3>3, <3>4
      <4>3. \A u \in Threads : pc'[u] = "idle"
        BY <2>0, <2>4, <4>1 DEF Reach, Owned
      <4> QED BY <2>0, <4>1, <4>2, <4>3 DEF Owned, Alive
    <3>5. CASE ~found
      <4>1. said \notin {"downTrue", "downFalse", "upFalse"}
        BY <2>0, <2>4 DEF Reach, Owned, Quiet
      <4> QED BY <2>0, <2>4, <3>1, <3>2, <3>5, <4>1 DEF Reach, Owned, Alive
    <3> QED BY <3>4, <3>5
  <2>5. CASE GiveUp(t)
    <3>1. Alive = {}
      BY <2>0, <2>5 DEF GiveUp, Exited, Owned
    <3>2. Alive' = {} /\ stack' = stack
      BY <2>5, <3>1 DEF GiveUp, Alive
    <3>3. \A u \in Threads : pc'[u] = "idle"
      BY <2>0, <2>5 DEF GiveUp, Owned
    <3> QED BY <3>2, <3>3 DEF Owned, Quiet, Alive
  <2>6. CASE Check(t)          BY <2>0, <2>6 DEF Check, Exited, Owned, Alive, Quiet
  <2>7. CASE ProbeDown(t)      BY <2>0, <2>7 DEF ProbeDown, Owned, Alive, Quiet
  <2>8. CASE Terminate(t)      BY <2>0, <2>8 DEF Terminate, Owned, Alive, Quiet
  <2>9. CASE Wait(t)           BY <2>0, <2>9 DEF Wait, Owned, Alive, Quiet
  <2>10. CASE WaitNoLonger(t)  BY <2>0, <2>10 DEF WaitNoLonger, Owned, Alive, Quiet
  <2>11. CASE Kill(t)          BY <2>0, <2>11 DEF Kill, Ends, Exited, Owned, Alive, Quiet
  <2>12. CASE Await(t)         BY <2>0, <2>12 DEF Await, Owned, Alive, Quiet
  <2>13. CASE Post(t)          BY <2>0, <2>13 DEF Post, Owned, Alive, Quiet
  <2>14. CASE SpawnFails(t)    BY <2>0, <2>14 DEF SpawnFails, Owned, Alive, Quiet
  <2> QED BY <1>2, <2>1, <2>2, <2>3, <2>4, <2>5, <2>6, <2>7, <2>8, <2>9, <2>10,
             <2>11, <2>12, <2>13, <2>14 DEF Step
<1>3. ASSUME NEW s \in Stacks, Connect(s) PROVE Owned'
  BY <1>3 DEF Connect, StackInv, Owned, Alive, Quiet
<1>4. ASSUME NEW s \in Stacks, Exit(s) PROVE Owned'
  BY <1>4 DEF Exit, Ends, StackInv, Owned, Alive, Quiet
<1>5. CASE ByHand
  BY <1>5 DEF ByHand, StackInv, Owned, Alive, Quiet
<1>6. CASE UNCHANGED vars
  BY <1>6 DEF vars, StackInv, Owned, Alive, Quiet
<1> QED BY <1>1, <1>2, <1>3, <1>4, <1>5, <1>6 DEF Next

(* Every variable stays in its type, for any number of calls and children. *)
THEOREM StackTyped == Spec => []TypeOK
  BY StackInit, StackStep, PTL DEF Spec, StackInv

(* While the agent is calm, one call at a time owns its one child.         *)
THEOREM StackOwned == Spec => []StackInv
  BY StackInit, StackStep, PTL DEF Spec

(* A calm agent never forgets a child it started.                          *)
THEOREM StackNeverForgotten == Spec => []OneStack
<1>1. StackInv => OneStack
  BY DEF StackInv, Owned, OneStack
<1> QED BY <1>1, StackInit, StackStep, PTL DEF Spec

(* What a calm agent says of a down, or of an up that failed, is so.       *)
THEOREM StackSaysTrue == Spec => []SaidIsTrue
<1>1. StackInv => SaidIsTrue
  BY DEF StackInv, Owned, SaidIsTrue
<1> QED BY <1>1, StackInit, StackStep, PTL DEF Spec
=============================================================================
