---------------------------- MODULE So101Stack ----------------------------
(***************************************************************************)
(* so101.py and the thread of service.main that hosts it: the agent starts *)
(* the stack that drives an SO-101 pair as a child process, ends it, and   *)
(* passes mode, record and stop on to it.  A fabric call and the start-up  *)
(* or shut-down of the agent can be answered at the same time.             *)
(***************************************************************************)
CONSTANTS
  Handlers,       \* fabric calls that can be in progress at the same time
  Main,           \* the thread that starts and ends the agent
  Stacks,         \* bound: child processes alive at the same time
  None

ASSUME So101Assumption == Main \notin Handlers /\ None \notin Stacks

Threads == Handlers \cup {Main}

VARIABLES
  proc,           \* each child: gone, connecting to the arms, or serving
  asked,          \* the children that were asked to end
  stack,          \* So101Adapter._stack: the child the agent remembers
  alien,          \* whether a stack that somebody started by hand serves
  mode,           \* what the serving stack does with the arms
  pc,             \* where each call is
  awaited,        \* the child a call waits for
  calm,           \* history: calls came one at a time, no stack was too slow,
                  \* and none started by hand was taken for the agent's own
  overtaken,      \* history: calls whose child was replaced between the kill
                  \* and the wait that follows it
  said            \* history: the last answer, until the next call begins

robot == <<proc, asked, alien, mode>>
vars  == <<proc, asked, stack, alien, mode, pc, awaited, calm, overtaken, said>>

Modes   == {"idle", "teleop", "recording"}
Answers == {"none", "upTrue", "upFalse", "downTrue", "downFalse",
            "other", "raised"}
Steps   == {"idle", "probe", "spawn", "poll", "reach", "check", "probeDown",
            "terminate", "await", "wait", "kill", "awaitKilled", "waitKilled",
            "post", "over"}

-----------------------------------------------------------------------------
(* Helpers.                                                                *)

Alive   == {s \in Stacks : proc[s] # "gone"}
Serves  == alien \/ \E s \in Stacks : proc[s] = "serving"
Exited  == stack \notin Alive

GoTo(t, step) == pc' = [pc EXCEPT ![t] = step]

(* The main thread goes on to wait for its signal, or ends the agent, which*)
(* an exception does too.                                                  *)
Answer(t, answer) ==
  /\ GoTo(t, IF t = Main /\ answer \in {"downTrue", "downFalse", "raised"}
              THEN "over" ELSE "idle")
  /\ said' = answer
  /\ overtaken' = overtaken \ {t}
  /\ awaited' = [awaited EXCEPT ![t] = None]

(* A thread is at a step, and the main thread has not ended the agent.     *)
At(t, step) == pc[t] = step /\ pc[Main] # "over"

(* _reachable: a stack that serves is found, or is too slow to be found.   *)
Reachable(found, own) ==
  /\ found => Serves
  /\ calm' = (calm /\ found = Serves /\ (found => own))

(* A child is gone, and the arms are limp if it held them.                 *)
Ends(s) ==
  /\ proc' = [proc EXCEPT ![s] = "gone"]
  /\ asked' = asked \ {s}
  /\ mode' = (IF proc[s] = "serving" THEN "idle" ELSE mode)

-----------------------------------------------------------------------------
(* The start-up brings the stack up while the fabric is already served.    *)
Init ==
  /\ proc = [s \in Stacks |-> "gone"]
  /\ asked = {}
  /\ stack = None
  /\ alien \in BOOLEAN
  /\ mode \in IF alien THEN Modes ELSE {"idle"}
  /\ pc = [t \in Threads |-> IF t = Main THEN "probe" ELSE "idle"]
  /\ awaited = [t \in Threads |-> None]
  /\ calm = TRUE
  /\ overtaken = {}
  /\ said = "none"

-----------------------------------------------------------------------------
(* The calls.                                                              *)

(* A handler takes a call; the main thread is signalled to bring the stack *)
(* down.                                                                   *)
Begin(t, step) ==
  /\ At(t, "idle")
  /\ t = Main => step = "check"
  /\ GoTo(t, step)
  /\ calm' = (calm /\ \A u \in Threads : pc[u] = "idle")
  /\ said' = "none"
  /\ UNCHANGED <<robot, stack, awaited, overtaken>>

Call(t) == \E step \in {"probe", "check", "post"} : Begin(t, step)

(* Mutant: up starts a stack without asking whether one answers.           *)
ProbeNothing(t) ==
  /\ At(t, "probe")
  /\ GoTo(t, "spawn")
  /\ UNCHANGED <<robot, stack, awaited, calm, overtaken, said>>

(* up: a stack that answers is left alone.                                 *)
Probe(t) ==
  /\ At(t, "probe")
  /\ \E found \in BOOLEAN :
       /\ Reachable(found, TRUE)
       /\ IF found THEN Answer(t, "upTrue")
                   ELSE GoTo(t, "spawn") /\ UNCHANGED <<awaited, overtaken, said>>
  /\ UNCHANGED <<robot, stack>>

(* A child replaces the one the agent remembered, whatever became of it.   *)
Spawn(t) ==
  /\ At(t, "spawn")
  /\ \E s \in Stacks \ Alive :
       /\ \A u \in Threads : awaited[u] # s
       /\ proc' = [proc EXCEPT ![s] = "connecting"]
       /\ stack' = s
  /\ overtaken' = overtaken \cup {u \in Threads : pc[u] = "awaitKilled"}
  /\ GoTo(t, "poll")
  /\ UNCHANGED <<asked, alien, mode, awaited, calm, said>>

(* The log cannot be opened or the command cannot be run: nothing started, *)
(* and the exception leaves the call, of which a fabric caller hears no    *)
(* answer.  The start-up's ends the agent.                                 *)
SpawnFails(t) ==
  /\ At(t, "spawn")
  /\ Answer(t, "raised")
  /\ UNCHANGED <<robot, stack, calm>>

Poll(t) ==
  /\ At(t, "poll")
  /\ IF Exited THEN Answer(t, "upFalse")
               ELSE GoTo(t, "reach") /\ UNCHANGED <<awaited, overtaken, said>>
  /\ UNCHANGED <<robot, stack, calm>>

Reach(t) ==
  /\ At(t, "reach")
  /\ \E found \in BOOLEAN :
       /\ Reachable(found, ~alien)
       /\ IF found THEN Answer(t, "upTrue")
                   ELSE GoTo(t, "poll") /\ UNCHANGED <<awaited, overtaken, said>>
  /\ UNCHANGED <<robot, stack>>

(* Its 30 seconds are over: the child is left as it is.                    *)
GiveUp(t) ==
  /\ At(t, "poll")
  /\ Answer(t, "upFalse")
  /\ calm' = (calm /\ Exited)
  /\ UNCHANGED <<robot, stack>>

(* down: without a child of its own the agent says what it can reach.      *)
Check(t) ==
  /\ At(t, "check")
  /\ GoTo(t, IF Exited THEN "probeDown" ELSE "terminate")
  /\ UNCHANGED <<robot, stack, awaited, calm, overtaken, said>>

ProbeDown(t) ==
  /\ At(t, "probeDown")
  /\ \E found \in BOOLEAN :
       /\ Reachable(found, TRUE)
       /\ Answer(t, IF found THEN "downFalse" ELSE "downTrue")
  /\ UNCHANGED <<robot, stack>>

(* Mutant: a child that was asked to end is not waited for.                *)
TerminateOnly(t) ==
  /\ At(t, "terminate")
  /\ asked' = asked \cup ({stack} \cap Alive)
  /\ Answer(t, "downTrue")
  /\ UNCHANGED <<proc, alien, mode, stack, calm>>

(* Every use of self._stack reads it again.                                *)
Terminate(t) ==
  /\ At(t, "terminate")
  /\ asked' = asked \cup ({stack} \cap Alive)
  /\ GoTo(t, "await")
  /\ UNCHANGED <<proc, alien, mode, stack, awaited, calm, overtaken, said>>

(* Each wait is for the child the agent remembers when it begins.          *)
Await(t) ==
  /\ awaited' = [awaited EXCEPT ![t] = stack]
  /\ \/ At(t, "await") /\ GoTo(t, "wait")
     \/ At(t, "awaitKilled") /\ GoTo(t, "waitKilled")
  /\ UNCHANGED <<robot, stack, calm, overtaken, said>>

(* Ten seconds at most, and then without a limit.                          *)
Wait(t) ==
  /\ At(t, "wait") \/ At(t, "waitKilled")
  /\ awaited[t] \notin Alive
  /\ Answer(t, "downTrue")
  /\ UNCHANGED <<robot, stack, calm>>

WaitNoLonger(t) ==
  /\ At(t, "wait")
  /\ awaited[t] \in Alive
  /\ GoTo(t, "kill")
  /\ UNCHANGED <<robot, stack, awaited, calm, overtaken, said>>

(* Mutant: a stubborn child is waited for, and never killed.               *)
KillNothing(t) ==
  /\ At(t, "kill")
  /\ GoTo(t, "awaitKilled")
  /\ UNCHANGED <<robot, stack, awaited, calm, overtaken, said>>

Kill(t) ==
  /\ At(t, "kill")
  /\ IF Exited THEN UNCHANGED <<proc, asked, mode>> ELSE Ends(stack)
  /\ GoTo(t, "awaitKilled")
  /\ UNCHANGED <<alien, stack, awaited, calm, overtaken, said>>

(* set_mode, record and stop: one request, done or refused or unanswered,  *)
(* and done all the same.                                                  *)
Post(t) ==
  /\ At(t, "post")
  /\ mode' \in (IF Serves THEN Modes ELSE {mode})
  /\ Answer(t, "other")
  /\ UNCHANGED <<proc, asked, alien, stack, calm>>

-----------------------------------------------------------------------------
(* The children, and the stack of somebody else.  One that finds the port  *)
(* or the arms taken exits.                                                *)

Connect(s) ==
  /\ proc[s] = "connecting"
  /\ ~Serves
  /\ proc' = [proc EXCEPT ![s] = "serving"]
  /\ UNCHANGED <<asked, stack, alien, mode, pc, awaited, calm, overtaken, said>>

(* A child fails, or ends as it was asked to.                              *)
Exit(s) ==
  /\ s \in Alive
  /\ Ends(s)
  /\ UNCHANGED <<stack, alien, pc, awaited, calm, overtaken, said>>

(* Somebody starts a stack while none serves, or ends it.                  *)
ByHand ==
  /\ alien \/ ~Serves
  /\ alien' = ~alien
  /\ mode' = "idle"
  /\ UNCHANGED <<proc, asked, stack, pc, awaited, calm, overtaken, said>>

-----------------------------------------------------------------------------
Step(t) ==
  \/ Probe(t) \/ Spawn(t) \/ SpawnFails(t) \/ Poll(t) \/ Reach(t) \/ GiveUp(t)
  \/ Check(t) \/ ProbeDown(t) \/ Terminate(t) \/ Await(t) \/ Wait(t)
  \/ WaitNoLonger(t) \/ Kill(t) \/ Post(t)

Next ==
  \/ \E t \in Threads : Call(t) \/ Step(t)
  \/ \E s \in Stacks : Connect(s) \/ Exit(s)
  \/ ByHand

Spec == Init /\ [][Next]_vars

(* A thread goes on, and the 30 seconds of up end.  Nothing is assumed of  *)
(* the children: a stack may neither connect nor end when it is asked to.  *)
Fairness ==
  \A t \in Threads :
    /\ WF_vars(Step(t))
    /\ SF_vars(GiveUp(t))

FairSpec == Spec /\ Fairness

-----------------------------------------------------------------------------
(* Properties.                                                             *)

(* Every variable stays in its type.                                       *)
TypeOK ==
  /\ proc \in [Stacks -> {"gone", "connecting", "serving"}]
  /\ asked \subseteq Stacks
  /\ stack \in Stacks \cup {None}
  /\ alien \in BOOLEAN
  /\ mode \in Modes
  /\ pc \in [Threads -> Steps]
  /\ awaited \in [Threads -> Stacks \cup {None}]
  /\ calm \in BOOLEAN
  /\ overtaken \subseteq Threads
  /\ said \in Answers

(* The agent never has a child it does not remember, and so could not end, *)
(* unless calls overlapped, a stack was too slow for a request or for its  *)
(* start, or one that somebody else started meanwhile answered for it.     *)
OneStack == calm => Alive \subseteq {stack}

(* Then, too, a down that has answered, and an up that failed, have left no*)
(* child of the agent alive, until the next call.                          *)
SaidIsTrue == calm /\ said \in {"downTrue", "downFalse", "upFalse"} => Alive = {}

(* Every call ends, whatever the children and the stack of somebody else   *)
(* do and however calls overlap, as long as the agent runs.  The exception *)
(* is the last wait of down, which has no limit: a start that put a new    *)
(* child in the place of the one just killed is what it then waits for.    *)
CallAnswered ==
  \A t \in Threads :
    pc[t] \notin {"idle", "over"} ~>
      \/ pc[t] \in {"idle", "over"} \/ pc[Main] = "over"
      \/ pc[t] = "waitKilled" /\ t \in overtaken

-----------------------------------------------------------------------------
(* The inductive invariant the proofs use.                                 *)

Quiet == \A t \in Threads : pc[t] \in {"idle", "over"}

(* While the agent is calm one call at a time is in progress, a child is   *)
(* connecting only under the up that started it, and a down waits for the  *)
(* child the agent remembers.                                              *)
Owned ==
  /\ \A t, u \in Threads : pc[t] # "idle" /\ pc[u] # "idle" => t = u
  /\ Alive \subseteq {stack}
  /\ (\E s \in Stacks : proc[s] = "connecting") =>
       \E t \in Threads : pc[t] \in {"poll", "reach"}
  /\ \A t \in Threads :
       /\ pc[t] \in {"spawn", "probeDown"} => Alive = {}
       /\ pc[t] \in {"wait", "waitKilled"} => awaited[t] = stack
  /\ said \in {"downTrue", "downFalse", "upFalse"} => Alive = {} /\ Quiet

(* Every variable stays in its type, and a calm agent owns its children.   *)
StackInv == TypeOK /\ (calm => Owned)
=============================================================================
