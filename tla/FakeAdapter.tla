---------------------------- MODULE FakeAdapter ----------------------------
(***************************************************************************)
(* fake.py: the robot that --fake serves, which exists in memory only.     *)
(* Each verb is a function from the robot, and the body it was called with,*)
(* to the robot it leaves and whether it did as it was asked.              *)
(***************************************************************************)
EXTENDS Verbs, Naturals

CONSTANT Slug     \* the name of an episode, by how many its dataset had

Classes  == {"mode", "severing", "motion", "tuning", "unknown"}
Modes    == {"idle", "teleop"}
Settings == Modes \cup {"odd"}
Poses    == {"board-1", "home"}

(* "" stands for None.                                                     *)
FakeInit ==
  [ mode |-> "idle", running |-> FALSE, recording |-> "", episode |-> "",
    pinned |-> "", collecting |-> FALSE, debug |-> FALSE, takes |-> <<>>,
    posed |-> <<>>, config |-> [k \in Classes |-> "idle"], pending |-> "" ]

Does(robot)    == [ok |-> TRUE, robot |-> robot]
Refuses(robot) == [ok |-> FALSE, robot |-> robot]

-----------------------------------------------------------------------------
(* What is written by class: only the last severing value is kept for a    *)
(* rollback.                                                               *)
Written(robot, key, value) ==
  [ robot EXCEPT
      !.config[key] = value,
      !.mode    = IF key = "mode" THEN value ELSE @,
      !.pending = IF key = "severing" THEN robot.config[key] ELSE @ ]

ConfigWrite(robot, key, value) ==
  IF \/ key \notin Classes \ {"unknown"}
     \/ key = "motion" /\ robot.running
     \/ key = "mode" /\ value \notin Modes
  THEN Refuses(robot)
  ELSE Does(Written(robot, key, value))

ConfigRollback(robot) ==
  IF robot.pending = "" THEN Refuses(robot)
  ELSE Does([robot EXCEPT !.config["severing"] = robot.pending, !.pending = ""])

Session(robot, action, dataset) ==
  CASE action = "get" -> Does(robot)
    [] action # "get" /\ robot.recording # "" -> Refuses(robot)
    [] OTHER -> Does([robot EXCEPT !.pinned = IF action = "set" THEN dataset ELSE ""])

(* An episode is named by the number of those its dataset had.             *)
Takes(robot, dataset) == IF dataset \in DOMAIN robot.takes THEN robot.takes[dataset] ELSE 0

Counted(robot, dataset) ==
  [ d \in DOMAIN robot.takes \cup {dataset} |->
      IF d = dataset THEN Takes(robot, d) + 1 ELSE robot.takes[d] ]

(* Mutant: a take that is started has no name yet.                         *)
StartedBare(robot, dataset) ==
  [ robot EXCEPT !.recording = dataset, !.takes = Counted(robot, dataset) ]

Started(robot, dataset) ==
  [ robot EXCEPT !.recording = dataset,
                 !.episode   = Slug[Takes(robot, dataset)],
                 !.takes     = Counted(robot, dataset) ]

Record(robot, body) ==
  LET starts == Action(body, "") = "start"
      other  == Given(body, "episode") /\ Field(body, "episode") # robot.episode
  IN  IF \/ Given(body, "task")
         \/ starts /\ robot.recording # ""
         \/ ~starts /\ (other \/ robot.recording = "")
      THEN Refuses(robot)
      ELSE Does(IF starts THEN Started(robot, Field(body, "dataset"))
                          ELSE [robot EXCEPT !.recording = "", !.episode = ""])

(* Nothing moves: the pose that was asked for is kept.                     *)
Pose(robot, action, name) ==
  LET target == IF action = "home" THEN "home" ELSE name
  IN  CASE action = "list" -> Does(robot)
        [] action # "list" /\ target \notin Poses -> Refuses(robot)
        [] OTHER -> Does([robot EXCEPT !.posed = <<action, target>>])

Collect(robot, action) ==
  CASE action = "start" /\ robot.collecting -> Refuses(robot)
    [] action = "status" -> Does(robot)
    [] OTHER -> Does([robot EXCEPT !.collecting = action = "start"])

(* The take's name is kept.                                                *)
Stop(robot) == Does([robot EXCEPT !.recording = "", !.mode = "idle"])

(* The adapter's set_mode takes one argument and is given two.             *)
Raises(verb) == verb = "mode"

(* The call answer makes, by verb.                                         *)
Called(robot, verb, body) ==
  LET action(default) == Action(body, default)
  IN  CASE verb = "up"      -> Does([robot EXCEPT !.running = TRUE])
        [] verb = "down"    -> Does([robot EXCEPT !.running = FALSE])
        [] verb = "stop"    -> Stop(robot)
        [] verb = "record"  -> Record(robot, body)
        [] verb = "session" -> Session(robot, action("get"), Field(body, "dataset"))
        [] verb = "pose"    -> Pose(robot, action("list"), Field(body, "name"))
        [] verb = "collect" -> Collect(robot, action("status"))
        [] verb = "perception_debug" ->
             Does([robot EXCEPT !.debug = Field(body, "enabled") = "true"])
        [] verb = "config" ->
             CASE action("") = "set" -> ConfigWrite(robot, body["key"], body["value"])
               [] action("") = "rollback" -> ConfigRollback(robot)
               [] OTHER -> Does(robot)
        [] OTHER -> Does(robot)
=============================================================================
