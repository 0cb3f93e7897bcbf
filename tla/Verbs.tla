------------------------------- MODULE Verbs -------------------------------
(***************************************************************************)
(* verbs.py: what of a query reaches the robot.  A query is a key (a robot *)
(* or a wildcard, and a verb) and a body.  A body is a function from some  *)
(* field names to values: "" is a value Python takes for false (a zero, an *)
(* empty string, FALSE), "bad" one of a wrong type, length or pattern.     *)
(***************************************************************************)

CONSTANTS
  Robots,
  Everyone        \* the wildcard of a discovery query

ASSUME VerbsAssumption == Everyone \notin Robots

ReadVerbs  == {"status", "episodes"}
NamedReads == {"description", "asset"}
WriteVerbs == {"up", "down", "config", "mode", "record", "stop", "session",
               "collect", "calibration", "pose", "perception_debug"}
AllVerbs   == ReadVerbs \cup NamedReads \cup WriteVerbs

StartNumbers == {"hours", "cycles", "speed"}
StartFields  == StartNumbers \cup {"object", "no_record"}

-----------------------------------------------------------------------------
(* The verb a query names for robot r, or "none" when it is not r's.       *)

(* Mutant: a wildcard is answered whatever its verb.                       *)
VerbOfWide(q, r) ==
  IF q.verb \in AllVerbs /\ q.to \in {r, Everyone} THEN q.verb ELSE "none"

VerbOf(q, r) ==
  IF \/ q.verb \in AllVerbs /\ q.to = r
     \/ q.verb \in ReadVerbs /\ q.to = Everyone
  THEN q.verb ELSE "none"

-----------------------------------------------------------------------------
(* The fields of a body.                                                   *)

Field(body, f) == IF f \in DOMAIN body THEN body[f] ELSE ""
Given(body, f) == Field(body, f) # ""
Good(body, f)  == Field(body, f) \notin {"", "bad"}

(* Absent or well-formed.                                                  *)
Fits(body, f)  == Field(body, f) # "bad"

Action(body, default) == IF Given(body, "action") THEN body["action"] ELSE default

(* What each verb asks of its body before the adapter is called.           *)

ConfigFits(body) ==
  \/ Action(body, "") \in {"get", "rollback"}
  \/ Action(body, "") = "set" /\ Good(body, "key") /\ Good(body, "value")

ModeFits(body) == Good(body, "value") /\ Fits(body, "args")

(* A stop or a status that carries a field of a start, empty or not, is    *)
(* refused, and so is a start with a number that is zero.                  *)
CollectFits(body) ==
  \/ /\ Action(body, "status") \in {"stop", "status"}
     /\ DOMAIN body \cap StartFields = {}
  \/ /\ Action(body, "status") = "start"
     /\ Good(body, "object")
     /\ \A f \in StartNumbers \cap DOMAIN body : Good(body, f)
     /\ Fits(body, "no_record")

PoseFits(body) ==
  \/ Action(body, "list") \in {"plan", "go"} /\ Good(body, "name")
  \/ Action(body, "list") \in {"list", "home"} /\ ~Given(body, "name")

CalibrationFits(body) ==
  \/ Action(body, "get") = "get"
  \/ Action(body, "get") = "set" /\ Good(body, "camera")

DebugFits(body) == DOMAIN body = {"enabled"} /\ Good(body, "enabled")

SessionFits(body) ==
  \/ Action(body, "get") \in {"get", "clear"}
  \/ Action(body, "get") = "set" /\ Good(body, "dataset")

RecordFits(body) ==
  /\ Good(body, "dataset")
  /\ Action(body, "") \in {"start", "stop"}
  /\ Action(body, "") = "start" => ~Given(body, "note") /\ ~Given(body, "episode")
  /\ \A f \in {"task", "note", "episode"} : Fits(body, f)

(* What answer asks of a query before it calls the adapter.                *)
WellFormed(verb, body) ==
  CASE verb = "config"           -> ConfigFits(body)
    [] verb = "mode"             -> ModeFits(body)
    [] verb = "collect"          -> CollectFits(body)
    [] verb = "pose"             -> PoseFits(body)
    [] verb = "calibration"      -> CalibrationFits(body)
    [] verb = "perception_debug" -> DebugFits(body)
    [] verb = "session"          -> SessionFits(body)
    [] verb = "record"           -> RecordFits(body)
    [] verb = "episodes"         -> Good(body, "dataset")
    [] verb = "asset"            -> Good(body, "uri")
    [] OTHER                     -> TRUE
=============================================================================
