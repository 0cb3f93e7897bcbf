------------------------------- MODULE Fleet -------------------------------
(***************************************************************************)
(* client.py, service.py and the fabric between them: callers query agents *)
(* that each serve one robot, here the one of fake.py, whose adapter may   *)
(* fail as a real one does.  A query reaches the agents that serve its key *)
(* when it is made; an agent or a reply can be lost on the way, and a      *)
(* caller gives up at its timeout.                                         *)
(***************************************************************************)
EXTENDS FakeAdapter, FiniteSets

CONSTANTS
  Operators,      \* who types `fm robot'
  Others,         \* who queries the fabric by other means
  Typed,          \* bound: what is typed
  Raw,            \* bound: what else is queried
  MaxTakes,       \* bound: takes per robot
  MaxCrashes      \* bound: agents that end, all together

ASSUME FleetAssumption ==
  /\ Operators \cap Others = {}
  /\ \A line \in Typed \cup Raw : DOMAIN line = {"to", "verb", "body"}
  /\ MaxTakes \in Nat /\ MaxCrashes \in Nat
  /\ \A n \in 0..MaxTakes : Slug[n] # ""

(* The parser: a verb is one of a list, `list' asks for a status, and a    *)
(* setting is typed as KEY=VALUE.                                          *)
ASSUME TypedAssumption ==
  \A line \in Typed :
    /\ line.verb \in AllVerbs
    /\ line.to = Everyone => line.verb = "status"
    /\ line.verb = "config" /\ "key" \in DOMAIN line.body => "value" \in DOMAIN line.body

Callers == Operators \cup Others

VARIABLES
  robot,          \* each robot
  up,             \* the robots whose agent serves
  crashes,
  typed,          \* what each operator typed
  query,          \* what each caller asked last
  due,            \* the agents that have it and have not answered it
  flying,         \* the replies on their way
  got,            \* the replies that arrived in time
  exit,           \* what the caller ended with, "" while it waits
  changed,        \* history: the robots a query has changed
  did             \* history: the robots that did as it asked

calling == <<typed, query, due, flying, got, exit, changed, did>>
vars    == <<robot, up, crashes, calling>>

(* A robot that declines, or that cannot read what it was sent, does       *)
(* nothing; one whose adapter failed may have done anything; and "late" is *)
(* what the fabric replies in place of whoever has not.                    *)
Refusals == {"declined", "refused", "unknown"}
Kinds    == Refusals \cup {"ok", "failed", "late"}
Replies  == [from : Robots \cup {""}, kind : Kinds]

Exits    == {"none", "", "0", "1", "2", "3"}

Nothing == [to |-> Everyone, verb |-> "status", body |-> <<>>]

-----------------------------------------------------------------------------
(* The client.                                                             *)

(* build_payload: the fields of a body, from what was typed.               *)
Payload(verb, args) ==
  LET given(fields) == {f \in fields : Given(args, f)}
      body(fields, default) ==
        [f \in fields |-> IF f = "action" THEN Action(args, default) ELSE Field(args, f)]
  IN  CASE verb = "mode"    -> body({"value"} \cup given({"args"}), "")
        [] verb = "config"  -> body({"action"} \cup (IF Action(args, "get") = "set"
                                                    THEN {"key", "value"} ELSE {}), "get")
        [] verb = "record"  -> body({"action", "dataset"} \cup given({"task", "note", "episode"}), "start")
        [] verb = "session" -> body({"action"} \cup given({"dataset"}), "get")
        [] verb = "pose"    -> body({"action"} \cup given({"name"}), "list")
        [] verb = "collect" ->
             body({"action"} \cup given({"object", "no_record"})
                             \cup (StartNumbers \cap DOMAIN args), "status")
        [] verb = "perception_debug" -> [enabled |-> IF args["enabled"] = "on" THEN "true" ELSE "false"]
        [] verb = "episodes" -> body({"dataset"}, "")
        [] OTHER -> <<>>

(* Mutant: what belongs to a collect start is not looked at.               *)
UsageLoose(verb, args) ==
  CASE verb = "mode"     -> Given(args, "value")
    [] verb = "config"   -> Action(args, "get") \in {"get", "rollback"} \/ "key" \in DOMAIN args
    [] verb = "record" \/ verb = "episodes" -> Given(args, "dataset")
    [] verb = "session"  -> Action(args, "get") \in {"get", "clear"} \/ Given(args, "dataset")
    [] verb = "collect"  -> Action(args, "status") \in {"start", "stop", "status"}
    [] OTHER -> TRUE

(* What main accepts of what was typed, before it opens a session.         *)
Usage(verb, args) ==
  CASE verb = "mode"     -> Given(args, "value")
    [] verb = "config"   -> \/ Action(args, "get") \in {"get", "rollback"}
                            \/ Action(args, "get") = "set" /\ "key" \in DOMAIN args
    [] verb = "record" \/ verb = "episodes" -> Given(args, "dataset")
    [] verb = "session"  -> \/ Action(args, "get") \in {"get", "clear"}
                            \/ Action(args, "get") = "set" /\ Given(args, "dataset")
    [] verb = "perception_debug" -> Field(args, "enabled") \in {"on", "off"}
    [] verb = "collect"  -> \/ Action(args, "status") = "start" /\ Given(args, "object")
                            \/ /\ Action(args, "status") \in {"stop", "status"}
                               /\ ~Given(args, "object") /\ ~Given(args, "no_record")
                               /\ StartNumbers \cap DOMAIN args = {}
    [] OTHER -> TRUE

(* Mutant: no reply at all is every reply being well.                      *)
ExitOfAll(to, replies) ==
  IF to = Everyone \/ \A r \in replies : r.kind = "ok" THEN "0" ELSE "1"

(* A list is well however the robots answer.                               *)
ExitOf(to, replies) ==
  IF to = Everyone THEN "0"
  ELSE IF replies = {} THEN "3"
  ELSE IF \A r \in replies : r.kind = "ok" THEN "0" ELSE "1"

-----------------------------------------------------------------------------
Init ==
  /\ robot = [r \in Robots |-> FakeInit]
  /\ up = Robots
  /\ crashes = 0
  /\ typed = [c \in Callers |-> Nothing]
  /\ query = [c \in Callers |-> Nothing]
  /\ due = [c \in Callers |-> {}]
  /\ flying = [c \in Callers |-> {}]
  /\ got = [c \in Callers |-> {}]
  /\ exit = [c \in Callers |-> "none"]
  /\ changed = [c \in Callers |-> {}]
  /\ did = [c \in Callers |-> {}]

-----------------------------------------------------------------------------
(* The agents that serve a key.                                            *)
Serving(q) == {r \in up : q.to \in {r, Everyone}}

Asks(c, q) ==
  /\ query' = [query EXCEPT ![c] = q]
  /\ due' = [due EXCEPT ![c] = Serving(q)]
  /\ exit' = [exit EXCEPT ![c] = ""]

(* A caller is done with its last query when nobody has it any more.       *)
Begins(c) ==
  /\ exit[c] # ""
  /\ due[c] = {} /\ flying[c] = {}
  /\ got' = [got EXCEPT ![c] = {}]
  /\ changed' = [changed EXCEPT ![c] = {}]
  /\ did' = [did EXCEPT ![c] = {}]
  /\ UNCHANGED <<robot, up, crashes, flying>>

(* An operator types a command, which is refused there or sent.            *)
Type(c) ==
  /\ c \in Operators
  /\ Begins(c)
  /\ \E line \in Typed :
       /\ typed' = [typed EXCEPT ![c] = line]
       /\ IF Usage(line.verb, line.body)
          THEN Asks(c, [line EXCEPT !.body = Payload(line.verb, line.body)])
          ELSE exit' = [exit EXCEPT ![c] = "2"] /\ UNCHANGED <<query, due>>

Send(c) ==
  /\ c \in Others
  /\ Begins(c)
  /\ \E q \in Raw : Asks(c, q)
  /\ UNCHANGED typed

-----------------------------------------------------------------------------
(* An agent's handler.                                                     *)

Reply(r, kind) == [from |-> r, kind |-> kind]

(* Nothing is on its way to a caller that is gone.                         *)
Answers(r, c, kind) ==
  flying' = [flying EXCEPT ![c] = IF exit[c] = "" THEN @ \cup {Reply(r, kind)} ELSE @]

(* A key that is not the robot's, and a body that is not the verb's.       *)
Refuse(r, c) ==
  LET q == query[c] verb == VerbOf(q, r)
  IN  /\ \/ verb = "none" /\ Answers(r, c, "unknown")
         \/ verb # "none" /\ ~WellFormed(verb, q.body) /\ Answers(r, c, "refused")
      /\ UNCHANGED <<robot, changed, did>>

Serve(r, c) ==
  LET q == query[c] verb == VerbOf(q, r)
      outcome == Called(robot[r], verb, q.body)
  IN  /\ verb # "none" /\ WellFormed(verb, q.body) /\ ~Raises(verb)
      /\ \A d \in DOMAIN outcome.robot.takes : outcome.robot.takes[d] <= MaxTakes
      /\ Answers(r, c, IF outcome.ok THEN "ok" ELSE "declined")
      /\ robot' = [robot EXCEPT ![r] = outcome.robot]
      /\ changed' = [changed EXCEPT ![c] = IF outcome.robot = robot[r] THEN @ ELSE @ \cup {r}]
      /\ did' = [did EXCEPT ![c] = IF outcome.ok THEN @ \cup {r} ELSE @]

(* AdapterError: of a description that is not there and of a calibration   *)
(* that is not armed, and of a real robot at any verb, before or after what*)
(* it was to change.                                                       *)
Fail(r, c) ==
  LET q == query[c] verb == VerbOf(q, r)
      outcome == Called(robot[r], verb, q.body)
  IN  /\ verb # "none" /\ WellFormed(verb, q.body) /\ ~Raises(verb)
      /\ \A d \in DOMAIN outcome.robot.takes : outcome.robot.takes[d] <= MaxTakes
      /\ Answers(r, c, "failed")
      /\ \/ UNCHANGED <<robot, changed>>
         \/ /\ outcome.robot # robot[r]
            /\ robot' = [robot EXCEPT ![r] = outcome.robot]
            /\ changed' = [changed EXCEPT ![c] = @ \cup {r}]
      /\ UNCHANGED did

(* What is not an AdapterError leaves the query without a reply.           *)
Drop(r, c) ==
  /\ VerbOf(query[c], r) # "none" /\ Raises(VerbOf(query[c], r))
  /\ WellFormed(VerbOf(query[c], r), query[c].body)
  /\ UNCHANGED <<robot, flying, changed, did>>

Handle(r, c) ==
  /\ r \in due[c]
  /\ due' = [due EXCEPT ![c] = @ \ {r}]
  /\ Refuse(r, c) \/ Serve(r, c) \/ Fail(r, c) \/ Drop(r, c)
  /\ UNCHANGED <<up, crashes, typed, query, got, exit>>

-----------------------------------------------------------------------------
(* The fabric.                                                             *)

Arrive(c) ==
  /\ \E reply \in flying[c] :
       /\ flying' = [flying EXCEPT ![c] = @ \ {reply}]
       /\ got' = [got EXCEPT ![c] = @ \cup {reply}]
  /\ UNCHANGED <<robot, up, crashes, typed, query, due, exit, changed, did>>

(* What the fabric replies to a get at its timeout.                        *)
TimedOut == {[from |-> "", kind |-> "late"]}

(* The replies are all there, the fabric has lost who would send the       *)
(* others, or the timeout is there before them: a query the agent has is   *)
(* carried out all the same.                                               *)
End(c) ==
  /\ exit[c] = ""
  /\ \E late \in {{}, TimedOut} :
       /\ got' = [got EXCEPT ![c] = @ \cup late]
       /\ exit' = [exit EXCEPT ![c] = ExitOf(query[c].to, got[c] \cup late)]
  /\ flying' = [flying EXCEPT ![c] = {}]
  /\ UNCHANGED <<robot, up, crashes, typed, query, due, changed, did>>

(* An agent ends, with the queries and the robot it had; some replies of   *)
(* its own may not have left.                                              *)
Crash(r) ==
  /\ r \in up /\ crashes < MaxCrashes
  /\ up' = up \ {r}
  /\ crashes' = crashes + 1
  /\ robot' = [robot EXCEPT ![r] = FakeInit]
  /\ due' = [c \in Callers |-> due[c] \ {r}]
  /\ flying' \in {flying, [c \in Callers |-> {reply \in flying[c] : reply.from # r}]}
  /\ UNCHANGED <<typed, query, got, exit, changed, did>>

Restart(r) ==
  /\ r \notin up
  /\ up' = up \cup {r}
  /\ UNCHANGED <<robot, crashes, calling>>

Next ==
  \/ \E c \in Callers :
       Type(c) \/ Send(c) \/ Arrive(c) \/ End(c) \/ \E r \in Robots : Handle(r, c)
  \/ \E r \in Robots : Crash(r) \/ Restart(r)

Spec == Init /\ [][Next]_vars

-----------------------------------------------------------------------------
(* Properties.                                                             *)

(* Every variable stays in its type, and a robot that records has named the*)
(* take it records, and runs in a mode it has.                             *)
TypeOK ==
  /\ up \subseteq Robots /\ crashes \in 0..MaxCrashes
  /\ \A c \in Callers :
       /\ due[c] \subseteq Robots /\ flying[c] \subseteq Replies /\ got[c] \subseteq Replies
       /\ exit[c] \in Exits
       /\ did[c] \subseteq Robots /\ changed[c] \subseteq Robots
  /\ \A r \in Robots :
       /\ robot[r].mode \in Modes
       /\ robot[r].recording # "" => robot[r].episode # ""

(* A robot is changed only by a query that names it, whoever asks: no      *)
(* wildcard and no verb of another robot moves it.                         *)
OnlyNamedChanges == \A c \in Callers : \A r \in changed[c] : query[c].to = r

(* The exit code of a command is true of the robot it names.  0: the robot *)
(* did as it was told.  2, or 1 with a refusal of the robot's own: it did  *)
(* not, and is as it was.  1 with the fabric's reply at the timeout or an  *)
(* adapter's failure, and 3, say nothing of the robot: it may have done it,*)
(* or may yet do it.                                                       *)
ExitIsTrue ==
  \A c \in Operators :
    LET to == typed[c].to
    IN  to # Everyone =>
          /\ exit[c] = "0" => to \in did[c]
          /\ \/ exit[c] = "2"
             \/ exit[c] = "1" /\ \E reply \in got[c] : reply.kind \in Refusals
             => to \notin did[c] /\ changed[c] = {}

(* A command the client accepts is one the robot can read, unless a value  *)
(* in it is ill-formed, or it is one whose action the client leaves to the *)
(* robot, or one that has no way to name its asset.                        *)
Excused(line) ==
  \/ \E f \in DOMAIN line.body : line.body[f] \in {"", "bad"}
  \/ line.verb \in {"record", "pose", "asset"}

ClientAgrees ==
  \A c \in Operators : \A reply \in got[c] :
    reply.kind \in {"refused", "unknown"} => Excused(typed[c])

-----------------------------------------------------------------------------
(* The inductive invariants the proofs use.                                *)

Shape ==
  /\ up \subseteq Robots
  /\ DOMAIN query = Callers /\ DOMAIN typed = Callers /\ DOMAIN exit = Callers
  /\ due \in [Callers -> SUBSET Robots]
  /\ flying \in [Callers -> SUBSET Replies]
  /\ got \in [Callers -> SUBSET Replies]
  /\ changed \in [Callers -> SUBSET Robots]
  /\ did \in [Callers -> SUBSET Robots]

(* Who has a command has neither carried it out nor answered it; who has   *)
(* answered it said what it did; and an exit code is that of the replies.  *)
Told(c) ==
  LET to == typed[c].to
      replies == flying[c] \cup got[c]
  IN  /\ exit[c] # "2" => query[c].to = to
      /\ due[c] \subseteq {to}
      /\ exit[c] = "2" => due[c] = {}
      /\ exit[c] = "2" \/ to \in due[c] => did[c] = {} /\ changed[c] = {}
      /\ changed[c] \subseteq {to} /\ did[c] \subseteq {to}
      /\ \A reply \in replies :
           /\ reply.kind = "ok" => to \in did[c]
           /\ reply.kind \in Refusals => to \notin due[c] /\ did[c] = {} /\ changed[c] = {}
      /\ exit[c] # "" => flying[c] = {}
      /\ exit[c] = "0" => got[c] # {} /\ \A reply \in got[c] : reply.kind = "ok"

ToldInv ==
  /\ Shape
  /\ \A c \in Operators : typed[c].to # Everyone => Told(c)

(* A query an agent still has is the command its operator typed, as the    *)
(* client accepted it; and what was refused of it had its excuse.          *)
Asked(c) ==
  /\ \A r \in due[c] :
       /\ typed[c] \in Typed /\ Usage(typed[c].verb, typed[c].body)
       /\ query[c] = [typed[c] EXCEPT !.body = Payload(typed[c].verb, typed[c].body)]
       /\ typed[c].to \in {r, Everyone}
  /\ \A reply \in flying[c] \cup got[c] :
       reply.kind \in {"refused", "unknown"} => Excused(typed[c])

AskedInv == Shape /\ \A c \in Operators : Asked(c)

(* A robot is all there, runs in a mode it has, has counted its takes, and *)
(* has named the one it records.                                           *)
Sound(rob) ==
  /\ DOMAIN rob = DOMAIN FakeInit
  /\ rob.mode \in Modes
  /\ rob.recording # "" => rob.episode # ""
  /\ \A d \in DOMAIN rob.takes : rob.takes[d] \in Nat

RobotsSound ==
  /\ DOMAIN robot = Robots
  /\ \A r \in Robots : Sound(robot[r])
=============================================================================
