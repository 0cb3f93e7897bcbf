---------------------------- MODULE FleetProofs ----------------------------
(***************************************************************************)
(* For any number of robots and callers, and whatever they type or query:  *)
(* only a query that names a robot changes it, the exit code of a command  *)
(* is true of its robot, and what the client accepts the robot can read.   *)
(***************************************************************************)
EXTENDS Fleet, TLAPS

-----------------------------------------------------------------------------
(* What a handler does.                                                    *)

LEMMA RepliesAreReplies ==
  ASSUME NEW r \in Robots, NEW kind \in Kinds
  PROVE  /\ Reply(r, kind) \in Replies
         /\ Reply(r, kind).kind = kind
  BY DEF Reply, Replies

(* What the fabric replies at a timeout, if it is there yet.               *)
LEMMA LateIsLate ==
  ASSUME NEW late \in {{}, TimedOut}
  PROVE  late \subseteq Replies /\ \A reply \in late : reply.kind = "late"
<1>1. CASE late = {}
  BY <1>1
<1>2. CASE late = TimedOut
  <2>1. "late" \in Kinds
    BY DEF Kinds
  <2>2. [from |-> "", kind |-> "late"] \in Replies
    BY <2>1 DEF Replies
  <2>3. \A reply \in late : reply = [from |-> "", kind |-> "late"]
    BY <1>2, Zenon DEF TimedOut
  <2>4. late \subseteq Replies
    BY <2>2, <2>3
  <2>5. ASSUME NEW reply \in late PROVE reply.kind = "late"
    <3>1. reply = [from |-> "", kind |-> "late"]
      BY <2>3
    <3>2. [from |-> "", kind |-> "late"].kind = "late"
      OBVIOUS
    <3> QED BY <3>1, <3>2, Zenon
  <2> QED BY <2>4, <2>5
<1> QED BY <1>1, <1>2

(* A wildcard is carried out only for what reads, which leaves the robot.  *)
LEMMA WildcardsRead ==
  ASSUME NEW q, NEW r \in Robots, q.to # r, VerbOf(q, r) # "none", NEW rob, NEW body
  PROVE  Called(rob, VerbOf(q, r), body).robot = rob
<1>1. VerbOf(q, r) \in {"status", "episodes"}
  BY DEF VerbOf, ReadVerbs
<1>2. Called(rob, VerbOf(q, r), body) = Does(rob)
  BY <1>1 DEF Called
<1> QED BY <1>2 DEF Does

(* What an adapter refuses, it leaves as it is.                            *)
Outcome(outcome, rob) ==
  /\ outcome.ok \in BOOLEAN
  /\ ~outcome.ok => outcome.robot = rob

LEMMA OutcomeForms ==
  ASSUME NEW rob
  PROVE  Outcome(Refuses(rob), rob) /\ \A new : Outcome(Does(new), rob)
  BY DEF Outcome, Does, Refuses

LEMMA RefusalsChangeNothing ==
  ASSUME NEW rob, NEW verb, NEW body
  PROVE  Outcome(Called(rob, verb, body), rob)
<1>1. \A key, value : Outcome(ConfigWrite(rob, key, value), rob)
  BY OutcomeForms DEF ConfigWrite
<1>2. Outcome(ConfigRollback(rob), rob)
  BY OutcomeForms DEF ConfigRollback
<1>3. \A action, dataset : Outcome(Session(rob, action, dataset), rob)
  BY OutcomeForms DEF Session
<1>4. Outcome(Record(rob, body), rob)
  BY OutcomeForms DEF Record
<1>5. \A action, name : Outcome(Pose(rob, action, name), rob)
  BY OutcomeForms DEF Pose
<1>6. \A action : Outcome(Collect(rob, action), rob)
  BY OutcomeForms DEF Collect
<1>7. Outcome(Stop(rob), rob)
  BY OutcomeForms DEF Stop
<1> QED
  BY <1>1, <1>2, <1>3, <1>4, <1>5, <1>6, <1>7, OutcomeForms DEF Called

(* The one form of the ways a handler ends: at most one reply, of the      *)
(* robot's own, and what was changed and done.                             *)
Handled(r, c, kind) ==
  /\ flying' = [flying EXCEPT ![c] = IF exit[c] = "" THEN @ \cup {Reply(r, kind)} ELSE @]
  /\ changed' \in {changed, [changed EXCEPT ![c] = @ \cup {r}]}
  /\ did' = (IF kind = "ok" THEN [did EXCEPT ![c] = @ \cup {r}] ELSE did)
  /\ changed' # changed => kind \in {"ok", "failed"} /\ query[c].to = r

LEMMA HandlingForm ==
  ASSUME Shape, NEW c \in Callers, NEW r \in Robots, Handle(r, c)
  PROVE  /\ r \in due[c] /\ due' = [due EXCEPT ![c] = @ \ {r}]
         /\ UNCHANGED <<typed, query, got, exit>>
         /\ \/ UNCHANGED <<flying, changed, did>>
            \/ \E kind \in Kinds : Handled(r, c, kind)
<1>1. did = [did EXCEPT ![c] = @] /\ changed = [changed EXCEPT ![c] = @]
  BY DEF Shape
<1>2. CASE Refuse(r, c)
  <2>1. PICK kind \in {"unknown", "refused"} : Answers(r, c, kind)
    BY <1>2 DEF Refuse
  <2>2. kind \in Kinds /\ Handled(r, c, kind)
    BY <1>2, <2>1 DEF Refuse, Answers, Handled, Kinds, Refusals
  <2> QED BY <2>2 DEF Handle
<1>3. CASE Serve(r, c)
  <2> DEFINE verb == VerbOf(query[c], r)
             outcome == Called(robot[r], verb, query[c].body)
             kind == IF outcome.ok THEN "ok" ELSE "declined"
  <2>1. /\ verb # "none"
        /\ Answers(r, c, kind)
        /\ changed' = [changed EXCEPT ![c] = IF outcome.robot = robot[r] THEN @ ELSE @ \cup {r}]
        /\ did' = [did EXCEPT ![c] = IF outcome.ok THEN @ \cup {r} ELSE @]
    BY <1>3 DEF Serve
  <2>2. outcome.robot # robot[r] => query[c].to = r
    BY <2>1, WildcardsRead
  <2>3. outcome.ok \in BOOLEAN /\ (~outcome.ok => outcome.robot = robot[r])
    BY RefusalsChangeNothing DEF Outcome
  <2> HIDE DEF outcome
  <2>4. kind \in Kinds /\ Handled(r, c, kind)
    BY <1>1, <2>1, <2>2, <2>3 DEF Answers, Handled, Kinds, Refusals
  <2> QED BY <2>4 DEF Handle
<1>4. CASE Drop(r, c)
  BY <1>4 DEF Handle, Drop
<1>5. CASE Fail(r, c)
  <2> DEFINE outcome == Called(robot[r], VerbOf(query[c], r), query[c].body)
  <2>1. /\ VerbOf(query[c], r) # "none"
        /\ Answers(r, c, "failed")
        /\ \/ UNCHANGED changed
           \/ outcome.robot # robot[r] /\ changed' = [changed EXCEPT ![c] = @ \cup {r}]
        /\ UNCHANGED did
    BY <1>5 DEF Fail
  <2>2. outcome.robot # robot[r] => query[c].to = r
    BY <2>1, WildcardsRead
  <2> HIDE DEF outcome
  <2>3. "failed" \in Kinds /\ Handled(r, c, "failed")
    BY <2>1, <2>2 DEF Answers, Handled, Kinds, Refusals
  <2> QED BY <2>3 DEF Handle
<1> QED BY <1>2, <1>3, <1>4, <1>5 DEF Handle

-----------------------------------------------------------------------------
(* The shape of what the callers know.                                     *)

LEMMA ShapeStarts == Init => Shape
  BY DEF Init, Shape

(* What becomes of a caller that begins, and that the others stay the same.*)
LEMMA BeginForm ==
  ASSUME Shape, NEW c \in Callers, Type(c) \/ Send(c)
  PROVE  /\ UNCHANGED <<up, flying>>
         /\ got' = [got EXCEPT ![c] = {}]
         /\ changed' = [changed EXCEPT ![c] = {}]
         /\ did' = [did EXCEPT ![c] = {}]
         /\ due[c] = {} /\ flying[c] = {}
         /\ due' \in [Callers -> SUBSET Robots]
         /\ DOMAIN query' = Callers /\ DOMAIN typed' = Callers /\ DOMAIN exit' = Callers
         /\ \A d \in Callers \ {c} :
              /\ due'[d] = due[d] /\ query'[d] = query[d]
              /\ typed'[d] = typed[d] /\ exit'[d] = exit[d]
<1> USE DEF Shape
<1>1. ASSUME NEW q, Asks(c, q)
      PROVE  /\ due' \in [Callers -> SUBSET Robots]
             /\ DOMAIN query' = Callers /\ DOMAIN exit' = Callers
             /\ \A d \in Callers \ {c} :
                  due'[d] = due[d] /\ query'[d] = query[d] /\ exit'[d] = exit[d]
  BY <1>1 DEF Asks, Serving
<1>2. Begins(c)
  BY DEF Type, Send
<1>3. CASE Type(c)
  <2>1. PICK line \in Typed :
          /\ typed' = [typed EXCEPT ![c] = line]
          /\ IF Usage(line.verb, line.body)
             THEN Asks(c, [line EXCEPT !.body = Payload(line.verb, line.body)])
             ELSE exit' = [exit EXCEPT ![c] = "2"] /\ UNCHANGED <<query, due>>
    BY <1>3 DEF Type
  <2>2. DOMAIN typed' = Callers /\ \A d \in Callers \ {c} : typed'[d] = typed[d]
    BY <2>1
  <2>3. CASE Asks(c, [line EXCEPT !.body = Payload(line.verb, line.body)])
    BY <1>1, <1>2, <2>2, <2>3 DEF Begins
  <2>4. CASE exit' = [exit EXCEPT ![c] = "2"] /\ UNCHANGED <<query, due>>
    BY <1>2, <2>2, <2>4 DEF Begins
  <2> QED BY <2>1, <2>3, <2>4
<1>4. CASE Send(c)
  BY <1>1, <1>2, <1>4 DEF Send, Begins
<1> QED BY <1>3, <1>4

LEMMA ShapeSteps ==
  ASSUME Shape, [Next]_vars
  PROVE  Shape'
<1> USE DEF Shape
<1>1. ASSUME NEW c \in Callers, Type(c) PROVE Shape'
  BY <1>1, BeginForm
<1>2. ASSUME NEW c \in Callers, Send(c) PROVE Shape'
  BY <1>2, BeginForm
<1>3. ASSUME NEW c \in Callers, Arrive(c) PROVE Shape'
  BY <1>3 DEF Arrive
<1>4. ASSUME NEW c \in Callers, End(c) PROVE Shape'
  <2>1. PICK late \in {{}, TimedOut} :
          /\ got' = [got EXCEPT ![c] = @ \cup late]
          /\ exit' = [exit EXCEPT ![c] = ExitOf(query[c].to, got[c] \cup late)]
    BY <1>4 DEF End
  <2>2. late \subseteq Replies
    BY <2>1, LateIsLate
  <2> QED BY <1>4, <2>1, <2>2 DEF End
<1>5. ASSUME NEW c \in Callers, NEW r \in Robots, Handle(r, c) PROVE Shape'
  <2>1. /\ due' = [due EXCEPT ![c] = @ \ {r}]
        /\ UNCHANGED <<up, typed, query, got, exit>>
        /\ \/ UNCHANGED <<flying, changed, did>>
           \/ \E kind \in Kinds : Handled(r, c, kind)
    BY <1>5, HandlingForm DEF Handle
  <2>2. CASE UNCHANGED <<flying, changed, did>>
    BY <2>1, <2>2
  <2>3. ASSUME NEW kind \in Kinds, Handled(r, c, kind) PROVE Shape'
    <3>1. Reply(r, kind) \in Replies
      BY RepliesAreReplies
    <3>2. flying' \in [Callers -> SUBSET Replies]
      BY <2>3, <3>1 DEF Handled
    <3>3. changed' \in [Callers -> SUBSET Robots] /\ did' \in [Callers -> SUBSET Robots]
      BY <2>3 DEF Handled
    <3>4. due' \in [Callers -> SUBSET Robots]
      BY <2>1
    <3> QED BY <2>1, <3>2, <3>3, <3>4
  <2> QED BY <2>1, <2>2, <2>3
<1>6. ASSUME NEW r \in Robots, Crash(r) PROVE Shape'
  BY <1>6 DEF Crash
<1>7. ASSUME NEW r \in Robots, Restart(r) PROVE Shape'
  BY <1>7 DEF Restart, calling
<1>8. CASE UNCHANGED vars
  BY <1>8 DEF vars, calling
<1> QED BY <1>1, <1>2, <1>3, <1>4, <1>5, <1>6, <1>7, <1>8 DEF Next

-----------------------------------------------------------------------------
(* Only the robot a query names is changed.                                *)

LEMMA NamedSteps ==
  ASSUME Shape, OnlyNamedChanges, [Next]_vars
  PROVE  OnlyNamedChanges'
<1> USE DEF Shape, OnlyNamedChanges
<1>1. ASSUME NEW c \in Callers, Type(c) PROVE OnlyNamedChanges'
  BY <1>1, BeginForm
<1>2. ASSUME NEW c \in Callers, Send(c) PROVE OnlyNamedChanges'
  BY <1>2, BeginForm
<1>3. ASSUME NEW c \in Callers, NEW r \in Robots, Handle(r, c) PROVE OnlyNamedChanges'
  <2>1. /\ UNCHANGED query
        /\ \/ UNCHANGED changed
           \/ \E kind \in Kinds : Handled(r, c, kind)
    BY <1>3, HandlingForm
  <2>2. ASSUME NEW kind \in Kinds, Handled(r, c, kind) PROVE OnlyNamedChanges'
    <3>1. CASE UNCHANGED changed
      BY <2>1, <3>1
    <3>2. CASE query[c].to = r /\ changed' = [changed EXCEPT ![c] = @ \cup {r}]
      BY <2>1, <3>2
    <3> QED BY <2>2, <3>1, <3>2 DEF Handled
  <2> QED BY <2>1, <2>2
<1>4. ASSUME UNCHANGED <<query, changed>> PROVE OnlyNamedChanges'
  BY <1>4
<1> QED
  BY <1>1, <1>2, <1>3, <1>4 DEF Next, Arrive, End, Crash, Restart, calling, vars

(* A robot is changed only by a query that names it: verb_of answers a     *)
(* wildcard for what reads alone, and another robot's key for nothing.     *)
THEOREM OnlyTheNamed == Spec => []OnlyNamedChanges
<1>1. Init => Shape /\ OnlyNamedChanges
  BY ShapeStarts DEF Init, OnlyNamedChanges
<1>2. Shape /\ OnlyNamedChanges /\ [Next]_vars => (Shape /\ OnlyNamedChanges)'
  BY ShapeSteps, NamedSteps
<1> QED BY <1>1, <1>2, PTL DEF Spec

-----------------------------------------------------------------------------
(* An exit code is true.                                                   *)

LEMMA ToldStarts == Init => ToldInv
  BY ShapeStarts DEF Init, ToldInv, Nothing, Callers

LEMMA ExitCodes ==
  ASSUME NEW to, to # Everyone, NEW replies
  PROVE  /\ ExitOf(to, replies) \in {"0", "1", "3"}
         /\ ExitOf(to, replies) = "0" => replies # {} /\ \A reply \in replies : reply.kind = "ok"
<1>1. CASE replies = {}
  BY <1>1 DEF ExitOf
<1>2. CASE replies # {} /\ \A reply \in replies : reply.kind = "ok"
  BY <1>2 DEF ExitOf
<1>3. CASE replies # {} /\ \E reply \in replies : reply.kind # "ok"
  BY <1>3 DEF ExitOf
<1> QED BY <1>1, <1>2, <1>3

LEMMA ToldSteps ==
  ASSUME ToldInv, [Next]_vars
  PROVE  ToldInv'
<1>0. Shape /\ Shape'
  BY ShapeSteps DEF ToldInv
<1> SUFFICES ASSUME NEW d \in Operators, typed'[d].to # Everyone
             PROVE  Told(d)'
  BY <1>0 DEF ToldInv
<1>a. d \in Callers
  BY DEF Callers
<1> USE <1>0, <1>a DEF Shape, Told
<1>b. ASSUME UNCHANGED <<typed[d], query[d], due[d], flying[d], got[d], exit[d], changed[d], did[d]>>
      PROVE  Told(d)'
  BY <1>b DEF ToldInv
<1>c. ASSUME NEW c \in Callers, c # d, Type(c) \/ Send(c) PROVE Told(d)'
  <2>1. UNCHANGED <<typed[d], query[d], due[d], flying[d], got[d], exit[d], changed[d], did[d]>>
    BY <1>c, BeginForm
  <2> QED BY <1>b, <2>1
<1>1. ASSUME NEW c \in Callers, Type(c) PROVE Told(d)'
  <2>1. CASE c # d
    BY <1>1, <1>c, <2>1
  <2>2. CASE c = d
    <3>1. PICK line \in Typed :
            /\ typed' = [typed EXCEPT ![d] = line]
            /\ IF Usage(line.verb, line.body)
               THEN Asks(d, [line EXCEPT !.body = Payload(line.verb, line.body)])
               ELSE exit' = [exit EXCEPT ![d] = "2"] /\ UNCHANGED <<query, due>>
      BY <1>1, <2>2 DEF Type
    <3>2. /\ due[d] = {} /\ flying'[d] = {} /\ got'[d] = {}
          /\ changed'[d] = {} /\ did'[d] = {} /\ typed'[d] = line
      BY <1>1, <2>2, <3>1 DEF Type, Begins
    <3>3. CASE Asks(d, [line EXCEPT !.body = Payload(line.verb, line.body)])
      <4>1. query'[d].to = line.to
        BY <3>1, <3>3, FleetAssumption DEF Asks
      <4>2. due'[d] \subseteq {line.to} /\ exit'[d] = ""
        BY <3>2, <3>3, <4>1 DEF Asks, Serving
      <4> QED BY <3>2, <4>1, <4>2
    <3>4. CASE exit' = [exit EXCEPT ![d] = "2"] /\ UNCHANGED <<query, due>>
      BY <3>2, <3>4
    <3> QED BY <3>1, <3>3, <3>4
  <2> QED BY <2>1, <2>2
<1>2. ASSUME NEW c \in Callers, Send(c) PROVE Told(d)'
  <2>1. c # d
    BY <1>2, FleetAssumption DEF Send
  <2> QED BY <1>2, <1>c, <2>1
<1>3. ASSUME NEW c \in Callers, Arrive(c) PROVE Told(d)'
  <2>1. PICK reply \in flying[c] :
          /\ flying' = [flying EXCEPT ![c] = @ \ {reply}]
          /\ got' = [got EXCEPT ![c] = @ \cup {reply}]
          /\ UNCHANGED <<typed, query, due, exit, changed, did>>
    BY <1>3 DEF Arrive
  <2>2. CASE c # d
    BY <1>b, <2>1, <2>2
  <2>3. CASE c = d
    <3>1. Told(d)
      BY <2>1 DEF ToldInv
    <3>2. exit[d] = ""
      BY <2>1, <2>3, <3>1
    <3>3. flying'[d] \cup got'[d] = flying[d] \cup got[d]
      BY <2>1, <2>3
    <3> QED BY <2>1, <2>3, <3>1, <3>2, <3>3
  <2> QED BY <2>2, <2>3
<1>4. ASSUME NEW c \in Callers, End(c) PROVE Told(d)'
  <2>1. PICK late \in {{}, TimedOut} :
          /\ exit[c] = ""
          /\ got' = [got EXCEPT ![c] = @ \cup late]
          /\ exit' = [exit EXCEPT ![c] = ExitOf(query[c].to, got[c] \cup late)]
          /\ flying' = [flying EXCEPT ![c] = {}]
          /\ UNCHANGED <<typed, query, due, changed, did>>
    BY <1>4 DEF End
  <2>2. CASE c # d
    BY <1>b, <2>1, <2>2
  <2>3. CASE c = d
    <3>1. Told(d)
      BY <2>1 DEF ToldInv
    <3>2. query[d].to = typed[d].to /\ query[d].to # Everyone
      BY <2>1, <2>3, <3>1
    <3>3. /\ exit'[d] \in {"0", "1", "3"}
          /\ exit'[d] = "0" => got'[d] # {} /\ \A reply \in got'[d] : reply.kind = "ok"
      <4>1. exit'[d] = ExitOf(query[d].to, got'[d])
        BY <2>1, <2>3
      <4> QED BY <3>2, <4>1, ExitCodes
    <3>4. \A reply \in flying'[d] \cup got'[d] : reply \in got[d] \/ reply.kind = "late"
      <4>1. flying'[d] = {} /\ got'[d] = got[d] \cup late
        BY <2>1, <2>3
      <4>2. \A reply \in late : reply.kind = "late"
        BY <2>1, LateIsLate
      <4> QED BY <4>1, <4>2
    <3>5. \A reply \in flying'[d] \cup got'[d] :
            /\ reply.kind = "ok" => typed[d].to \in did[d]
            /\ reply.kind \in Refusals =>
                 typed[d].to \notin due[d] /\ did[d] = {} /\ changed[d] = {}
      BY <3>1, <3>4 DEF Refusals
    <3> QED BY <2>1, <2>3, <3>1, <3>3, <3>5
  <2> QED BY <2>2, <2>3
<1>5. ASSUME NEW c \in Callers, NEW r \in Robots, Handle(r, c) PROVE Told(d)'
  <2>1. /\ r \in due[c] /\ due' = [due EXCEPT ![c] = @ \ {r}]
        /\ UNCHANGED <<typed, query, got, exit>>
        /\ \/ UNCHANGED <<flying, changed, did>>
           \/ \E kind \in Kinds : Handled(r, c, kind)
    BY <1>5, HandlingForm
  <2>2. Told(d)
    BY <2>1 DEF ToldInv
  <2>3. CASE UNCHANGED <<flying, changed, did>>
    BY <2>1, <2>2, <2>3
  <2>4. ASSUME NEW kind \in Kinds, Handled(r, c, kind) PROVE Told(d)'
    <3> DEFINE reply == Reply(r, kind)
    <3>1. reply.kind = kind
      BY RepliesAreReplies
    <3> HIDE DEF reply
    <3>2. /\ flying' = [flying EXCEPT ![c] = IF exit[c] = "" THEN @ \cup {reply} ELSE @]
          /\ \/ changed' = changed
             \/ kind \in {"ok", "failed"} /\ changed' = [changed EXCEPT ![c] = @ \cup {r}]
          /\ did' = (IF kind = "ok" THEN [did EXCEPT ![c] = @ \cup {r}] ELSE did)
      BY <2>4 DEF Handled, reply
    <3>3. CASE c # d
      <4>1. UNCHANGED <<typed[d], query[d], due[d], flying[d], got[d], exit[d], changed[d], did[d]>>
        BY <2>1, <3>2, <3>3
      <4> QED BY <1>b, <4>1
    <3>4. CASE c = d
      <4>1. r = typed[d].to /\ did[d] = {} /\ changed[d] = {} /\ exit[d] # "2"
        BY <2>1, <2>2, <3>4
      <4>2. due'[d] = {} /\ r \notin due'[d] /\ UNCHANGED <<got, exit, typed, query>>
        BY <2>1, <2>2, <3>4, <4>1
      <4>3. flying'[d] = IF exit[d] = "" THEN flying[d] \cup {reply} ELSE flying[d]
        BY <3>2, <3>4
      <4>4. changed'[d] \subseteq {r} /\ did'[d] \subseteq {r}
        <5>1. changed'[d] \in {changed[d], changed[d] \cup {r}}
          BY <3>2, <3>4
        <5>2. did'[d] \in {did[d], did[d] \cup {r}}
          BY <3>2, <3>4
        <5> QED BY <4>1, <5>1, <5>2
      <4>5. \A x \in flying[d] \cup got[d] : x.kind \notin {"ok"} \cup Refusals
        BY <2>1, <2>2, <3>4, <4>1
      <4>6. /\ kind = "ok" => r \in did'[d]
            /\ kind \in Refusals => did'[d] = {} /\ changed'[d] = {}
        <5>1. kind = "ok" => did'[d] = did[d] \cup {r}
          BY <3>2, <3>4
        <5>2. kind \in Refusals => did' = did /\ changed' = changed
          BY <3>2 DEF Refusals
        <5> QED BY <4>1, <5>1, <5>2
      <4>7. \A x \in flying'[d] \cup got'[d] :
              /\ x.kind = "ok" => r \in did'[d]
              /\ x.kind \in Refusals => did'[d] = {} /\ changed'[d] = {}
        <5>1. \A x \in flying'[d] \cup got'[d] : x = reply \/ x \in flying[d] \cup got[d]
          BY <4>2, <4>3
        <5> QED BY <3>1, <4>5, <4>6, <5>1
      <4>8. /\ exit'[d] # "" => flying'[d] = {}
            /\ exit'[d] = "0" => got'[d] # {} /\ \A x \in got'[d] : x.kind = "ok"
            /\ exit'[d] # "2" => query'[d].to = r
        BY <2>2, <4>1, <4>2, <4>3
      <4> QED BY <4>1, <4>2, <4>4, <4>7, <4>8
    <3> QED BY <3>3, <3>4
  <2> QED BY <2>1, <2>3, <2>4
<1>6. ASSUME NEW r \in Robots, Crash(r) PROVE Told(d)'
  <2>1. /\ due' = [c \in Callers |-> due[c] \ {r}]
        /\ flying'[d] \subseteq flying[d]
        /\ UNCHANGED <<typed, query, got, exit, changed, did>>
    BY <1>6 DEF Crash
  <2> QED BY <2>1 DEF ToldInv
<1>7. CASE UNCHANGED calling
  BY <1>b, <1>7 DEF calling
<1> QED
  BY <1>1, <1>2, <1>3, <1>4, <1>5, <1>6, <1>7 DEF Next, Restart, vars

(* The exit code an operator sees is true of the robot the command named:  *)
(* 0 when it did as it was told, 2 and a 1 that it refused itself when it  *)
(* did not, whenever the timeout comes and whatever is lost on the way.    *)
THEOREM ExitsAreTrue == Spec => []ExitIsTrue
<1>1. ToldInv => ExitIsTrue
  <2> SUFFICES ASSUME ToldInv, NEW c \in Operators, typed[c].to # Everyone
               PROVE  /\ exit[c] = "0" => typed[c].to \in did[c]
                      /\ \/ exit[c] = "2"
                         \/ exit[c] = "1" /\ \E reply \in got[c] : reply.kind \in Refusals
                         => typed[c].to \notin did[c] /\ changed[c] = {}
    BY DEF ExitIsTrue
  <2>1. Told(c)
    BY DEF ToldInv
  <2> QED BY <2>1 DEF Told
<1> QED BY <1>1, ToldStarts, ToldSteps, PTL DEF Spec
-----------------------------------------------------------------------------
(* What a robot is left as.                                                *)

(* A robot that is there has every field a verb writes.                    *)
LEMMA FieldsOf ==
  ASSUME NEW rob, Sound(rob)
  PROVE  DOMAIN rob = {"mode", "running", "recording", "episode", "pinned", "collecting",
                       "debug", "takes", "posed", "config", "pending"}
  BY DEF Sound, FakeInit

(* A verb leaves a sound robot sound: the take it starts is counted and    *)
(* named, and the mode it writes is one it has.                            *)
LEMMA VerbsKeepSound ==
  ASSUME NEW rob, Sound(rob), NEW verb, NEW body,
         \A d \in DOMAIN Called(rob, verb, body).robot.takes :
           Called(rob, verb, body).robot.takes[d] <= MaxTakes
  PROVE  Sound(Called(rob, verb, body).robot)
<1> DEFINE new == Called(rob, verb, body).robot
<1> USE DEF Does, Refuses
<1>1. CASE verb = "config"
  <2>1. ASSUME NEW key, NEW value PROVE Sound(ConfigWrite(rob, key, value).robot)
    <3>1. CASE ConfigWrite(rob, key, value) = Refuses(rob)
      BY <3>1
    <3>2. CASE /\ ConfigWrite(rob, key, value) = Does(Written(rob, key, value))
               /\ key = "mode" => value \in Modes
      <4>1. ConfigWrite(rob, key, value).robot = Written(rob, key, value)
        BY <3>2
      <4>2. /\ DOMAIN Written(rob, key, value) = DOMAIN rob
            /\ Written(rob, key, value).mode = IF key = "mode" THEN value ELSE rob.mode
            /\ Written(rob, key, value).recording = rob.recording
            /\ Written(rob, key, value).episode = rob.episode
            /\ Written(rob, key, value).takes = rob.takes
        BY FieldsOf DEF Written
      <4> QED BY <3>2, <4>1, <4>2 DEF Sound
    <3> QED BY <3>1, <3>2 DEF ConfigWrite
  <2>2. Sound(ConfigRollback(rob).robot)
    <3>1. ConfigRollback(rob).robot
            \in {rob, [rob EXCEPT !.config["severing"] = rob.pending, !.pending = ""]}
      BY DEF ConfigRollback
    <3> QED BY <3>1, FieldsOf DEF Sound
  <2>3. \/ new = rob
        \/ new = ConfigRollback(rob).robot
        \/ new = ConfigWrite(rob, body["key"], body["value"]).robot
    BY <1>1 DEF Called
  <2> QED BY <2>1, <2>2, <2>3
<1>2. CASE verb = "record"
  <2>1. CASE new = rob
    BY <2>1
  <2>2. CASE new = [rob EXCEPT !.recording = "", !.episode = ""]
    BY <2>2, FieldsOf DEF Sound
  <2>3. CASE new = Started(rob, Field(body, "dataset"))
    <3> DEFINE dataset == Field(body, "dataset")
    <3> HIDE DEF dataset
    <3>1. /\ new.mode = rob.mode /\ DOMAIN new = DOMAIN rob
          /\ new.episode = Slug[Takes(rob, dataset)]
          /\ new.takes = Counted(rob, dataset)
      BY <2>3, FieldsOf DEF Started, dataset
    <3>2. Takes(rob, dataset) \in Nat
      BY DEF Takes, Sound
    <3>3. Takes(rob, dataset) + 1 <= MaxTakes
      BY <3>1 DEF Counted
    <3>4. new.episode # ""
      <4>1. MaxTakes \in Nat /\ \A n \in 0..MaxTakes : Slug[n] # ""
        BY FleetAssumption
      <4>2. Takes(rob, dataset) \in 0..MaxTakes
        <5>1. ASSUME NEW n \in Nat, NEW m \in Nat, n + 1 <= m PROVE n \in 0..m
          BY <5>1
        <5> QED BY <3>2, <3>3, <4>1, <5>1
      <4> QED BY <3>1, <4>1, <4>2
    <3>5. \A d \in DOMAIN new.takes : new.takes[d] \in Nat
      <4>1. \A d \in DOMAIN rob.takes : rob.takes[d] \in Nat
        BY DEF Sound
      <4>2. \A d \in DOMAIN Counted(rob, dataset) : Counted(rob, dataset)[d] \in Nat
        BY <3>2, <4>1 DEF Counted
      <4> QED BY <3>1, <4>2
    <3> QED BY <3>1, <3>4, <3>5 DEF Sound
  <2> QED BY <1>2, <2>1, <2>2, <2>3 DEF Called, Record
<1>3. CASE verb = "stop"
  <2>1. new = [rob EXCEPT !.recording = "", !.mode = "idle"]
    BY <1>3 DEF Called, Stop
  <2> QED BY <2>1, FieldsOf DEF Sound, Modes
<1>4. CASE verb \notin {"config", "record", "stop"}
  <2>1. \/ new = rob
        \/ \E v : new = [rob EXCEPT !.running = v]
        \/ \E v : new = [rob EXCEPT !.pinned = v]
        \/ \E v : new = [rob EXCEPT !.collecting = v]
        \/ \E v : new = [rob EXCEPT !.debug = v]
        \/ \E v : new = [rob EXCEPT !.posed = v]
    BY <1>4 DEF Called, Session, Pose, Collect
  <2> QED BY <2>1, FieldsOf DEF Sound
<1> QED BY <1>1, <1>2, <1>3, <1>4

(* A robot starts sound, and starts again sound.                           *)
LEMMA FakeSound == Sound(FakeInit)
  BY DEF Sound, FakeInit, Modes

(* A robot that starts is sound.                                           *)
LEMMA RobotsStart == Init => RobotsSound
  BY FakeSound DEF Init, RobotsSound

(* A call leaves a sound robot sound, whatever it does.                    *)
LEMMA RobotsSteps ==
  ASSUME RobotsSound, [Next]_vars PROVE RobotsSound'
<1> USE DEF RobotsSound
<1>1. ASSUME NEW c \in Callers, NEW r \in Robots, Handle(r, c) PROVE RobotsSound'
  <2>1. CASE UNCHANGED robot
    BY <2>1
  <2>2. CASE Serve(r, c)
    <3> DEFINE left == Called(robot[r], VerbOf(query[c], r), query[c].body).robot
    <3>1. /\ robot' = [robot EXCEPT ![r] = left]
          /\ \A d \in DOMAIN left.takes : left.takes[d] <= MaxTakes
      BY <2>2 DEF Serve
    <3>2. Sound(left)
      BY <3>1, VerbsKeepSound
    <3> HIDE DEF left
    <3> QED BY <3>1, <3>2
  <2>3. CASE Fail(r, c) /\ ~UNCHANGED robot
    <3> DEFINE left == Called(robot[r], VerbOf(query[c], r), query[c].body).robot
    <3>1. /\ robot' = [robot EXCEPT ![r] = left]
          /\ \A d \in DOMAIN left.takes : left.takes[d] <= MaxTakes
      BY <2>3 DEF Fail
    <3>2. Sound(left)
      BY <3>1, VerbsKeepSound
    <3> HIDE DEF left
    <3> QED BY <3>1, <3>2
  <2> QED BY <1>1, <2>1, <2>2, <2>3 DEF Handle, Refuse, Drop
<1>2. ASSUME NEW r \in Robots, Crash(r) PROVE RobotsSound'
  BY <1>2, FakeSound DEF Crash
<1>3. ASSUME UNCHANGED robot PROVE RobotsSound'
  BY <1>3
<1> QED
  BY <1>1, <1>2, <1>3 DEF Next, Type, Send, Begins, Arrive, End, Restart, calling, vars

(* What a caller ends with is an exit code.                                *)
Ended ==
  /\ crashes \in 0..MaxCrashes
  /\ \A c \in Callers : exit[c] \in Exits

(* Nothing has ended when the agents start.                                *)
LEMMA EndedStarts == Init => Ended
<1>1. MaxCrashes \in Nat
  BY FleetAssumption
<1> QED BY <1>1 DEF Init, Ended, Exits

(* Every step keeps it.                                                    *)
LEMMA EndedSteps ==
  ASSUME Shape, Ended, [Next]_vars PROVE Ended'
<1> USE DEF Shape, Ended
<1>1. ASSUME NEW c \in Callers, Type(c) \/ Send(c) PROVE Ended'
  <2>1. exit'[c] \in {"", "2"} /\ UNCHANGED crashes
    BY <1>1 DEF Type, Send, Begins, Asks
  <2>2. \A d \in Callers \ {c} : exit'[d] = exit[d]
    BY <1>1, BeginForm
  <2> QED BY <2>1, <2>2 DEF Exits
<1>2. ASSUME NEW c \in Callers, End(c) PROVE Ended'
  <2>1. PICK late \in {{}, TimedOut} :
          exit' = [exit EXCEPT ![c] = ExitOf(query[c].to, got[c] \cup late)]
    BY <1>2 DEF End
  <2>2. ExitOf(query[c].to, got[c] \cup late) \in Exits
    BY DEF ExitOf, Exits
  <2> QED BY <1>2, <2>1, <2>2 DEF End
<1>3. ASSUME NEW c \in Callers, NEW r \in Robots, Handle(r, c) PROVE Ended'
  BY <1>3 DEF Handle
<1>4. ASSUME NEW r \in Robots, Crash(r) PROVE Ended'
  <2>1. MaxCrashes \in Nat
    BY FleetAssumption
  <2> QED BY <1>4, <2>1 DEF Crash
<1>5. ASSUME UNCHANGED <<crashes, exit>> PROVE Ended'
  BY <1>5
<1> QED
  BY <1>1, <1>2, <1>3, <1>4, <1>5 DEF Next, Arrive, Restart, calling, vars

(* Every variable keeps its type: a robot that records has named the take  *)
(* it records, and runs in a mode it has.                                  *)
THEOREM FleetTyped == Spec => []TypeOK
<1> DEFINE Inv == Shape /\ RobotsSound /\ Ended
<1>1. Init => Inv
  BY ShapeStarts, RobotsStart, EndedStarts
<1>2. Inv /\ [Next]_vars => Inv'
  BY ShapeSteps, RobotsSteps, EndedSteps
<1>3. Inv => TypeOK
  BY DEF Shape, RobotsSound, Sound, Ended, TypeOK
<1> QED BY <1>1, <1>2, <1>3, PTL DEF Spec

-----------------------------------------------------------------------------
(* What the client accepts, the robot can read.                            *)

(* With no value ill-formed, a field that was typed is well-formed, and its*)
(* absence is the only way it is empty.                                    *)
LEMMA TypedFields ==
  ASSUME NEW args, \A f \in DOMAIN args : args[f] \notin {"", "bad"}
  PROVE  \A f : /\ Field(args, f) # "bad"
                /\ Given(args, f) <=> f \in DOMAIN args
                /\ f \in DOMAIN args => Field(args, f) = args[f]
  BY DEF Field, Given

(* The body built of what the client accepts is the body answer asks for.  *)
LEMMA ClientFits ==
  ASSUME NEW line \in Typed, Usage(line.verb, line.body), ~Excused(line)
  PROVE  WellFormed(line.verb, Payload(line.verb, line.body))
<1> DEFINE verb == line.verb
           args == line.body
           body == Payload(verb, args)
<1>1. \A f \in DOMAIN args : args[f] \notin {"", "bad"}
  BY DEF Excused
<1>2. \A f : /\ Field(args, f) # "bad"
             /\ Given(args, f) <=> f \in DOMAIN args
             /\ f \in DOMAIN args => Field(args, f) = args[f]
  BY <1>1, TypedFields
<1>3. /\ verb \in AllVerbs
      /\ verb \notin {"record", "pose", "asset"}
      /\ verb = "config" /\ "key" \in DOMAIN args => "value" \in DOMAIN args
  BY TypedAssumption DEF Excused
<1>4. Usage(verb, args)
  OBVIOUS
<1>5. CASE verb \in {"status", "description", "up", "down", "stop"}
  BY <1>5 DEF WellFormed
<1>6. CASE verb = "calibration"
  <2>1. Action(<<>>, "get") = "get"
    BY DEF Action, Given, Field
  <2> QED BY <1>6, <2>1 DEF WellFormed, Payload, CalibrationFits
<1>7. CASE verb = "mode"
  <2>1. body = [f \in {"value"} \cup {g \in {"args"} : Given(args, g)} |->
                  IF f = "action" THEN Action(args, "") ELSE Field(args, f)]
    BY <1>7 DEF Payload
  <2>2. Given(args, "value")
    BY <1>4, <1>7 DEF Usage
  <2>3. /\ Field(body, "value") = Field(args, "value")
        /\ Field(body, "args") \in {"", Field(args, "args")}
    BY <2>1 DEF Field
  <2>4. ModeFits(body)
    BY <1>2, <2>2, <2>3 DEF ModeFits, Good, Fits, Given
  <2> QED BY <1>7, <2>4 DEF WellFormed
<1>8. CASE verb = "config"
  <2>1. body = [f \in {"action"} \cup (IF Action(args, "get") = "set" THEN {"key", "value"} ELSE {}) |->
                  IF f = "action" THEN Action(args, "get") ELSE Field(args, f)]
    BY <1>8 DEF Payload
  <2>2. \/ Action(args, "get") \in {"get", "rollback"}
        \/ Action(args, "get") = "set" /\ "key" \in DOMAIN args
    BY <1>4, <1>8 DEF Usage
  <2>3. Action(body, "") = Action(args, "get")
    BY <2>1, <2>2 DEF Action, Given, Field
  <2>4. CASE Action(args, "get") = "set"
    <3>1. /\ Field(body, "key") = Field(args, "key")
          /\ Field(body, "value") = Field(args, "value")
      BY <2>1, <2>4 DEF Field
    <3>2. Given(args, "key") /\ Given(args, "value")
      BY <1>2, <1>3, <1>8, <2>2, <2>4
    <3> QED BY <1>2, <1>8, <2>3, <2>4, <3>1, <3>2 DEF WellFormed, ConfigFits, Good, Given
  <2>5. CASE Action(args, "get") # "set"
    BY <1>8, <2>2, <2>3, <2>5 DEF WellFormed, ConfigFits
  <2> QED BY <2>4, <2>5
<1>9. CASE verb = "session"
  <2>1. body = [f \in {"action"} \cup {g \in {"dataset"} : Given(args, g)} |->
                  IF f = "action" THEN Action(args, "get") ELSE Field(args, f)]
    BY <1>9 DEF Payload
  <2>2. \/ Action(args, "get") \in {"get", "clear"}
        \/ Action(args, "get") = "set" /\ Given(args, "dataset")
    BY <1>4, <1>9 DEF Usage
  <2>3. Action(body, "get") = Action(args, "get")
    BY <2>1, <2>2 DEF Action, Given, Field
  <2>4. Given(args, "dataset") => Field(body, "dataset") = Field(args, "dataset")
    BY <2>1 DEF Field
  <2> QED BY <1>2, <1>9, <2>2, <2>3, <2>4 DEF WellFormed, SessionFits, Good, Given
<1>10. CASE verb = "collect"
  <2>1. body = [f \in {"action"} \cup {g \in {"object", "no_record"} : Given(args, g)}
                         \cup (StartNumbers \cap DOMAIN args) |->
                  IF f = "action" THEN Action(args, "status") ELSE Field(args, f)]
    BY <1>10 DEF Payload
  <2>2. \/ Action(args, "status") = "start" /\ Given(args, "object")
        \/ /\ Action(args, "status") \in {"stop", "status"}
           /\ ~Given(args, "object") /\ ~Given(args, "no_record")
           /\ StartNumbers \cap DOMAIN args = {}
    BY <1>4, <1>10 DEF Usage
  <2>3. Action(body, "status") = Action(args, "status")
    BY <2>1, <2>2 DEF Action, Given, Field, StartNumbers
  <2>4. CASE Action(args, "status") = "start" /\ Given(args, "object")
    <3>1. Field(body, "object") = Field(args, "object")
      BY <2>1, <2>4 DEF Field
    <3>2. Field(body, "no_record") \in {"", Field(args, "no_record")}
      BY <2>1 DEF Field
    <3>3. ASSUME NEW f \in StartNumbers \cap DOMAIN body PROVE Good(body, f)
      <4>1. f \in DOMAIN args /\ Field(body, f) = Field(args, f)
        BY <2>1, <3>3 DEF Field, StartNumbers
      <4> QED BY <1>2, <4>1 DEF Good, Given
    <3>4. CollectFits(body)
      BY <1>2, <2>3, <2>4, <3>1, <3>2, <3>3 DEF CollectFits, Good, Fits, Given
    <3> QED BY <1>10, <3>4 DEF WellFormed
  <2>5. CASE /\ Action(args, "status") \in {"stop", "status"}
             /\ ~Given(args, "object") /\ ~Given(args, "no_record")
             /\ StartNumbers \cap DOMAIN args = {}
    <3>1. DOMAIN body = {"action"}
      BY <2>1, <2>5
    <3>2. DOMAIN body \cap StartFields = {}
      BY <3>1 DEF StartFields, StartNumbers
    <3> QED BY <1>10, <2>3, <2>5, <3>2 DEF WellFormed, CollectFits
  <2> QED BY <2>2, <2>4, <2>5
<1>11. CASE verb = "perception_debug"
  <2>1. body = [enabled |-> IF args["enabled"] = "on" THEN "true" ELSE "false"]
    BY <1>11 DEF Payload
  <2>2. DOMAIN body = {"enabled"} /\ body["enabled"] \in {"true", "false"}
    BY <2>1
  <2> QED BY <1>11, <2>2 DEF WellFormed, DebugFits, Good, Field
<1>12. CASE verb = "episodes"
  <2>1. body = [f \in {"dataset"} |->
                  IF f = "action" THEN Action(args, "") ELSE Field(args, f)]
    BY <1>12 DEF Payload
  <2>2. Field(body, "dataset") = Field(args, "dataset")
    BY <2>1 DEF Field
  <2>3. Given(args, "dataset")
    BY <1>4, <1>12 DEF Usage
  <2> QED BY <1>2, <1>12, <2>2, <2>3 DEF WellFormed, Good, Given
<1>13. verb \in {"status", "description", "up", "down", "stop", "calibration", "mode", "config",
                 "session", "collect", "perception_debug", "episodes"}
  BY <1>3 DEF AllVerbs, ReadVerbs, NamedReads, WriteVerbs
<1> QED BY <1>5, <1>6, <1>7, <1>8, <1>9, <1>10, <1>11, <1>12, <1>13

(* An agent that has an operator's command knows its verb, and answers     *)
(* that it is unknown or refused only when it has an excuse.               *)
LEMMA RefusalsExcused ==
  ASSUME NEW c \in Operators, Asked(c), NEW r \in due[c], Refuse(r, c)
  PROVE  Excused(typed[c])
<1> SUFFICES ASSUME ~Excused(typed[c])
             PROVE  FALSE
  OBVIOUS
<1> DEFINE line == typed[c]
           body == Payload(line.verb, line.body)
<1>1. /\ line \in Typed /\ Usage(line.verb, line.body)
      /\ query[c] = [line EXCEPT !.body = body]
      /\ line.to \in {r, Everyone}
  BY DEF Asked
<1>2. /\ DOMAIN line = {"to", "verb", "body"}
      /\ line.verb \in AllVerbs
      /\ line.to = Everyone => line.verb = "status"
  BY <1>1, FleetAssumption, TypedAssumption
<1>3. query[c].to = line.to /\ query[c].verb = line.verb /\ query[c].body = body
  BY <1>1, <1>2
<1>4. VerbOf(query[c], r) = line.verb
  BY <1>1, <1>2, <1>3 DEF VerbOf, ReadVerbs
<1>5. WellFormed(line.verb, body)
  BY <1>1, ClientFits
<1>6. line.verb # "none"
  BY <1>2 DEF AllVerbs, ReadVerbs, NamedReads, WriteVerbs
<1> QED BY <1>3, <1>4, <1>5, <1>6 DEF Refuse

(* Nobody has typed anything yet.                                          *)
LEMMA AskedStarts == Init => AskedInv
  BY ShapeStarts DEF Init, AskedInv, Asked, Callers

(* Every step keeps what is known of a line and its query.                 *)
LEMMA AskedSteps ==
  ASSUME AskedInv, [Next]_vars PROVE AskedInv'
<1>0. Shape /\ Shape'
  BY ShapeSteps DEF AskedInv
<1> SUFFICES ASSUME NEW d \in Operators PROVE Asked(d)'
  BY <1>0 DEF AskedInv
<1>a. d \in Callers /\ Asked(d)
  BY DEF Callers, AskedInv
<1> USE <1>0, <1>a DEF Shape, Asked
<1>b. ASSUME UNCHANGED <<typed[d], query[d], due[d], flying[d], got[d]>>
      PROVE  Asked(d)'
  BY <1>b
<1>1. ASSUME NEW c \in Callers, Type(c) \/ Send(c) PROVE Asked(d)'
  <2>1. CASE c # d
    <3>1. UNCHANGED <<typed[d], query[d], due[d], flying[d], got[d]>>
      BY <1>1, <2>1, BeginForm
    <3> QED BY <1>b, <3>1
  <2>2. CASE c = d
    <3>1. Type(d)
      BY <1>1, <2>2, FleetAssumption DEF Send
    <3>2. PICK line \in Typed :
            /\ typed' = [typed EXCEPT ![d] = line]
            /\ IF Usage(line.verb, line.body)
               THEN Asks(d, [line EXCEPT !.body = Payload(line.verb, line.body)])
               ELSE exit' = [exit EXCEPT ![d] = "2"] /\ UNCHANGED <<query, due>>
      BY <3>1 DEF Type
    <3>3. due[d] = {} /\ flying'[d] = {} /\ got'[d] = {} /\ typed'[d] = line
      BY <3>1, <3>2 DEF Type, Begins
    <3>4. CASE /\ Usage(line.verb, line.body)
               /\ Asks(d, [line EXCEPT !.body = Payload(line.verb, line.body)])
      <4>1. /\ query'[d] = [line EXCEPT !.body = Payload(line.verb, line.body)]
            /\ due'[d] = Serving([line EXCEPT !.body = Payload(line.verb, line.body)])
        BY <3>4 DEF Asks
      <4>2. DOMAIN line = {"to", "verb", "body"}
        BY FleetAssumption
      <4>3. \A r \in due'[d] : line.to \in {r, Everyone}
        BY <4>1, <4>2 DEF Serving
      <4> QED BY <3>3, <3>4, <4>1, <4>3
    <3>5. CASE exit' = [exit EXCEPT ![d] = "2"] /\ UNCHANGED <<query, due>>
      BY <3>3, <3>5
    <3> QED BY <3>2, <3>4, <3>5
  <2> QED BY <2>1, <2>2
<1>2. ASSUME NEW c \in Callers, Arrive(c) PROVE Asked(d)'
  <2>1. /\ flying'[d] \cup got'[d] \subseteq flying[d] \cup got[d]
        /\ UNCHANGED <<typed, query, due>>
    BY <1>2 DEF Arrive
  <2> QED BY <2>1
<1>3. ASSUME NEW c \in Callers, End(c) PROVE Asked(d)'
  <2>1. /\ \A reply \in flying'[d] \cup got'[d] :
             reply \in flying[d] \cup got[d] \/ reply.kind = "late"
        /\ UNCHANGED <<typed, query, due>>
    <3>1. PICK late \in {{}, TimedOut} : got' = [got EXCEPT ![c] = @ \cup late]
      BY <1>3 DEF End
    <3>2. \A reply \in late : reply.kind = "late"
      BY <3>1, LateIsLate
    <3>3. flying'[d] \subseteq flying[d] /\ got'[d] \subseteq got[d] \cup late
      BY <1>3, <3>1 DEF End
    <3> QED BY <1>3, <3>2, <3>3 DEF End
  <2> QED BY <2>1
<1>4. ASSUME NEW c \in Callers, NEW r \in Robots, Handle(r, c) PROVE Asked(d)'
  <2>1. /\ r \in due[c] /\ due'[d] \subseteq due[d]
        /\ UNCHANGED <<typed, query, got>>
    BY <1>4 DEF Handle
  <2>2. ASSUME \A reply \in flying'[d] \ flying[d] :
                 reply.kind \in {"refused", "unknown"} => Excused(typed[d])
        PROVE  Asked(d)'
    BY <2>1, <2>2
  <2>3. CASE c # d
    <3>1. flying'[d] = flying[d]
      BY <1>4, <2>3 DEF Handle, Refuse, Serve, Fail, Drop, Answers
    <3> QED BY <2>2, <3>1
  <2>4. CASE c = d
    <3>1. ASSUME NEW kind, Answers(r, d, kind), kind \in Kinds
          PROVE  \A reply \in flying'[d] \ flying[d] : reply.kind = kind
      <4>1. Reply(r, kind).kind = kind
        BY <3>1 DEF Reply
      <4>2. flying'[d] \subseteq flying[d] \cup {Reply(r, kind)}
        BY <3>1 DEF Answers
      <4> QED BY <4>1, <4>2
    <3>2. CASE Refuse(r, d)
      <4>1. Excused(typed[d])
        BY <2>1, <2>4, <3>2, RefusalsExcused
      <4> QED BY <2>2, <4>1
    <3>3. CASE Serve(r, d)
      <4>1. PICK kind \in {"ok", "declined"} : Answers(r, d, kind)
        BY <3>3 DEF Serve
      <4> QED BY <2>2, <3>1, <4>1 DEF Kinds, Refusals
    <3>4. CASE Drop(r, d)
      BY <2>2, <3>4 DEF Drop
    <3>5. CASE Fail(r, d)
      <4>1. Answers(r, d, "failed")
        BY <3>5 DEF Fail
      <4> QED BY <2>2, <3>1, <4>1 DEF Kinds, Refusals
    <3> QED BY <1>4, <2>4, <3>2, <3>3, <3>4, <3>5 DEF Handle
  <2> QED BY <2>3, <2>4
<1>5. ASSUME NEW r \in Robots, Crash(r) PROVE Asked(d)'
  <2>1. /\ due'[d] \subseteq due[d] /\ flying'[d] \subseteq flying[d]
        /\ UNCHANGED <<typed, query, got>>
    BY <1>5 DEF Crash
  <2> QED BY <2>1
<1>6. CASE UNCHANGED calling
  BY <1>b, <1>6 DEF calling
<1> QED
  BY <1>1, <1>2, <1>3, <1>4, <1>5, <1>6 DEF Next, Restart, vars

(* A command the client accepts, with no value ill-formed, is one the robot*)
(* can read: what main checks and build_payload builds is what answer asks *)
(* for, but for the verbs whose action or asset the client leaves open.    *)
THEOREM AcceptedIsRead == Spec => []ClientAgrees
<1>1. AskedInv => ClientAgrees
  BY DEF AskedInv, Asked, ClientAgrees
<1> QED BY <1>1, AskedStarts, AskedSteps, PTL DEF Spec
=============================================================================
