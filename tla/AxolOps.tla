------------------------------ MODULE AxolOps ------------------------------
(***************************************************************************)
(* axol.py: every verb of an Axol is a few requests to the vendor's server,*)
(* made one after the other, each of which can be refused, can be lost, or *)
(* can be done without its answer being heard.  Calls overlap each other   *)
(* and the people who use the server's own interface.                      *)
(***************************************************************************)
EXTENDS Naturals, Sequences

CONSTANTS
  Handlers,       \* calls in progress at the same time
  Ops,            \* what the server can run
  None,
  Deaf            \* whether a request can be lost, or done and not heard

RecordOp == "collect-data"

ASSUME AxolAssumption ==
  RecordOp \in Ops /\ None \notin Ops /\ Deaf \in BOOLEAN

VARIABLES
  op,             \* the operation the server runs
  linked,         \* whether the motors are connected
  setting,        \* a setting that shapes motion
  verb,           \* what each call is
  wanted,         \* the operation it asks for
  todo,           \* the requests it has yet to make
  said,           \* its answer
  touched,        \* history: the call has changed the server
  alone,          \* history: nobody else has changed the server since
  heard,          \* history: every request was answered, and as it was done
  clear           \* history: no operation ran at some moment of the call

server == <<op, linked, setting>>
vars   == <<op, linked, setting, verb, wanted, todo, said, touched, alone, heard, clear>>

Settings == {"old", "new"}
Answers  == {"none", "ok", "refused", "error"}

(* What each verb asks of the server, in this order.                       *)
Plan ==
  [ status      |-> <<"robotStatus", "opStatus">>,
    configRead  |-> <<"settings", "robotStatus", "opStatus">>,
    up          |-> <<"connect">>,
    down        |-> <<"disconnect">>,
    mode        |-> <<"stopOp", "startOp">>,
    recordStart |-> <<"startOp">>,
    recordStop  |-> <<"stopOp">>,
    stop        |-> <<"stopOp", "disconnect">>,
    writeMotion |-> <<"settings", "guard", "put">>,
    writeOther  |-> <<"settings", "putOther">> ]

Verbs    == DOMAIN Plan
Requests == {"robotStatus", "opStatus", "settings", "guard", "connect",
             "disconnect", "stopOp", "startOp", "put", "putOther"}

-----------------------------------------------------------------------------
(* Helpers.                                                                *)

InProgress(t) == todo[t] # <<>>

(* What the server does of a request, or declines to.                      *)
Declines(t, request) ==
  \/ request = "stopOp" /\ op = None
  \/ request = "startOp" /\ op # None

Effect(t, request) ==
  /\ op' = CASE request = "stopOp" -> None [] request = "startOp" -> wanted[t] [] OTHER -> op
  /\ linked' = CASE request = "connect" -> TRUE [] request = "disconnect" -> FALSE [] OTHER -> linked
  /\ setting' = IF request = "put" THEN "new" ELSE setting
  /\ touched' = [touched EXCEPT ![t] = touched[t] \/ ~UNCHANGED server]

(* Whoever else has a call learns of a change only by asking.              *)
Noticed(others) ==
  /\ alone' = [t \in Handlers |-> alone[t] /\ (t \in others => UNCHANGED server)]
  /\ clear' = [t \in Handlers |-> clear[t] \/ (InProgress(t) /\ op' = None)]

(* Mutant: an error is answered, and the next request made all the same.   *)
EndsLater(t, answer) ==
  /\ todo' = [todo EXCEPT ![t] = Tail(@)]
  /\ said' = [said EXCEPT ![t] = answer]

(* A call ends here, or goes on with the request after this one.           *)
Ends(t, answer) ==
  /\ todo' = [todo EXCEPT ![t] = <<>>]
  /\ said' = [said EXCEPT ![t] = answer]

GoesOn(t) ==
  /\ todo' = [todo EXCEPT ![t] = Tail(@)]
  /\ said' = [said EXCEPT ![t] = IF Len(todo[t]) = 1 THEN "ok" ELSE "none"]

-----------------------------------------------------------------------------
Init ==
  /\ op \in Ops \cup {None}
  /\ linked \in BOOLEAN
  /\ setting = "old"
  /\ verb = [t \in Handlers |-> "status"]
  /\ wanted = [t \in Handlers |-> None]
  /\ todo = [t \in Handlers |-> <<>>]
  /\ said = [t \in Handlers |-> "none"]
  /\ touched = [t \in Handlers |-> FALSE]
  /\ alone = [t \in Handlers |-> TRUE]
  /\ heard = [t \in Handlers |-> TRUE]
  /\ clear = [t \in Handlers |-> FALSE]

-----------------------------------------------------------------------------
Begins(t, v) ==
  /\ ~InProgress(t)
  /\ verb' = [verb EXCEPT ![t] = v]
  /\ wanted' \in {[wanted EXCEPT ![t] = o] :
                    o \in CASE v = "mode" -> Ops [] v = "recordStart" -> {RecordOp} [] OTHER -> {None}}
  /\ touched' = [touched EXCEPT ![t] = FALSE]
  /\ alone' = [alone EXCEPT ![t] = TRUE]
  /\ heard' = [heard EXCEPT ![t] = TRUE]
  /\ clear' = [clear EXCEPT ![t] = op = None]
  /\ UNCHANGED server

Call(t) ==
  \E v \in Verbs :
    /\ Begins(t, v)
    /\ todo' = [todo EXCEPT ![t] = Plan[v]]
    /\ said' = [said EXCEPT ![t] = "none"]

(* Mutant: what a mode needs is looked at once the operation is stopped.   *)
StopsFirst(t) ==
  /\ ~InProgress(t)
  /\ verb' = [verb EXCEPT ![t] = "mode"]
  /\ said' = [said EXCEPT ![t] = "refused"]
  /\ heard' = [heard EXCEPT ![t] = TRUE]
  /\ op' = None
  /\ touched' = [touched EXCEPT ![t] = op # None]
  /\ UNCHANGED <<linked, setting, wanted, todo>>
  /\ Noticed(Handlers \ {t})

(* An unknown mode, a policy without its arguments (config write can give  *)
(* none), a task or a note: refused before the server is asked anything.   *)
Illformed(t) ==
  \E v \in {"mode", "recordStart", "recordStop"} :
    /\ Begins(t, v)
    /\ said' = [said EXCEPT ![t] = "refused"]
    /\ UNCHANGED todo

(* Mutant: a motion key is written whatever the robot's status says.       *)
NoGuard(t) == FALSE

(* _motion_guard: a motion key is refused while an operation runs.         *)
GuardRefuses(t) == Head(todo[t]) = "guard" /\ op # None

(* The request is done, and its answer heard.                              *)
Done(t) ==
  /\ InProgress(t)
  /\ ~Declines(t, Head(todo[t]))
  /\ Effect(t, Head(todo[t]))
  /\ IF GuardRefuses(t) THEN Ends(t, "refused") ELSE GoesOn(t)
  /\ UNCHANGED <<verb, wanted, heard>>
  /\ Noticed(Handlers \ {t})

(* The server has no such setting, or the value is not of its type.        *)
Unsuited(t) ==
  /\ InProgress(t)
  /\ Head(todo[t]) \in {"settings", "put", "putOther"}
  /\ verb[t] # "configRead"
  /\ Ends(t, "refused")
  /\ UNCHANGED <<server, verb, wanted, touched, heard>>
  /\ Noticed({})

(* What follows a request that raised: only the stop of an operation is    *)
(* tolerated, whatever it was that went wrong.                             *)
Raised(t) ==
  IF Head(todo[t]) = "stopOp" THEN GoesOn(t) ELSE Ends(t, "error")

(* The server answers with an error, and does nothing.                     *)
Refused(t) ==
  /\ InProgress(t)
  /\ Declines(t, Head(todo[t])) \/ Head(todo[t]) # "stopOp"
  /\ Raised(t)
  /\ UNCHANGED <<server, verb, wanted, touched, heard>>
  /\ Noticed({})

(* The server is not reached, or its answer does not come in time, or it   *)
(* fails to stop the operation.                                            *)
Unheard(t) ==
  /\ Deaf
  /\ InProgress(t)
  /\ \/ UNCHANGED <<server, touched>>
     \/ ~Declines(t, Head(todo[t])) /\ Effect(t, Head(todo[t]))
  /\ Raised(t)
  /\ heard' = [heard EXCEPT ![t] = FALSE]
  /\ UNCHANGED <<verb, wanted>>
  /\ Noticed(Handlers \ {t})

(* Somebody uses the server's own interface, or an operation exits.        *)
Outside ==
  /\ \/ op' \in (IF op = None THEN Ops ELSE {None}) /\ UNCHANGED linked
     \/ linked' = ~linked /\ UNCHANGED op
  /\ UNCHANGED <<setting, verb, wanted, todo, said, touched, heard>>
  /\ Noticed(Handlers)

Next ==
  \/ \E t \in Handlers :
       Call(t) \/ Illformed(t) \/ Done(t) \/ Unsuited(t) \/ Refused(t) \/ Unheard(t)
  \/ Outside

Spec == Init /\ [][Next]_vars

-----------------------------------------------------------------------------
(* Properties.                                                             *)

(* Every variable stays in its type, and the answer to a call in progress  *)
(* is not there yet.                                                       *)
TypeOK ==
  /\ op \in Ops \cup {None} /\ linked \in BOOLEAN /\ setting \in Settings
  /\ verb \in [Handlers -> Verbs]
  /\ wanted \in [Handlers -> Ops \cup {None}]
  /\ todo \in [Handlers -> {SubSeq(Plan[v], n, Len(Plan[v])) : v \in Verbs, n \in 1..4}]
  /\ said \in [Handlers -> Answers]
  /\ touched \in [Handlers -> BOOLEAN]
  /\ alone \in [Handlers -> BOOLEAN]
  /\ heard \in [Handlers -> BOOLEAN]
  /\ clear \in [Handlers -> BOOLEAN]
  /\ \A t \in Handlers : InProgress(t) => said[t] = "none"

(* What a verb that answers ok has done.                                   *)
Promised(t) ==
  /\ verb[t] \in {"mode", "recordStart"} => op = wanted[t]
  /\ verb[t] \in {"recordStop", "stop"} => op = None
  /\ verb[t] \in {"stop", "down"} => ~linked
  /\ verb[t] = "up" => linked
  /\ verb[t] = "writeMotion" => setting = "new"

(* A call that answers ok has done what its verb says, unless somebody else*)
(* has changed the robot since it began.                                   *)
OkIsTrue == \A t \in Handlers : said[t] = "ok" /\ alone[t] => Promised(t)

(* So it is when the call has heard of every request what became of it.  A *)
(* refusal has then changed nothing, nor has an error, but that of a mode  *)
(* whose new operation did not start, or of a stop.                        *)
AnswerIsTrue ==
  \A t \in Handlers :
    heard[t] =>
      /\ said[t] = "ok" /\ alone[t] => Promised(t)
      /\ said[t] \in {"refused", "error"} /\ touched[t] =>
           /\ said[t] = "error" /\ verb[t] \in {"mode", "stop"}
           /\ alone[t] => op = None

(* A call is about to change a setting that shapes motion only when no     *)
(* operation ran at some moment since the call began.                      *)
MotionWasClear ==
  \A t \in Handlers : InProgress(t) /\ Head(todo[t]) = "put" => clear[t]
=============================================================================
