--------------------------- MODULE AxolOpsProofs ---------------------------
(***************************************************************************)
(* For any number of calls, and whatever is refused, lost or done unheard: *)
(* a call of the Axol adapter answers what it did, and a setting that      *)
(* shapes motion is put only after a moment without an operation.          *)
(***************************************************************************)
EXTENDS AxolOps, SequenceTheorems, TLAPS

-----------------------------------------------------------------------------
(* What a call may have left of its plan: all of it, any suffix, nothing.  *)

Left ==
  [ status      |-> {<<"robotStatus", "opStatus">>, <<"opStatus">>, <<>>},
    configRead  |-> {<<"settings", "robotStatus", "opStatus">>, <<"robotStatus", "opStatus">>, <<"opStatus">>, <<>>},
    up          |-> {<<"connect">>, <<>>},
    down        |-> {<<"disconnect">>, <<>>},
    mode        |-> {<<"stopOp", "startOp">>, <<"startOp">>, <<>>},
    recordStart |-> {<<"startOp">>, <<>>},
    recordStop  |-> {<<"stopOp">>, <<>>},
    stop        |-> {<<"stopOp", "disconnect">>, <<"disconnect">>, <<>>},
    writeMotion |-> {<<"settings", "guard", "put">>, <<"guard", "put">>, <<"put">>, <<>>},
    writeOther  |-> {<<"settings", "putOther">>, <<"putOther">>, <<>>} ]

VerbNames == {"status", "configRead", "up", "down", "mode", "recordStart",
              "recordStop", "stop", "writeMotion", "writeOther"}

(* The verbs are those that `Plan' lists the requests of.                  *)
LEMMA VerbsNamed == Verbs = VerbNames
  BY DEF Verbs, Plan, VerbNames

(* A call that begins has the whole plan of its verb before it.            *)
LEMMA LeftAtFirst ==
  ASSUME NEW v \in Verbs
  PROVE  Plan[v] \in Left[v] /\ <<>> \in Left[v] /\ Plan[v] # <<>>
<1> USE DEF Left, Plan, VerbNames
<1>1. v \in VerbNames
  BY VerbsNamed
<1>2. CASE v = "status"  BY <1>2
<1>3. CASE v = "configRead"  BY <1>3
<1>4. CASE v = "up"  BY <1>4
<1>5. CASE v = "down"  BY <1>5
<1>6. CASE v = "mode"  BY <1>6
<1>7. CASE v = "recordStart"  BY <1>7
<1>8. CASE v = "recordStop"  BY <1>8
<1>9. CASE v = "stop"  BY <1>9
<1>10. CASE v = "writeMotion"  BY <1>10
<1>11. CASE v = "writeOther"  BY <1>11
<1> QED BY <1>1, <1>2, <1>3, <1>4, <1>5, <1>6, <1>7, <1>8, <1>9, <1>10, <1>11

(* Which request is next tells how far its verb is, and how far the call is*)
(* tells what is left once it is made.                                     *)
LEMMA LeftStep ==
  ASSUME NEW v \in Verbs, NEW s \in Left[v], s # <<>>
  PROVE  /\ Tail(s) \in Left[v]
         /\ Len(s) = 1 <=> Tail(s) = <<>>
         /\ Len(s) = 2 <=> Len(Tail(s)) = 1
         /\ Head(s) = "stopOp" <=> v = "recordStop" \/ (v \in {"mode", "stop"} /\ Len(s) = 2)
         /\ Head(s) = "startOp" <=> v = "recordStart" \/ (v = "mode" /\ Len(s) = 1)
         /\ Head(s) = "guard" <=> v = "writeMotion" /\ Len(s) = 2
         /\ Head(s) = "put" <=> v = "writeMotion" /\ Len(s) = 1
         /\ Head(s) = "connect" <=> v = "up"
         /\ Head(s) = "disconnect" <=> v = "down" \/ (v = "stop" /\ Len(s) = 1)
         /\ v \in {"mode", "stop"} => Len(s) \in 1..2
         /\ v \in {"up", "down", "recordStart", "recordStop"} => Len(s) = 1
<1> USE DEF Left, VerbNames
<1>1. v \in VerbNames
  BY VerbsNamed
<1>2. CASE v = "status"
  <2>1. CASE s = <<"robotStatus", "opStatus">>  BY <1>2, <2>1
  <2>2. CASE s = <<"opStatus">>  BY <1>2, <2>2
  <2> QED BY <1>2, <2>1, <2>2
<1>3. CASE v = "configRead"
  <2>1. CASE s = <<"settings", "robotStatus", "opStatus">>  BY <1>3, <2>1
  <2>2. CASE s = <<"robotStatus", "opStatus">>  BY <1>3, <2>2
  <2>3. CASE s = <<"opStatus">>  BY <1>3, <2>3
  <2> QED BY <1>3, <2>1, <2>2, <2>3
<1>4. CASE v = "up"
  <2>1. CASE s = <<"connect">>  BY <1>4, <2>1
  <2> QED BY <1>4, <2>1
<1>5. CASE v = "down"
  <2>1. CASE s = <<"disconnect">>  BY <1>5, <2>1
  <2> QED BY <1>5, <2>1
<1>6. CASE v = "mode"
  <2>1. CASE s = <<"stopOp", "startOp">>  BY <1>6, <2>1
  <2>2. CASE s = <<"startOp">>  BY <1>6, <2>2
  <2> QED BY <1>6, <2>1, <2>2
<1>7. CASE v = "recordStart"
  <2>1. CASE s = <<"startOp">>  BY <1>7, <2>1
  <2> QED BY <1>7, <2>1
<1>8. CASE v = "recordStop"
  <2>1. CASE s = <<"stopOp">>  BY <1>8, <2>1
  <2> QED BY <1>8, <2>1
<1>9. CASE v = "stop"
  <2>1. CASE s = <<"stopOp", "disconnect">>  BY <1>9, <2>1
  <2>2. CASE s = <<"disconnect">>  BY <1>9, <2>2
  <2> QED BY <1>9, <2>1, <2>2
<1>10. CASE v = "writeMotion"
  <2>1. CASE s = <<"settings", "guard", "put">>  BY <1>10, <2>1
  <2>2. CASE s = <<"guard", "put">>  BY <1>10, <2>2
  <2>3. CASE s = <<"put">>  BY <1>10, <2>3
  <2> QED BY <1>10, <2>1, <2>2, <2>3
<1>11. CASE v = "writeOther"
  <2>1. CASE s = <<"settings", "putOther">>  BY <1>11, <2>1
  <2>2. CASE s = <<"putOther">>  BY <1>11, <2>2
  <2> QED BY <1>11, <2>1, <2>2
<1> QED BY <1>1, <1>2, <1>3, <1>4, <1>5, <1>6, <1>7, <1>8, <1>9, <1>10, <1>11

(* The suffixes of a plan, by the number of requests already made.         *)
LEMMA SuffixOf ==
  ASSUME NEW p \in Seq(Requests), Len(p) \in 1..3,
         NEW s, s = p \/ s = Tail(p) \/ (Len(p) = 3 /\ s = Tail(Tail(p))) \/ s = <<>>
  PROVE  \E n \in 1..4 : s = SubSeq(p, n, Len(p))
<1>1. p = SubSeq(p, 1, Len(p))
  BY SubSeqFull
<1>2. Tail(p) = SubSeq(p, 2, Len(p))
  BY TailIsSubSeq
<1>3. ASSUME Len(p) = 3 PROVE Tail(Tail(p)) = SubSeq(p, 3, Len(p))
  <2>1. 2 \in 1..Len(p) /\ Len(p) \in 2..Len(p) /\ 2 + 1 = 3
    BY <1>3
  <2>2. Tail(SubSeq(p, 2, Len(p))) = SubSeq(p, 2 + 1, Len(p))
    BY <2>1, HeadTailOfSubSeq
  <2> QED BY <1>2, <2>1, <2>2
<1>4. Len(p) + 1 \in 1..4 /\ <<>> = SubSeq(p, Len(p) + 1, Len(p))
  <2> DEFINE n == Len(p)
  <2>1. n \in 1..3
    OBVIOUS
  <2> HIDE DEF n
  <2>2. n + 1 \in 1..4 /\ n + 1 \in Int /\ n \in Int /\ n < n + 1
    BY <2>1
  <2>3. SubSeq(p, n + 1, n) = <<>>
    BY <2>2, SubSeqEmpty
  <2> QED BY <2>2, <2>3 DEF n
<1>5. 1 \in 1..4 /\ 2 \in 1..4 /\ 3 \in 1..4
  OBVIOUS
<1>6. CASE s = p
  BY <1>1, <1>5, <1>6
<1>7. CASE s = Tail(p)
  BY <1>2, <1>5, <1>7
<1>8. CASE s = Tail(Tail(p)) /\ Len(p) = 3
  BY <1>3, <1>5, <1>8
<1>9. CASE s = <<>>
  BY <1>4, <1>9
<1> QED BY <1>6, <1>7, <1>8, <1>9

(* What may be left of a plan is one of the listed suffixes.               *)
LEMMA LeftIsSuffix ==
  ASSUME NEW v \in Verbs, NEW s \in Left[v]
  PROVE  \E n \in 1..4 : s = SubSeq(Plan[v], n, Len(Plan[v]))
<1>1. v \in VerbNames
  BY VerbsNamed
<1>2. /\ Plan[v] \in Seq(Requests) /\ Len(Plan[v]) \in 1..3
      /\ \/ s = Plan[v] \/ s = Tail(Plan[v]) \/ s = <<>>
         \/ Len(Plan[v]) = 3 /\ s = Tail(Tail(Plan[v]))
  <2> USE DEF Plan, Left, Requests, VerbNames
  <2>1. CASE v = "status"  BY <2>1
  <2>2. CASE v = "configRead"  BY <2>2
  <2>3. CASE v = "up"  BY <2>3
  <2>4. CASE v = "down"  BY <2>4
  <2>5. CASE v = "mode"  BY <2>5
  <2>6. CASE v = "recordStart"  BY <2>6
  <2>7. CASE v = "recordStop"  BY <2>7
  <2>8. CASE v = "stop"  BY <2>8
  <2>9. CASE v = "writeMotion"  BY <2>9
  <2>10. CASE v = "writeOther"  BY <2>10
  <2> QED BY <1>1, <2>1, <2>2, <2>3, <2>4, <2>5, <2>6, <2>7, <2>8, <2>9, <2>10
<1> QED BY <1>2, SuffixOf

-----------------------------------------------------------------------------
(* The inductive invariant.                                                *)

(* The operation has been stopped, and the new one not started, or the     *)
(* motors not let go.                                                      *)
Halfway(t) == verb[t] \in {"mode", "stop"} /\ Len(todo[t]) = 1

CallTyped(t) ==
  /\ verb[t] \in Verbs
  /\ todo[t] \in Left[verb[t]]
  /\ said[t] \in Answers
  /\ InProgress(t) => said[t] = "none"

(* A call in progress has changed the server only if it is halfway, and    *)
(* then nothing runs unless somebody else started it; a motion key past its*)
(* guard met a moment without an operation.                                *)
CallTrue(t) ==
  /\ heard[t] /\ touched[t] /\ InProgress(t) => Halfway(t)
  /\ heard[t] /\ alone[t] /\ Halfway(t) => op = None
  /\ heard[t] /\ said[t] = "ok" /\ alone[t] => Promised(t)
  /\ heard[t] /\ said[t] \in {"refused", "error"} /\ touched[t] =>
       /\ said[t] = "error" /\ verb[t] \in {"mode", "stop"}
       /\ alone[t] => op = None
  /\ verb[t] = "writeMotion" /\ Len(todo[t]) = 1 => clear[t]

Typed ==
  /\ op \in Ops \cup {None} /\ linked \in BOOLEAN /\ setting \in Settings
  /\ verb \in [Handlers -> Verbs]
  /\ wanted \in [Handlers -> Ops \cup {None}]
  /\ DOMAIN todo = Handlers /\ todo = [t \in Handlers |-> todo[t]]
  /\ said \in [Handlers -> Answers]
  /\ touched \in [Handlers -> BOOLEAN]
  /\ alone \in [Handlers -> BOOLEAN]
  /\ heard \in [Handlers -> BOOLEAN]
  /\ clear \in [Handlers -> BOOLEAN]

AxolInv == Typed /\ \A t \in Handlers : CallTyped(t) /\ CallTrue(t)

-----------------------------------------------------------------------------
(* It is inductive.                                                        *)

LEMMA AxolInit == Init => AxolInv
<1> SUFFICES ASSUME Init PROVE AxolInv
  OBVIOUS
<1>1. "status" \in Verbs
  BY DEF Verbs, Plan
<1>2. Typed
  BY <1>1 DEF Init, Typed, Settings, Answers
<1>3. ASSUME NEW t \in Handlers PROVE CallTyped(t) /\ CallTrue(t)
  BY <1>1, LeftAtFirst DEF Init, CallTyped, CallTrue, Answers, InProgress, Halfway
<1> QED BY <1>2, <1>3 DEF AxolInv

(* No step leaves the types of the server and of the calls.                *)
LEMMA TypedStep == AxolInv /\ [Next]_vars => Typed'
<1> SUFFICES ASSUME AxolInv, [Next]_vars PROVE Typed'
  OBVIOUS
<1> USE DEF AxolInv, Typed, Settings, Answers, server
<1>1. ASSUME NEW t \in Handlers, NEW v \in Verbs, Begins(t, v) PROVE
        /\ verb' \in [Handlers -> Verbs]
        /\ wanted' \in [Handlers -> Ops \cup {None}]
        /\ touched' \in [Handlers -> BOOLEAN]
        /\ alone' \in [Handlers -> BOOLEAN]
        /\ heard' \in [Handlers -> BOOLEAN]
        /\ clear' \in [Handlers -> BOOLEAN]
        /\ UNCHANGED server
  BY <1>1, AxolAssumption DEF Begins
<1>2. ASSUME NEW t \in Handlers, Call(t) PROVE Typed'
  BY <1>1, <1>2 DEF Call
<1>3. ASSUME NEW t \in Handlers, Illformed(t) PROVE Typed'
  <2>1. {"mode", "recordStart", "recordStop"} \subseteq Verbs
    BY DEF Verbs, Plan
  <2> QED BY <1>1, <1>3, <2>1 DEF Illformed
<1>4. ASSUME NEW t \in Handlers, NEW request, Effect(t, request) PROVE
        /\ op' \in Ops \cup {None} /\ linked' \in BOOLEAN /\ setting' \in {"old", "new"}
        /\ touched' \in [Handlers -> BOOLEAN]
  BY <1>4 DEF Effect
<1>5. ASSUME NEW others, Noticed(others) PROVE
        alone' \in [Handlers -> BOOLEAN] /\ clear' \in [Handlers -> BOOLEAN]
  BY <1>5 DEF Noticed
<1>6. ASSUME NEW t \in Handlers, NEW answer \in Answers, Ends(t, answer) \/ GoesOn(t) PROVE
        /\ DOMAIN todo' = Handlers /\ todo' = [u \in Handlers |-> todo'[u]]
        /\ said' \in [Handlers -> Answers]
  BY <1>6 DEF Ends, GoesOn
<1>7. ASSUME NEW t \in Handlers, Done(t) PROVE Typed'
  BY <1>4, <1>5, <1>6, <1>7 DEF Done
<1>8. ASSUME NEW t \in Handlers, Unsuited(t) PROVE Typed'
  BY <1>5, <1>6, <1>8 DEF Unsuited
<1>9. ASSUME NEW t \in Handlers, Refused(t) PROVE Typed'
  BY <1>5, <1>6, <1>9 DEF Refused, Raised
<1>10. ASSUME NEW t \in Handlers, Unheard(t) PROVE Typed'
  BY <1>4, <1>5, <1>6, <1>10 DEF Unheard, Raised
<1>11. CASE Outside
  BY <1>5, <1>11 DEF Outside
<1>12. CASE UNCHANGED vars
  BY <1>12 DEF vars
<1> QED BY <1>2, <1>3, <1>7, <1>8, <1>9, <1>10, <1>11, <1>12 DEF Next

(* A call that does not step stays true: whoever changed the server then   *)
(* is noticed.                                                             *)
LEMMA OthersKeep ==
  ASSUME NEW t \in Handlers, CallTyped(t), CallTrue(t),
         verb'[t] = verb[t], wanted'[t] = wanted[t], todo'[t] = todo[t], said'[t] = said[t],
         touched'[t] = touched[t], heard'[t] = heard[t],
         alone'[t] => alone[t] /\ UNCHANGED server,
         clear[t] => clear'[t]
  PROVE  CallTyped(t)' /\ CallTrue(t)'
  BY DEF CallTyped, CallTrue, Halfway, InProgress, Promised, server

(* What the calls know of a change that one of them made.                  *)
LEMMA NoticedOf ==
  ASSUME Typed, NEW others, Noticed(others), NEW t \in Handlers
  PROVE  /\ alone'[t] => alone[t]
         /\ alone'[t] /\ t \in others => UNCHANGED server
         /\ clear[t] => clear'[t]
         /\ InProgress(t) /\ op' = None => clear'[t]
  BY DEF Noticed, Typed

(* What is known of a call whose next request is about to be made.         *)
LEMMA Making ==
  ASSUME NEW u \in Handlers, Typed, CallTyped(u), InProgress(u)
  PROVE  /\ Tail(todo[u]) \in Left[verb[u]]
         /\ <<>> \in Left[verb[u]]
         /\ verb[u] \in Verbs
  BY LeftStep, LeftAtFirst DEF CallTyped, InProgress

(* A call that goes on, or ends, is left with a suffix of its plan.        *)
LEMMA CallTypedStep ==
  ASSUME AxolInv, NEW u \in Handlers, CallTyped(u), InProgress(u), verb'[u] = verb[u],
         NEW answer \in Answers, GoesOn(u) \/ Ends(u, answer)
  PROVE  CallTyped(u)'
<1> USE DEF AxolInv, Typed
<1>1. Tail(todo[u]) \in Left[verb[u]] /\ <<>> \in Left[verb[u]] /\ verb[u] \in Verbs
  BY Making
<1>2. Len(todo[u]) = 1 <=> Tail(todo[u]) = <<>>
  BY LeftStep DEF CallTyped, InProgress
<1>3. CASE GoesOn(u)
  <2>1. todo'[u] = Tail(todo[u]) /\ said'[u] = IF Len(todo[u]) = 1 THEN "ok" ELSE "none"
    BY <1>3 DEF GoesOn
  <2> QED BY <1>1, <1>2, <2>1 DEF CallTyped, InProgress, Answers
<1>4. CASE Ends(u, answer)
  BY <1>1, <1>4 DEF Ends, CallTyped, InProgress
<1> QED BY <1>3, <1>4

(* A request done and heard: the guard refuses, or the call goes on.       *)
LEMMA DoneKeeps ==
  ASSUME AxolInv, NEW u \in Handlers, Done(u)
  PROVE  CallTyped(u)' /\ CallTrue(u)'
<1> USE DEF AxolInv, Typed, Answers
<1>0. CallTyped(u) /\ CallTrue(u) /\ InProgress(u)
  BY DEF Done
<1>1. CallTyped(u)'
  BY <1>0, CallTypedStep DEF Done
<1>2. /\ verb'[u] = verb[u] /\ wanted'[u] = wanted[u] /\ heard'[u] = heard[u]
      /\ alone'[u] => alone[u]
      /\ clear[u] => clear'[u]
      /\ op' = None => clear'[u]
      /\ touched'[u] = (touched[u] \/ ~UNCHANGED server)
      /\ said[u] = "none"
  BY <1>0, NoticedOf DEF Done, Effect, CallTyped
<1>3. op' = CASE Head(todo[u]) = "stopOp" -> None
              [] Head(todo[u]) = "startOp" -> wanted[u]
              [] OTHER -> op
  BY DEF Done, Effect
<1>4. linked' = CASE Head(todo[u]) = "connect" -> TRUE
                  [] Head(todo[u]) = "disconnect" -> FALSE
                  [] OTHER -> linked
  BY DEF Done, Effect
<1>5. setting' = IF Head(todo[u]) = "put" THEN "new" ELSE setting
  BY DEF Done, Effect
<1>6. CASE GuardRefuses(u)
  <2>1. Head(todo[u]) = "guard" /\ todo'[u] = <<>> /\ said'[u] = "refused"
    BY <1>6 DEF Done, GuardRefuses, Ends
  <2>2. UNCHANGED server
    BY <1>3, <1>4, <1>5, <2>1 DEF server
  <2>3. verb[u] = "writeMotion"
    BY <1>0, <2>1, LeftStep DEF CallTyped, InProgress
  <2> QED BY <1>0, <1>1, <1>2, <2>1, <2>2, <2>3 DEF CallTrue, Halfway
<1>7. CASE ~GuardRefuses(u)
  <2>1. todo'[u] = Tail(todo[u]) /\ said'[u] = IF Len(todo[u]) = 1 THEN "ok" ELSE "none"
    BY <1>7 DEF Done, GoesOn
  <2>2. /\ Len(todo[u]) = 1 <=> todo'[u] = <<>>
        /\ Len(todo[u]) = 2 <=> Len(todo'[u]) = 1
    BY <1>0, <2>1, LeftStep DEF CallTyped, InProgress
  <2> DEFINE request == Head(todo[u])
             k == Len(todo[u])
             v == verb[u]
  <2>3. /\ request = "stopOp" <=> v = "recordStop" \/ (v \in {"mode", "stop"} /\ k = 2)
        /\ request = "startOp" <=> v = "recordStart" \/ (v = "mode" /\ k = 1)
        /\ request = "guard" <=> v = "writeMotion" /\ k = 2
        /\ request = "put" <=> v = "writeMotion" /\ k = 1
        /\ request = "connect" <=> v = "up"
        /\ request = "disconnect" <=> v = "down" \/ (v = "stop" /\ k = 1)
        /\ v \in {"up", "down", "recordStart", "recordStop"} => k = 1
    BY <1>0, LeftStep DEF CallTyped, InProgress
  <2> HIDE DEF request, k, v
  <2>4. heard'[u] /\ touched'[u] /\ InProgress(u)' => Halfway(u)'
    <3> SUFFICES ASSUME heard[u], touched'[u], todo'[u] # <<>> PROVE Halfway(u)'
      BY <1>2 DEF InProgress
    <3>1. k # 1
      BY <2>2 DEF k
    <3>2. ~touched[u]
      BY <1>0, <3>1 DEF CallTrue, Halfway, k
    <3>3. request \in {"stopOp", "startOp", "connect", "disconnect", "put"}
      BY <1>2, <1>3, <1>4, <1>5, <3>2 DEF server, request
    <3>4. v \in {"mode", "stop"} /\ k = 2
      BY <2>3, <3>1, <3>3
    <3> QED BY <1>2, <2>2, <3>4 DEF Halfway, v, k
  <2>5. Halfway(u)' => op' = None
    <3> SUFFICES ASSUME Halfway(u)' PROVE op' = None
      OBVIOUS
    <3>1. v \in {"mode", "stop"} /\ k = 2
      BY <1>2, <2>2 DEF Halfway, v, k
    <3> QED BY <1>3, <2>3, <3>1 DEF request
  <2>6. heard'[u] /\ said'[u] = "ok" /\ alone'[u] => Promised(u)'
    <3> SUFFICES ASSUME heard[u], said'[u] = "ok", alone[u] PROVE Promised(u)'
      BY <1>2
    <3>1. k = 1
      BY <2>1 DEF k
    <3>2. v = "stop" => op = None
      BY <1>0, <3>1 DEF CallTrue, Halfway, v, k
    <3>3. v \in {"mode", "recordStart"} => op' = wanted[u]
      BY <1>3, <2>3, <3>1 DEF request
    <3>4. v \in {"recordStop", "stop"} => op' = None
      BY <1>3, <2>3, <3>1, <3>2 DEF request
    <3>5. v \in {"stop", "down"} => ~linked'
      BY <1>4, <2>3, <3>1 DEF request
    <3>6. v = "up" => linked'
      BY <1>4, <2>3 DEF request
    <3>7. v = "writeMotion" => setting' = "new"
      BY <1>5, <2>3, <3>1 DEF request
    <3> QED BY <1>2, <3>3, <3>4, <3>5, <3>6, <3>7 DEF Promised, v
  <2>7. said'[u] \notin {"refused", "error"}
    BY <2>1
  <2>8. verb'[u] = "writeMotion" /\ Len(todo'[u]) = 1 => clear'[u]
    <3> SUFFICES ASSUME verb[u] = "writeMotion", Len(todo'[u]) = 1 PROVE clear'[u]
      BY <1>2
    <3>1. request = "guard"
      BY <2>2, <2>3 DEF v, k
    <3>2. op' = None
      BY <1>3, <1>7, <3>1 DEF GuardRefuses, request
    <3> QED BY <1>2, <3>2
  <2> QED BY <1>1, <2>4, <2>5, <2>6, <2>7, <2>8 DEF CallTrue
<1> QED BY <1>6, <1>7

(* A refusal of the server's, or of what is put to it, changes nothing.    *)
LEMMA DeclinedKeeps ==
  ASSUME AxolInv, NEW u \in Handlers, Unsuited(u) \/ Refused(u)
  PROVE  CallTyped(u)' /\ CallTrue(u)'
<1> USE DEF AxolInv, Typed, Answers
<1>0. CallTyped(u) /\ CallTrue(u) /\ InProgress(u)
  BY DEF Unsuited, Refused
<1>1. CallTyped(u)'
  BY <1>0, CallTypedStep DEF Unsuited, Refused, Raised
<1>2. /\ verb'[u] = verb[u] /\ wanted'[u] = wanted[u] /\ heard'[u] = heard[u]
      /\ touched'[u] = touched[u]
      /\ alone'[u] => alone[u]
      /\ clear[u] => clear'[u]
      /\ UNCHANGED server
      /\ said[u] = "none"
  BY <1>0, NoticedOf DEF Unsuited, Refused, CallTyped
<1>3. /\ Len(todo[u]) = 1 <=> Tail(todo[u]) = <<>>
      /\ Len(todo[u]) = 2 <=> Len(Tail(todo[u])) = 1
      /\ Head(todo[u]) = "stopOp" <=>
           verb[u] = "recordStop" \/ (verb[u] \in {"mode", "stop"} /\ Len(todo[u]) = 2)
      /\ Head(todo[u]) = "startOp" <=>
           verb[u] = "recordStart" \/ (verb[u] = "mode" /\ Len(todo[u]) = 1)
      /\ Head(todo[u]) = "put" <=> verb[u] = "writeMotion" /\ Len(todo[u]) = 1
      /\ Head(todo[u]) = "disconnect" <=>
           verb[u] = "down" \/ (verb[u] = "stop" /\ Len(todo[u]) = 1)
  BY <1>0, LeftStep DEF CallTyped, InProgress
<1>4. CASE Head(todo[u]) = "stopOp"
  <2>1. Declines(u, "stopOp") /\ GoesOn(u)
    BY <1>4 DEF Unsuited, Refused, Raised
  <2>2. op = None /\ op' = None
    BY <1>2, <2>1 DEF Declines, server
  <2>3. todo'[u] = Tail(todo[u]) /\ said'[u] = IF Len(todo[u]) = 1 THEN "ok" ELSE "none"
    BY <2>1 DEF GoesOn
  <2>4. heard[u] /\ touched[u] => Len(todo[u]) = 1
    BY <1>0 DEF CallTrue, Halfway
  <2>5. said'[u] = "ok" => verb[u] = "recordStop"
    BY <1>3, <1>4, <2>3
  <2>6. verb[u] # "writeMotion"
    BY <1>3, <1>4
  <2>7. heard[u] /\ touched[u] => todo'[u] = <<>>
    BY <1>3, <2>3, <2>4
  <2>8. said'[u] \notin {"refused", "error"}
    BY <2>3
  <2>9. Promised(u)' \/ verb[u] # "recordStop"
    BY <1>2, <2>2 DEF Promised
  <2> QED BY <1>1, <1>2, <2>2, <2>5, <2>6, <2>7, <2>8, <2>9 DEF CallTrue, InProgress
<1>5. CASE Head(todo[u]) # "stopOp"
  <2>1. todo'[u] = <<>> /\ said'[u] \in {"refused", "error"}
    BY <1>5 DEF Unsuited, Refused, Raised, Ends
  <2>2. heard[u] /\ touched[u] => Halfway(u)
    BY <1>0 DEF CallTrue
  <2>3. heard[u] /\ touched[u] => said'[u] = "error"
    <3> SUFFICES ASSUME heard[u], touched[u] PROVE ~Unsuited(u)
      BY <1>5 DEF Refused, Raised, Ends
    <3>1. verb[u] = "mode" \/ verb[u] = "stop"
      BY <2>2 DEF Halfway
    <3> QED BY <1>3, <2>2, <3>1 DEF Unsuited, Halfway
  <2>4. heard[u] /\ touched[u] /\ alone'[u] => op' = None
    BY <1>0, <1>2, <2>2 DEF CallTrue, server
  <2>5. Len(todo'[u]) # 1
    BY <2>1
  <2>6. ~InProgress(u)' /\ ~Halfway(u)' /\ said'[u] # "ok"
    BY <2>1, <2>5 DEF InProgress, Halfway
  <2>7. Halfway(u) => verb'[u] \in {"mode", "stop"}
    BY <1>2 DEF Halfway
  <2> QED BY <1>1, <1>2, <2>2, <2>3, <2>4, <2>5, <2>6, <2>7 DEF CallTrue
<1> QED BY <1>4, <1>5

(* Of a call that was not answered nothing more is claimed than its type.  *)
LEMMA UnheardKeeps ==
  ASSUME AxolInv, NEW u \in Handlers, Unheard(u)
  PROVE  CallTyped(u)' /\ CallTrue(u)'
<1> USE DEF AxolInv, Typed, Answers
<1>0. CallTyped(u) /\ CallTrue(u) /\ InProgress(u)
  BY DEF Unheard
<1>1. CallTyped(u)'
  BY <1>0, CallTypedStep DEF Unheard, Raised
<1>2. verb'[u] = verb[u] /\ ~heard'[u]
  BY DEF Unheard
<1>3. ~(verb[u] = "writeMotion" /\ Len(todo'[u]) = 1)
  <2>1. CASE Head(todo[u]) = "stopOp"
    BY <1>0, <2>1, LeftStep DEF CallTyped, InProgress
  <2>2. CASE Head(todo[u]) # "stopOp"
    <3>1. todo'[u] = <<>>
      BY <2>2 DEF Unheard, Raised, Ends
    <3> QED BY <3>1
  <2> QED BY <2>1, <2>2
<1> QED BY <1>1, <1>2, <1>3 DEF CallTrue

(* A new call has changed nothing yet.                                     *)
LEMMA BeginsKeeps ==
  ASSUME AxolInv, NEW u \in Handlers, Call(u) \/ Illformed(u)
  PROVE  CallTyped(u)' /\ CallTrue(u)'
<1> USE DEF AxolInv, Typed, Answers
<1>1. PICK v \in Verbs :
        /\ Begins(u, v)
        /\ \/ todo' = [todo EXCEPT ![u] = Plan[v]] /\ said' = [said EXCEPT ![u] = "none"]
           \/ UNCHANGED todo /\ said' = [said EXCEPT ![u] = "refused"]
  <2>1. {"mode", "recordStart", "recordStop"} \subseteq Verbs
    BY DEF Verbs, Plan
  <2> QED BY <2>1 DEF Call, Illformed
<1>2. verb'[u] = v /\ ~touched'[u] /\ todo[u] = <<>>
  BY <1>1 DEF Begins, InProgress
<1>3. CASE todo'[u] = Plan[v] /\ said'[u] = "none"
  <2>1. CallTyped(u)'
    BY <1>2, <1>3, LeftAtFirst DEF CallTyped
  <2>2. ~Halfway(u)' /\ (v = "writeMotion" => Len(todo'[u]) # 1)
    BY <1>2, <1>3 DEF Halfway, Plan
  <2> QED BY <1>2, <1>3, <2>1, <2>2 DEF CallTrue
<1>4. CASE todo'[u] = <<>> /\ said'[u] = "refused"
  <2>1. CallTyped(u)'
    BY <1>2, <1>4, LeftAtFirst DEF CallTyped, InProgress
  <2>2. Len(todo'[u]) # 1
    BY <1>4
  <2> QED BY <1>2, <1>4, <2>1, <2>2 DEF CallTrue, Halfway
<1> QED BY <1>1, <1>2, <1>3, <1>4

(* Every step keeps the inductive invariant.                               *)
LEMMA AxolStep == AxolInv /\ [Next]_vars => AxolInv'
<1> SUFFICES ASSUME AxolInv, [Next]_vars, NEW t \in Handlers
             PROVE  CallTyped(t)' /\ CallTrue(t)'
  BY TypedStep DEF AxolInv
<1>0. CallTyped(t) /\ CallTrue(t) /\ Typed
  BY DEF AxolInv
<1>1. ASSUME NEW u \in Handlers, u # t, Call(u) \/ Illformed(u)
      PROVE  CallTyped(t)' /\ CallTrue(t)'
  BY <1>0, <1>1, OthersKeep DEF Call, Illformed, Begins, Typed, server
<1>2. ASSUME NEW u \in Handlers, u # t, Done(u) \/ Unsuited(u) \/ Refused(u) \/ Unheard(u)
      PROVE  CallTyped(t)' /\ CallTrue(t)'
  <2>1. /\ alone'[t] => alone[t] /\ UNCHANGED server
        /\ clear[t] => clear'[t]
    BY <1>0, <1>2, NoticedOf DEF Done, Unsuited, Refused, Unheard
  <2>2. /\ verb'[t] = verb[t] /\ wanted'[t] = wanted[t] /\ todo'[t] = todo[t]
        /\ said'[t] = said[t] /\ touched'[t] = touched[t] /\ heard'[t] = heard[t]
    BY <1>0, <1>2 DEF Done, Unsuited, Refused, Unheard, Raised, Ends, GoesOn, Effect, Typed
  <2> QED BY <1>0, <2>1, <2>2, OthersKeep
<1>3. CASE Outside
  <2>1. /\ alone'[t] => alone[t] /\ UNCHANGED server
        /\ clear[t] => clear'[t]
    BY <1>0, <1>3, NoticedOf DEF Outside
  <2> QED BY <1>0, <1>3, <2>1, OthersKeep DEF Outside
<1>4. CASE UNCHANGED vars
  BY <1>0, <1>4, OthersKeep DEF vars, server
<1> QED BY <1>1, <1>2, <1>3, <1>4, DoneKeeps, DeclinedKeeps, UnheardKeeps, BeginsKeeps DEF Next

-----------------------------------------------------------------------------
(* Whatever the calls, their requests and what becomes of them, every call *)
(* is as far as its verb's plan and as true as its answer.                 *)
THEOREM AxolHolds == Spec => []AxolInv
  BY AxolInit, AxolStep, PTL DEF Spec

(* Every variable stays in its type, and no call answers before its end.   *)
THEOREM AxolTyped == Spec => []TypeOK
<1>1. AxolInv => TypeOK
  <2> SUFFICES ASSUME AxolInv PROVE TypeOK
    OBVIOUS
  <2> DEFINE Suffixes == {SubSeq(Plan[v], n, Len(Plan[v])) : v \in Verbs, n \in 1..4}
  <2>1. todo \in [Handlers -> Suffixes]
    <3>1. ASSUME NEW v \in Verbs, NEW s \in Left[v] PROVE s \in Suffixes
      BY LeftIsSuffix
    <3> HIDE DEF Suffixes
    <3>2. \A t \in Handlers : todo[t] \in Suffixes
      BY <3>1 DEF AxolInv, CallTyped
    <3> QED BY <3>2 DEF AxolInv, Typed
  <2> QED BY <2>1 DEF AxolInv, Typed, CallTyped, TypeOK
<1> QED BY <1>1, AxolHolds, PTL

(* A call that heard of all its requests and answers ok has done what its  *)
(* verb says, and one that answers a refusal has changed nothing.          *)
THEOREM AxolAnswersTrue == Spec => []AnswerIsTrue
<1>1. AxolInv => AnswerIsTrue
  BY DEF AxolInv, CallTrue, AnswerIsTrue
<1> QED BY <1>1, AxolHolds, PTL

(* axol.py writes a motion key only after its guard saw no operation.      *)
THEOREM MotionClear == Spec => []MotionWasClear
<1>1. AxolInv => MotionWasClear
  BY LeftStep DEF AxolInv, CallTyped, CallTrue, MotionWasClear, InProgress
<1> QED BY <1>1, AxolHolds, PTL
=============================================================================
