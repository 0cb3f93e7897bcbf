---------------------------- MODULE WebappProofs ----------------------------
(***************************************************************************)
(* For any number of calls, takes and restarts of the webapp: a pin is     *)
(* changed only by a call that found nothing recording, a stop that names  *)
(* its take ends that take, and an answer is true as long as nobody else   *)
(* has changed the pin or the take.                                        *)
(***************************************************************************)
EXTENDS Webapp, SequenceTheorems, TLAPS

-----------------------------------------------------------------------------
(* What a call may have left of its plan: all of it, any suffix, nothing.  *)

Left ==
  [ pin    |-> {<<"active", "find", "create", "set", "readPin">>, <<"find", "create", "set", "readPin">>,
                <<"create", "set", "readPin">>, <<"set", "readPin">>, <<"readPin">>, <<>>},
    clear  |-> {<<"active", "unset", "readPin">>, <<"unset", "readPin">>, <<"readPin">>, <<>>},
    start  |-> {<<"find", "create", "start">>, <<"create", "start">>, <<"start">>, <<>>},
    stop   |-> {<<"stop">>, <<>>},
    stopIt |-> {<<"isActive", "stop">>, <<"stop">>, <<>>} ]

VerbNames == {"pin", "clear", "start", "stop", "stopIt"}
Requests  == {"active", "find", "create", "set", "unset", "readPin", "start", "isActive", "stop"}

(* The verbs are those that `Plan' lists the requests of.                  *)
LEMMA VerbsNamed == Verbs = VerbNames
  BY DEF Verbs, Plan, VerbNames

(* A call that begins has the whole plan of its verb before it.            *)
LEMMA LeftAtFirst ==
  ASSUME NEW v \in Verbs
  PROVE  /\ Plan[v] \in Left[v] /\ <<>> \in Left[v] /\ Plan[v] # <<>>
         /\ Head(Plan[v]) \notin {"readPin", "set", "unset"}
         /\ v \in {"pin", "clear"} => Head(Plan[v]) = "active"
         /\ v = "stopIt" => Head(Plan[v]) # "stop"
<1> USE DEF Left, Plan, VerbNames
<1>1. v \in VerbNames
  BY VerbsNamed
<1>2. CASE v = "pin"  BY <1>2
<1>3. CASE v = "clear"  BY <1>3
<1>4. CASE v = "start"  BY <1>4
<1>5. CASE v = "stop"  BY <1>5
<1>6. CASE v = "stopIt"  BY <1>6
<1> QED BY <1>1, <1>2, <1>3, <1>4, <1>5, <1>6

(* Which request is next tells how far its verb is, and what comes after.  *)
LEMMA LeftStep ==
  ASSUME NEW v \in Verbs, NEW s \in Left[v], s # <<>>
  PROVE  /\ s \in Seq(Requests)
         /\ Head(s) \in Requests
         /\ Tail(s) \in Left[v]
         /\ Len(s) = 1 <=> Tail(s) = <<>>
         /\ Head(s) \in {"readPin", "start", "stop"} <=> Tail(s) = <<>>
         /\ Head(s) \in {"set", "unset"} => Head(Tail(s)) = "readPin"
         /\ Head(s) \notin {"set", "unset"} /\ Tail(s) # <<>> => Head(Tail(s)) # "readPin"
         /\ Tail(s) # <<>> => Head(Tail(s)) # "active"
         /\ Head(s) \in {"active", "set", "unset", "readPin"} => v \in {"pin", "clear"}
         /\ Head(s) \in {"find", "create", "set", "start"} => v \in {"pin", "start"}
         /\ Head(s) = "unset" => v = "clear"
         /\ Head(s) = "start" => v = "start"
         /\ v = "stopIt" => Head(s) \in {"isActive", "stop"}
         /\ Head(s) = "isActive" => v = "stopIt"
         /\ Head(s) = "stop" => v \in {"stop", "stopIt"}
<1> USE DEF Left, VerbNames, Requests
<1>1. v \in VerbNames
  BY VerbsNamed
<1>2. CASE v = "pin"
  <2>1. CASE s = <<"active", "find", "create", "set", "readPin">>  BY <1>2, <2>1
  <2>2. CASE s = <<"find", "create", "set", "readPin">>  BY <1>2, <2>2
  <2>3. CASE s = <<"create", "set", "readPin">>  BY <1>2, <2>3
  <2>4. CASE s = <<"set", "readPin">>  BY <1>2, <2>4
  <2>5. CASE s = <<"readPin">>  BY <1>2, <2>5
  <2> QED BY <1>2, <2>1, <2>2, <2>3, <2>4, <2>5
<1>3. CASE v = "clear"
  <2>1. CASE s = <<"active", "unset", "readPin">>  BY <1>3, <2>1
  <2>2. CASE s = <<"unset", "readPin">>  BY <1>3, <2>2
  <2>3. CASE s = <<"readPin">>  BY <1>3, <2>3
  <2> QED BY <1>3, <2>1, <2>2, <2>3
<1>4. CASE v = "start"
  <2>1. CASE s = <<"find", "create", "start">>  BY <1>4, <2>1
  <2>2. CASE s = <<"create", "start">>  BY <1>4, <2>2
  <2>3. CASE s = <<"start">>  BY <1>4, <2>3
  <2> QED BY <1>4, <2>1, <2>2, <2>3
<1>5. CASE v = "stop"
  <2>1. CASE s = <<"stop">>  BY <1>5, <2>1
  <2> QED BY <1>5, <2>1
<1>6. CASE v = "stopIt"
  <2>1. CASE s = <<"isActive", "stop">>  BY <1>6, <2>1
  <2>2. CASE s = <<"stop">>  BY <1>6, <2>2
  <2> QED BY <1>6, <2>1, <2>2
<1> QED BY <1>1, <1>2, <1>3, <1>4, <1>5, <1>6

(* Behind a search for the session its creation can be left out.           *)
LEMMA FindStep ==
  ASSUME NEW v \in Verbs, NEW s \in Left[v], s # <<>>, Head(s) = "find"
  PROVE  /\ Len(s) \in 3..4
         /\ Tail(s) # <<>>
         /\ Tail(Tail(s)) \in Left[v]
         /\ Tail(Tail(s)) # <<>>
         /\ Head(Tail(s)) = "create"
         /\ Head(Tail(Tail(s))) \in {"set", "start"}
<1> USE DEF Left, VerbNames, Requests
<1>1. v \in VerbNames
  BY VerbsNamed
<1>2. CASE v = "pin"
  <2>1. CASE s = <<"active", "find", "create", "set", "readPin">>  BY <1>2, <2>1
  <2>2. CASE s = <<"find", "create", "set", "readPin">>  BY <1>2, <2>2
  <2>3. CASE s = <<"create", "set", "readPin">>  BY <1>2, <2>3
  <2>4. CASE s = <<"set", "readPin">>  BY <1>2, <2>4
  <2>5. CASE s = <<"readPin">>  BY <1>2, <2>5
  <2> QED BY <1>2, <2>1, <2>2, <2>3, <2>4, <2>5
<1>3. CASE v = "clear"
  <2>1. CASE s = <<"active", "unset", "readPin">>  BY <1>3, <2>1
  <2>2. CASE s = <<"unset", "readPin">>  BY <1>3, <2>2
  <2>3. CASE s = <<"readPin">>  BY <1>3, <2>3
  <2> QED BY <1>3, <2>1, <2>2, <2>3
<1>4. CASE v = "start"
  <2>1. CASE s = <<"find", "create", "start">>  BY <1>4, <2>1
  <2>2. CASE s = <<"create", "start">>  BY <1>4, <2>2
  <2>3. CASE s = <<"start">>  BY <1>4, <2>3
  <2> QED BY <1>4, <2>1, <2>2, <2>3
<1>5. CASE v = "stop"
  <2>1. CASE s = <<"stop">>  BY <1>5, <2>1
  <2> QED BY <1>5, <2>1
<1>6. CASE v = "stopIt"
  <2>1. CASE s = <<"isActive", "stop">>  BY <1>6, <2>1
  <2>2. CASE s = <<"stop">>  BY <1>6, <2>2
  <2> QED BY <1>6, <2>1, <2>2
<1> QED BY <1>1, <1>2, <1>3, <1>4, <1>5, <1>6

-----------------------------------------------------------------------------
(* The inductive invariant.                                                *)

Asked ==
  [verb : Verbs, dataset : Datasets \cup {None}, episode : Nat]

Typed ==
  /\ sessions \subseteq Datasets
  /\ pin \in Datasets \cup {None}
  /\ take \in Take /\ takes \in 0..MaxTakes
  /\ restarts \in 0..MaxRestarts
  /\ tick \in {"idle", "read", "off"} /\ held \in BOOLEAN /\ asked \in BOOLEAN
  /\ call \in [Handlers -> Asked]
  /\ DOMAIN todo = Handlers
  /\ said \in [Handlers -> {"none", "ok", "refused", "error"}]
  /\ since \in [Handlers -> {"nobody", "itself", "somebody"}]
  /\ quiet \in [Handlers -> BOOLEAN]

(* Only the last take is ever recording.                                   *)
LastTake == take # NoTake => take.id = takes

CallTyped(t) ==
  /\ todo[t] \in Left[call[t].verb]
  /\ InProgress(t) => said[t] = "none"
  /\ call[t].verb \in {"pin", "start"} => call[t].dataset \in Datasets
  /\ call[t].verb = "clear" => call[t].dataset = None

(* Until its last request a call has changed neither the pin nor the take; *)
(* past its first, a call for the pin has met a moment without a take, and *)
(* a stop that names its take has seen it recording.                       *)
CallTrue(t) ==
  /\ InProgress(t) /\ since[t] = "itself" => Request(t) = "readPin"
  /\ InProgress(t) /\ Request(t) = "readPin" /\ since[t] # "somebody" => pin = call[t].dataset
  /\ Pins(t) /\ Request(t) # "active" => quiet[t]
  /\ call[t].verb = "stopIt" =>
       /\ InProgress(t) /\ Request(t) = "stop" /\ since[t] = "nobody" => take.id = call[t].episode
       /\ since[t] = "itself" => call[t].episode = takes
       /\ call[t].episode # 0
  /\ since[t] # "somebody" =>
       /\ said[t] = "ok" => Promised(t)
       /\ said[t] = "refused" => since[t] = "nobody"

WebappInv == Typed /\ LastTake /\ \A t \in Handlers : CallTyped(t) /\ CallTrue(t)

-----------------------------------------------------------------------------
(* The invariant holds of a webapp at rest.                                *)
LEMMA WebappInit == Init => WebappInv
<1> SUFFICES ASSUME Init PROVE WebappInv
  OBVIOUS
<1>1. "clear" \in Verbs
  BY VerbsNamed DEF VerbNames
<1>2. Typed
  BY <1>1, WebappAssumption DEF Init, Typed, Take, NoTake, Asked, NoCall
<1>3. ASSUME NEW t \in Handlers PROVE CallTyped(t) /\ CallTrue(t)
  BY <1>1, LeftAtFirst DEF Init, CallTyped, CallTrue, InProgress, Pins, NoCall
<1> QED BY <1>2, <1>3 DEF WebappInv, LastTake, Init

(* What a step does to the call that makes it.                             *)

(* The requests behind the first, and behind the second.                   *)
LEMMA RestIsTail ==
  ASSUME NEW s \in Seq(Requests), s # <<>>
  PROVE  /\ SubSeq(s, 1 + 1, Len(s)) = Tail(s)
         /\ Len(s) \in 3..4 => SubSeq(s, 2 + 1, Len(s)) = Tail(Tail(s))
<1>1. SubSeq(s, 2, Len(s)) = Tail(s)
  BY TailIsSubSeq
<1>2. ASSUME Len(s) \in 3..4 PROVE SubSeq(s, 2 + 1, Len(s)) = Tail(Tail(s))
  <2>1. 2 \in 1..Len(s) /\ Len(s) \in 2..Len(s)
    BY <1>2
  <2>2. Tail(SubSeq(s, 2, Len(s))) = SubSeq(s, 2 + 1, Len(s))
    BY <2>1, HeadTailOfSubSeq
  <2> QED BY <1>1, <2>2
<1> QED BY <1>1, <1>2

(* A call that has had its answer goes on with the next request.           *)
LEMMA SkipsOne ==
  ASSUME Typed, NEW u \in Handlers, CallTyped(u), InProgress(u), Skips(u, 1)
  PROVE  /\ CallTyped(u)'
         /\ todo'[u] = Tail(todo[u])
         /\ call' = call
         /\ said'[u] = IF todo'[u] = <<>> THEN "ok" ELSE "none"
<1>1. call[u].verb \in Verbs /\ todo[u] \in Left[call[u].verb] /\ todo[u] # <<>>
  BY DEF Typed, CallTyped, InProgress, Asked
<1>2. /\ todo'[u] = SubSeq(todo[u], 1 + 1, Len(todo[u]))
      /\ said'[u] = IF Len(todo[u]) = 1 THEN "ok" ELSE "none"
      /\ call' = call
  BY DEF Skips, Typed
<1>3. todo'[u] = Tail(todo[u])
  BY <1>1, <1>2, LeftStep, RestIsTail
<1>4. Len(todo[u]) = 1 <=> todo'[u] = <<>>
  BY <1>1, <1>3, LeftStep
<1>5. Tail(todo[u]) \in Left[call[u].verb]
  BY <1>1, LeftStep
<1> QED BY <1>2, <1>3, <1>4, <1>5 DEF CallTyped, InProgress

(* A session that was found need not be created.                           *)
LEMMA SkipsTwo ==
  ASSUME Typed, NEW u \in Handlers, CallTyped(u), InProgress(u), Request(u) = "find", Skips(u, 2)
  PROVE  /\ CallTyped(u)'
         /\ todo'[u] = Tail(Tail(todo[u]))
         /\ call' = call
         /\ said'[u] = "none"
<1>1. call[u].verb \in Verbs /\ todo[u] \in Left[call[u].verb] /\ todo[u] # <<>>
  BY DEF Typed, CallTyped, InProgress, Asked
<1>2. Len(todo[u]) \in 3..4 /\ Tail(Tail(todo[u])) \in Left[call[u].verb]
  BY <1>1, FindStep DEF Request
<1>3. /\ todo'[u] = SubSeq(todo[u], 2 + 1, Len(todo[u]))
      /\ said'[u] = IF Len(todo[u]) = 2 THEN "ok" ELSE "none"
      /\ call' = call
  BY DEF Skips, Typed
<1>4. todo'[u] = Tail(Tail(todo[u]))
  BY <1>1, <1>2, <1>3, LeftStep, RestIsTail
<1>5. Len(todo[u]) # 2
  BY <1>2
<1> QED BY <1>2, <1>3, <1>4, <1>5 DEF CallTyped, InProgress

(* A call that ends is well typed.                                         *)
LEMMA EndsTyped ==
  ASSUME Typed, NEW u \in Handlers, NEW answer, Ends(u, answer)
  PROVE  /\ CallTyped(u)'
         /\ todo'[u] = <<>> /\ said'[u] = answer /\ call'[u] = NoCall
<1>1. todo'[u] = <<>> /\ said'[u] = answer /\ call'[u] = NoCall
  BY DEF Ends, Typed
<1>2. <<>> \in Left["clear"]
  BY LeftAtFirst, VerbsNamed DEF VerbNames
<1> QED BY <1>1, <1>2 DEF CallTyped, InProgress, NoCall

(* What everyone learns of it.                                             *)
LEMMA NoticedOf ==
  ASSUME NEW callers, Noticed(callers), NEW t \in Handlers
  PROVE  /\ UNCHANGED pinning => since'[t] = since[t]
         /\ ~UNCHANGED pinning /\ t \notin callers => since'[t] = "somebody"
         /\ ~UNCHANGED pinning /\ t \in callers =>
              since'[t] = IF since[t] = "nobody" THEN "itself" ELSE since[t]
         /\ quiet'[t] <=> Pins(t)' /\ (quiet[t] \/ take' = NoTake)
<1>1. since'[t] = IF UNCHANGED pinning \/ (t \in callers /\ since[t] # "nobody") THEN since[t]
                  ELSE IF t \in callers THEN "itself" ELSE "somebody"
  BY DEF Noticed
<1>2. quiet'[t] = (Pins(t)' /\ (quiet[t] \/ take' = NoTake))
  BY DEF Noticed
<1>3. quiet'[t] <=> Pins(t)' /\ (quiet[t] \/ take' = NoTake)
  BY <1>2, Zenon
<1> QED BY <1>1, <1>3

(* No step leaves the types, and the take is the last one numbered.        *)
LEMMA TypedStep == WebappInv /\ [Next]_vars => Typed' /\ LastTake'
<1> SUFFICES ASSUME WebappInv, [Next]_vars PROVE Typed' /\ LastTake'
  OBVIOUS
<1> USE WebappAssumption DEF WebappInv, Typed, LastTake, Take, NoTake, webapp, pinning, calls, upkeep
<1>1. ASSUME NEW t \in Handlers,
             Skips(t, 1) \/ Skips(t, 2) \/ Ends(t, "refused") \/ Ends(t, "error")
      PROVE  /\ call' \in [Handlers -> Asked]
             /\ DOMAIN todo' = Handlers
             /\ said' \in [Handlers -> {"none", "ok", "refused", "error"}]
  <2>1. NoCall \in Asked
    BY VerbsNamed DEF NoCall, Asked, VerbNames
  <2> QED BY <1>1, <2>1 DEF Skips, Ends
<1>2. ASSUME NEW callers, Noticed(callers)
      PROVE  /\ since' \in [Handlers -> {"nobody", "itself", "somebody"}]
             /\ quiet' \in [Handlers -> BOOLEAN]
  <2>1. since' \in [Handlers -> {"nobody", "itself", "somebody"}]
    BY <1>2 DEF Noticed
  <2>2. quiet' = [t \in Handlers |-> Pins(t)' /\ (quiet[t] \/ take' = NoTake)]
    BY <1>2 DEF Noticed
  <2>3. quiet' \in [Handlers -> BOOLEAN]
    BY <2>2 DEF Pins
  <2> QED BY <2>1, <2>3
<1>3. ASSUME NEW t \in Handlers, Begin(t) PROVE Typed' /\ LastTake'
  <2>0. PICK verb \in Verbs : \E ask \in Asks(verb) :
          /\ call' = [call EXCEPT ![t] = ask]
          /\ todo' = [todo EXCEPT ![t] = Plan[verb]]
    BY <1>3 DEF Begin
  <2>1. PICK ask \in Asks(verb) :
          /\ call' = [call EXCEPT ![t] = ask]
          /\ todo' = [todo EXCEPT ![t] = Plan[verb]]
    BY <2>0
  <2>2. ask \in Asked
    BY <2>1 DEF Asks, Asked
  <2>3. quiet' \in [Handlers -> BOOLEAN]
    BY <1>3 DEF Begin, Pins
  <2> QED BY <1>3, <2>1, <2>2, <2>3 DEF Begin
<1>4. ASSUME NEW t \in Handlers, ReadActive(t) PROVE Typed' /\ LastTake'
  BY <1>1, <1>2, <1>4 DEF ReadActive, Reads
<1>5. ASSUME NEW t \in Handlers, FindSession(t) PROVE Typed' /\ LastTake'
  BY <1>1, <1>2, <1>5 DEF FindSession, Reads
<1>6. ASSUME NEW t \in Handlers, ReadPin(t) PROVE Typed' /\ LastTake'
  BY <1>1, <1>2, <1>6 DEF ReadPin, Reads
<1>7. ASSUME NEW t \in Handlers, Raises(t) PROVE Typed' /\ LastTake'
  BY <1>1, <1>2, <1>7 DEF Raises, Reads
<1>8. ASSUME NEW t \in Handlers, Mutates(t) PROVE Typed' /\ LastTake'
  <2>1. /\ call' \in [Handlers -> Asked]
        /\ DOMAIN todo' = Handlers
        /\ said' \in [Handlers -> {"none", "ok", "refused", "error"}]
        /\ since' \in [Handlers -> {"nobody", "itself", "somebody"}]
        /\ quiet' \in [Handlers -> BOOLEAN]
    BY <1>1, <1>2, <1>8 DEF Mutates
  <2>2. call[t].dataset \in Datasets \cup {None}
    BY DEF Asked
  <2>3. /\ pin' \in Datasets \cup {None}
        /\ take' \in Take /\ takes' \in 0..MaxTakes
        /\ LastTake'
    BY <1>8, <2>2 DEF Mutates, Mutation
  <2>4. sessions' \subseteq Datasets
    <3>1. Asking(t, "create") => call[t].dataset \in Datasets
      <4> SUFFICES ASSUME Asking(t, "create") PROVE call[t].verb \in {"pin", "start"}
        BY DEF CallTyped
      <4> QED BY LeftStep DEF Asking, InProgress, Request, CallTyped, Asked
    <3> QED BY <1>8, <3>1 DEF Mutates, Mutation
  <2> QED BY <1>8, <2>1, <2>3, <2>4 DEF Mutates
<1>9. CASE Tick
  BY <1>9 DEF Tick, TickBegins, ReadsBuffer, TurnsOff, TickFails, Upkeep
<1>10. CASE Outside
  BY <1>2, <1>10 DEF Outside
<1>11. CASE Restart
  BY <1>2, <1>11 DEF Restart
<1>12. CASE Back
  BY <1>12 DEF Back
<1>13. CASE UNCHANGED vars
  BY <1>13 DEF vars
<1>14. CASE Reconfigure
  BY <1>14 DEF Reconfigure
<1> QED BY <1>3, <1>4, <1>5, <1>6, <1>7, <1>8, <1>9, <1>10, <1>11, <1>12, <1>13, <1>14 DEF Next

(* A call that does not step stays true: whoever changed the pin or the    *)
(* take then is somebody to it.                                            *)
LEMMA OthersKeep ==
  ASSUME NEW t \in Handlers, CallTyped(t), CallTrue(t),
         call'[t] = call[t], todo'[t] = todo[t], said'[t] = said[t],
         UNCHANGED pinning => since'[t] = since[t],
         ~UNCHANGED pinning => since'[t] = "somebody",
         UNCHANGED pinning => takes' = takes,
         quiet[t] /\ Pins(t) => quiet'[t]
  PROVE  CallTyped(t)' /\ CallTrue(t)'
<1>1. CallTyped(t)'
  BY DEF CallTyped, InProgress
<1>2. CASE UNCHANGED pinning
  <2>1. since'[t] = since[t] /\ takes' = takes /\ pin' = pin /\ take' = take
    BY <1>2 DEF pinning
  <2> QED BY <1>1, <2>1 DEF CallTrue, InProgress, Request, Pins, Promised
<1>3. CASE ~UNCHANGED pinning
  <2>1. since'[t] = "somebody"
    BY <1>3
  <2> QED BY <1>1, <2>1 DEF CallTrue, InProgress, Request, Pins
<1> QED BY <1>2, <1>3

(* A call that ends without an ok, and with its words left out.            *)
LEMMA EndKeeps ==
  ASSUME Typed, NEW u \in Handlers, NEW answer \in {"refused", "error"}, Ends(u, answer),
         answer = "refused" => since'[u] \in {"nobody", "somebody"}
  PROVE  CallTyped(u)' /\ CallTrue(u)'
<1>1. CallTyped(u)' /\ todo'[u] = <<>> /\ said'[u] = answer /\ call'[u] = NoCall
  BY EndsTyped
<1> QED BY <1>1 DEF CallTrue, InProgress, Pins, NoCall

(* A call that only reads: what it has not seen change has not changed.    *)
LEMMA ReadsOn ==
  ASSUME Typed, NEW u \in Handlers, CallTyped(u), CallTrue(u), InProgress(u),
         call' = call, CallTyped(u)', UNCHANGED webapp, since'[u] = since[u],
         Request(u) # "readPin", todo'[u] # <<>>,
         Head(todo'[u]) # "readPin", Head(todo'[u]) # "active",
         Pins(u)' => quiet'[u],
         call[u].verb = "stopIt" => take.id = call[u].episode
  PROVE  CallTrue(u)'
<1>1. since[u] # "itself"
  BY DEF CallTrue
<1>2. said'[u] = "none"
  BY DEF CallTyped, InProgress
<1>3. pin' = pin /\ take' = take /\ takes' = takes
  BY DEF webapp
<1> QED BY <1>1, <1>2, <1>3 DEF CallTrue, InProgress, Request

-----------------------------------------------------------------------------
(* One lemma for each step of a call.                                      *)

LEMMA ReadActiveKeeps ==
  ASSUME WebappInv, NEW u \in Handlers, ReadActive(u)
  PROVE  CallTyped(u)' /\ CallTrue(u)'
<1> USE DEF WebappInv
<1>0. /\ Typed /\ CallTyped(u) /\ CallTrue(u) /\ InProgress(u)
      /\ Request(u) \in {"active", "isActive"}
      /\ UNCHANGED webapp /\ Noticed({u})
  BY DEF ReadActive, Asking, Reads
<1>1. since'[u] = since[u] /\ (quiet'[u] <=> Pins(u)' /\ (quiet[u] \/ take' = NoTake))
  BY <1>0, NoticedOf DEF webapp, pinning
<1>2. CASE Ends(u, "refused")
  <2>1. since[u] \in {"nobody", "somebody"}
    BY <1>0 DEF CallTrue, Typed
  <2> QED BY <1>0, <1>1, <1>2, <2>1, EndKeeps
<1>3. CASE /\ Skips(u, 1)
           /\ Request(u) = "active" => take = NoTake
           /\ Request(u) = "isActive" => take.id = call[u].episode
  <2>1. CallTyped(u)' /\ todo'[u] = Tail(todo[u]) /\ call' = call
    BY <1>0, <1>3, SkipsOne
  <2>2. call[u].verb \in Verbs /\ todo[u] \in Left[call[u].verb] /\ todo[u] # <<>>
    BY <1>0 DEF Typed, Asked, CallTyped, InProgress
  <2>3. todo'[u] # <<>> /\ Head(todo'[u]) # "readPin" /\ Head(todo'[u]) # "active"
    BY <1>0, <2>1, <2>2, LeftStep DEF Request
  <2>4. /\ call[u].verb = "stopIt" => Request(u) = "isActive"
        /\ Request(u) = "isActive" => call[u].verb = "stopIt"
    BY <1>0, <2>2, LeftStep DEF Request
  <2>5. Pins(u)' => quiet'[u]
    <3>1. Pins(u)' => Request(u) = "active"
      BY <1>0, <2>1, <2>4 DEF Pins
    <3> QED BY <1>0, <1>1, <1>3, <3>1 DEF webapp
  <2>6. call[u].verb = "stopIt" => take.id = call[u].episode
    BY <1>3, <2>4
  <2> QED BY <1>0, <1>1, <2>1, <2>3, <2>5, <2>6, ReadsOn
<1> QED BY <1>2, <1>3 DEF ReadActive, Asking

(* Looking for a session keeps the call's invariant.                       *)
LEMMA FindSessionKeeps ==
  ASSUME WebappInv, NEW u \in Handlers, FindSession(u)
  PROVE  CallTyped(u)' /\ CallTrue(u)'
<1> USE DEF WebappInv
<1>0. /\ Typed /\ CallTyped(u) /\ CallTrue(u) /\ InProgress(u)
      /\ Request(u) = "find"
      /\ UNCHANGED webapp /\ Noticed({u})
      /\ Skips(u, 1) \/ Skips(u, 2)
  BY DEF FindSession, Asking, Reads
<1>1. since'[u] = since[u] /\ (quiet'[u] <=> Pins(u)' /\ (quiet[u] \/ take' = NoTake))
  BY <1>0, NoticedOf DEF webapp, pinning
<1>2. call[u].verb \in Verbs /\ todo[u] \in Left[call[u].verb] /\ todo[u] # <<>>
  BY <1>0 DEF Typed, Asked, CallTyped, InProgress
<1>3. /\ CallTyped(u)' /\ call' = call
      /\ todo'[u] = Tail(todo[u]) \/ todo'[u] = Tail(Tail(todo[u]))
  BY <1>0, SkipsOne, SkipsTwo
<1>4. todo'[u] # <<>> /\ Head(todo'[u]) \in {"create", "set", "start"}
  BY <1>0, <1>2, <1>3, FindStep DEF Request
<1>5. Pins(u)' => quiet'[u]
  BY <1>0, <1>1, <1>3 DEF Pins, CallTrue
<1>6. call[u].verb # "stopIt"
  BY <1>0, <1>2, LeftStep DEF Request
<1> QED BY <1>0, <1>1, <1>3, <1>4, <1>5, <1>6, ReadsOn

(* The read that is trusted: silence is read as no pin, and then the call  *)
(* no longer knows what it did.                                            *)
LEMMA ReadPinKeeps ==
  ASSUME WebappInv, NEW u \in Handlers, ReadPin(u)
  PROVE  CallTyped(u)' /\ CallTrue(u)'
<1> USE DEF WebappInv
<1>0. /\ Typed /\ CallTyped(u) /\ CallTrue(u) /\ InProgress(u)
      /\ Request(u) = "readPin" /\ UNCHANGED webapp
  BY DEF ReadPin, Asking, Reads
<1>2. call[u].verb \in Verbs /\ todo[u] \in Left[call[u].verb] /\ todo[u] # <<>>
  BY <1>0 DEF Typed, Asked, CallTyped, InProgress
<1>3. call[u].verb \in {"pin", "clear"} /\ Tail(todo[u]) = <<>>
  BY <1>0, <1>2, LeftStep DEF Request
<1>4. since'[u] = since[u] \/ since'[u] = "somebody"
  <2>1. Noticed({u}) => since'[u] = since[u]
    BY <1>0, NoticedOf DEF webapp, pinning
  <2> QED BY <1>0, <2>1 DEF ReadPin, Reads, Typed
<1>5. CASE Skips(u, 1)
  <2>1. CallTyped(u)' /\ todo'[u] = <<>> /\ call' = call /\ said'[u] = "ok"
    BY <1>0, <1>3, <1>5, SkipsOne
  <2>2. pin' = pin /\ (since'[u] # "somebody" => pin = call[u].dataset)
    BY <1>0, <1>4 DEF CallTrue, webapp
  <2> QED BY <1>3, <2>1, <2>2 DEF CallTrue, InProgress, Pins, Promised
<1>6. CASE Ends(u, "refused")
  <2>1. since'[u] = "somebody"
    <3>1. CASE since[u] = "somebody"
      BY <1>4, <3>1
    <3>2. CASE since[u] # "somebody"
      <4>1. pin = call[u].dataset
        BY <1>0, <3>2 DEF CallTrue
      <4>2. ~Skips(u, 1)
        BY <1>0, <1>2, <1>3, <1>6, SkipsOne, EndsTyped
      <4> QED BY <1>0, <4>1, <4>2 DEF ReadPin, Typed
    <3> QED BY <3>1, <3>2
  <2> QED BY <1>0, <1>6, <2>1, EndKeeps
<1> QED BY <1>5, <1>6 DEF ReadPin

(* A request that raises ends its call with an error.                      *)
LEMMA RaisesKeeps ==
  ASSUME WebappInv, NEW u \in Handlers, Raises(u)
  PROVE  CallTyped(u)' /\ CallTrue(u)'
  BY EndKeeps DEF Raises, WebappInv

(* A call that begins has its invariant.                                   *)
LEMMA BeginKeeps ==
  ASSUME WebappInv, NEW u \in Handlers, Begin(u)
  PROVE  CallTyped(u)' /\ CallTrue(u)'
<1> USE DEF WebappInv
<1>1. PICK verb \in Verbs : \E ask \in Asks(verb) :
        /\ call' = [call EXCEPT ![u] = ask]
        /\ todo' = [todo EXCEPT ![u] = Plan[verb]]
  BY DEF Begin
<1>2. PICK ask \in Asks(verb) :
        /\ call' = [call EXCEPT ![u] = ask]
        /\ todo' = [todo EXCEPT ![u] = Plan[verb]]
  BY <1>1
<1>3. /\ call'[u] = ask /\ ask.verb = verb /\ todo'[u] = Plan[verb]
      /\ said'[u] = "none" /\ since'[u] = "nobody"
  BY <1>2 DEF Begin, Typed, Asks
<1>4. CallTyped(u)'
  BY <1>3, LeftAtFirst DEF CallTyped, Asks
<1>5. verb = "stopIt" => ask.episode # 0
  BY DEF Asks, Typed
<1> QED BY <1>3, <1>4, <1>5, LeftAtFirst DEF CallTrue, InProgress, Request, Pins

(* A mutation is done: its caller hears that, or takes it for an error.    *)
LEMMA MutatesKeeps ==
  ASSUME WebappInv, NEW u \in Handlers, Mutates(u)
  PROVE  CallTyped(u)' /\ CallTrue(u)'
<1> USE DEF WebappInv
<1>0. /\ Typed /\ CallTyped(u) /\ CallTrue(u) /\ InProgress(u)
      /\ Request(u) \in {"create", "set", "unset", "start", "stop"}
      /\ Mutation(u, call[u].dataset)
  BY DEF Mutates, Mutation, Asking
<1>1. call[u].verb \in Verbs /\ todo[u] \in Left[call[u].verb] /\ todo[u] # <<>>
  BY <1>0 DEF Typed, Asked, CallTyped, InProgress
<1>2. CASE Ends(u, "error")
  BY <1>0, <1>2, EndKeeps
<1>3. CASE Skips(u, 1) /\ Noticed({u})
  <2>1. /\ CallTyped(u)' /\ todo'[u] = Tail(todo[u]) /\ call' = call
        /\ said'[u] = IF todo'[u] = <<>> THEN "ok" ELSE "none"
    BY <1>0, <1>3, SkipsOne
  <2>2. /\ UNCHANGED pinning => since'[u] = since[u]
        /\ ~UNCHANGED pinning => since'[u] = IF since[u] = "nobody" THEN "itself" ELSE since[u]
        /\ quiet'[u] <=> Pins(u)' /\ (quiet[u] \/ take' = NoTake)
    BY <1>3, NoticedOf
  <2>3. since[u] \in {"nobody", "somebody"}
    BY <1>0 DEF CallTrue, Typed
  <2>4. Pins(u)' => quiet'[u]
    BY <1>0, <2>1, <2>2 DEF CallTrue, Pins
  <2>5. CASE Request(u) = "create"
    <3>1. todo'[u] # <<>> /\ Head(todo'[u]) # "readPin"
      BY <1>1, <2>1, <2>5, LeftStep DEF Request
    <3>2. since'[u] = since[u]
      BY <1>0, <2>2, <2>5 DEF Mutation, Asking, pinning
    <3>3. call[u].verb # "stopIt"
      BY <1>1, <2>5, LeftStep DEF Request
    <3> QED BY <2>1, <2>3, <2>4, <3>1, <3>2, <3>3 DEF CallTrue, InProgress, Request
  <2>6. CASE Request(u) \in {"set", "unset"}
    <3>1. todo'[u] # <<>> /\ Head(todo'[u]) = "readPin" /\ call[u].verb \in {"pin", "clear"}
      <4>1. Tail(todo[u]) # <<>>
        BY <1>1, <2>6, LeftStep DEF Request
      <4>2. Head(Tail(todo[u])) = "readPin" /\ call[u].verb \in {"pin", "clear"}
        BY <1>1, <2>6, LeftStep DEF Request
      <4> QED BY <2>1, <4>1, <4>2
    <3>2. pin' = call[u].dataset
      <4>1. Request(u) = "unset" => call[u].dataset = None
        BY <1>0, <1>1, LeftStep DEF Request, CallTyped
      <4> QED BY <1>0, <2>6, <4>1 DEF Mutation, Asking
    <3> QED BY <2>1, <2>4, <3>1, <3>2 DEF CallTrue, InProgress, Request
  <2>7. CASE Request(u) = "start"
    <3>1. todo'[u] = <<>> /\ call[u].verb = "start"
      BY <1>1, <2>1, <2>7, LeftStep DEF Request
    <3>2. take'.into = call[u].dataset
      BY <1>0, <2>7 DEF Mutation, Asking
    <3> QED BY <2>1, <3>1, <3>2 DEF CallTrue, InProgress, Pins, Promised
  <2>8. CASE Request(u) = "stop"
    <3>1. todo'[u] = <<>> /\ call[u].verb \in {"stop", "stopIt"}
      BY <1>1, <2>1, <2>8, LeftStep DEF Request
    <3>2. take' = NoTake /\ pin' = pin /\ takes' = takes
      BY <1>0, <2>8 DEF Mutation, Asking
    <3>3. ASSUME call[u].verb = "stopIt", since'[u] = "itself" PROVE call[u].episode = takes
      <4>1. since[u] = "nobody" /\ take # NoTake
        BY <2>2, <2>3, <3>2, <3>3 DEF pinning
      <4>2. take.id = call[u].episode
        BY <1>0, <2>8, <3>3, <4>1 DEF CallTrue
      <4> QED BY <4>1, <4>2 DEF LastTake
    <3>4. call[u].verb = "stopIt" => call[u].episode # 0
      BY <1>0 DEF CallTrue
    <3> QED BY <2>1, <3>1, <3>2, <3>3, <3>4 DEF CallTrue, InProgress, Pins, Promised
  <2> QED BY <1>0, <2>5, <2>6, <2>7, <2>8
<1> QED BY <1>2, <1>3 DEF Mutates

(* Every step keeps the inductive invariant.                               *)
LEMMA WebappStep == WebappInv /\ [Next]_vars => WebappInv'
<1> SUFFICES ASSUME WebappInv, [Next]_vars, NEW t \in Handlers
             PROVE  CallTyped(t)' /\ CallTrue(t)'
  BY TypedStep DEF WebappInv
<1>0. CallTyped(t) /\ CallTrue(t) /\ Typed /\ LastTake
  BY DEF WebappInv
<1>1. ASSUME NEW u \in Handlers, u # t,
             Begin(u) \/ ReadActive(u) \/ FindSession(u) \/ ReadPin(u) \/ Mutates(u) \/ Raises(u)
      PROVE  CallTyped(t)' /\ CallTrue(t)'
  <2>1. call'[t] = call[t] /\ todo'[t] = todo[t] /\ said'[t] = said[t]
    BY <1>0, <1>1 DEF Typed, Begin, ReadActive, FindSession, ReadPin, Mutates, Raises, Skips, Ends
  <2>2. UNCHANGED pinning => takes' = takes
    BY <1>0, <1>1 DEF Begin, ReadActive, FindSession, ReadPin, Mutates, Mutation, Raises, Reads,
       webapp, pinning, Typed, NoTake
  <2>3. CASE \E callers : Noticed(callers) /\ t \notin callers
    <3>1. PICK callers : Noticed(callers) /\ t \notin callers
      BY <2>3
    <3>2. /\ UNCHANGED pinning => since'[t] = since[t]
          /\ ~UNCHANGED pinning => since'[t] = "somebody"
          /\ quiet'[t] <=> Pins(t)' /\ (quiet[t] \/ take' = NoTake)
      BY <3>1, NoticedOf
    <3>3. quiet[t] /\ Pins(t) => quiet'[t]
      BY <2>1, <3>2 DEF Pins, InProgress
    <3> QED BY <1>0, <2>1, <2>2, <3>2, <3>3, OthersKeep
  <2>4. CASE UNCHANGED pinning /\ since'[t] = since[t] /\ quiet'[t] = quiet[t]
    BY <1>0, <2>1, <2>2, <2>4, OthersKeep
  <2>5. \/ \E callers : Noticed(callers) /\ t \notin callers
        \/ UNCHANGED pinning /\ since'[t] = since[t] /\ quiet'[t] = quiet[t]
    BY <1>0, <1>1 DEF Begin, ReadActive, FindSession, ReadPin, Mutates, Raises, Reads,
       webapp, pinning, Typed
  <2> QED BY <2>3, <2>4, <2>5
<1>2. CASE Outside \/ Restart
  <2>1. Noticed({}) /\ UNCHANGED calls
    BY <1>2 DEF Outside, Restart
  <2>2. /\ UNCHANGED pinning => since'[t] = since[t]
        /\ ~UNCHANGED pinning => since'[t] = "somebody"
        /\ quiet'[t] <=> Pins(t)' /\ (quiet[t] \/ take' = NoTake)
    BY <2>1, NoticedOf
  <2>3. quiet[t] /\ Pins(t) => quiet'[t]
    BY <2>1, <2>2 DEF Pins, InProgress, calls
  <2>4. UNCHANGED pinning => takes' = takes
    BY <1>0, <1>2 DEF Outside, Restart, pinning, NoTake, Typed
  <2> QED BY <1>0, <2>1, <2>2, <2>3, <2>4, OthersKeep DEF calls
<1>3. CASE Tick \/ Reconfigure \/ Back \/ UNCHANGED vars
  <2>1. UNCHANGED <<pin, take, takes, calls, since, quiet>>
    BY <1>3 DEF Tick, TickBegins, ReadsBuffer, TurnsOff, TickFails, Upkeep, Reconfigure,
       Back, vars, webapp
  <2> QED BY <1>0, <2>1, OthersKeep DEF calls, pinning
<1> QED BY <1>1, <1>2, <1>3, BeginKeeps, ReadActiveKeeps, FindSessionKeeps, ReadPinKeeps,
        MutatesKeeps, RaisesKeeps DEF Next

-----------------------------------------------------------------------------
(* Whatever the calls, the headset, the web page and the restarts, every   *)
(* call is as far as its verb's plan and as true as its answer.            *)
THEOREM WebappHolds == Spec => []WebappInv
  BY WebappInit, WebappStep, PTL DEF Spec

(* Every variable stays in its type, and no call answers before its end.   *)
THEOREM WebappTyped == Spec => []TypeOK
<1>1. WebappInv => TypeOK
  BY DEF WebappInv, Typed, TypeOK, CallTyped, Asked
<1> QED BY <1>1, WebappHolds, PTL

(* An ok of session or record is true, and a refusal has changed nothing,  *)
(* until somebody else changes the pin or the take.                        *)
THEOREM RecordingTrue == Spec => []AnswerIsTrue
<1>1. WebappInv => AnswerIsTrue
  BY DEF WebappInv, CallTrue, AnswerIsTrue
<1> QED BY <1>1, WebappHolds, PTL

(* session set and clear change the pin only after they saw nothing record,*)
(* however the headset and other calls run between the two requests.       *)
THEOREM PinIdle == Spec => []PinWasIdle
<1>1. WebappInv => PinWasIdle
  BY LeftStep DEF WebappInv, Typed, Asked, CallTyped, CallTrue, PinWasIdle, InProgress, Request, Pins
<1> QED BY <1>1, WebappHolds, PTL

(* record stop with an episode ends that take and no other, when nobody    *)
(* else has changed the take since it began.                               *)
THEOREM StopFound == Spec => []StopFoundItsTake
<1>1. WebappInv => StopFoundItsTake
  BY DEF WebappInv, CallTrue, StopFoundItsTake
<1> QED BY <1>1, WebappHolds, PTL

(* A tick that has begun was asked for by the configuration.               *)
TickAsked == (tick # "idle" => asked) /\ (tick = "idle" => asked = held)

(* The upkeep turns off no buffer that its robot's configuration has not   *)
(* asked it to (CycloneDDS off, or an operator who keeps the buffer).      *)
THEOREM OptedOut == Spec => OptedOutKept
<1>1. Init => TickAsked
  BY DEF Init, TickAsked
<1>2. TickAsked /\ Typed /\ [Next]_vars => TickAsked'
  <2> SUFFICES ASSUME TickAsked, Typed, [Next]_vars PROVE TickAsked'
    OBVIOUS
  <2>1. CASE UNCHANGED upkeep
    BY <2>1 DEF TickAsked, upkeep
  <2>2. CASE TickBegins
    BY <2>2 DEF TickAsked, TickBegins, Upkeep, Typed
  <2>3. CASE ReadsBuffer
    BY <2>3 DEF TickAsked, ReadsBuffer, Upkeep
  <2>4. CASE TurnsOff
    BY <2>4 DEF TickAsked, TurnsOff, Upkeep
  <2>5. CASE TickFails
    BY <2>5 DEF TickAsked, TickFails, Upkeep
  <2>6. CASE Reconfigure
    <3>1. tick = "idle" => asked' = held'
      BY <2>6 DEF Reconfigure, Typed
    <3>2. tick # "idle" => asked'
      BY <2>6 DEF Reconfigure, TickAsked
    <3> QED BY <2>6, <3>1, <3>2 DEF Reconfigure, TickAsked
  <2>7. UNCHANGED upkeep \/ Tick \/ Reconfigure
    BY DEF Next, vars, Begin, ReadActive, FindSession, ReadPin, Mutates, Raises, Reads,
       Outside, Restart, Back
  <2> QED BY <2>1, <2>2, <2>3, <2>4, <2>5, <2>6, <2>7 DEF Tick
<1>3. TickAsked /\ [Next]_vars => [buffer /\ ~buffer' => asked]_vars
  <2> SUFFICES ASSUME TickAsked, Next, buffer, ~buffer' PROVE asked
    OBVIOUS
  <2>1. buffer' = buffer \/ buffer' = TRUE \/ TurnsOff
    BY DEF Next, Begin, ReadActive, FindSession, ReadPin, Mutates, Raises, Reads, webapp,
       Outside, Restart, Back, Tick, TickBegins, ReadsBuffer, TickFails, Upkeep, Reconfigure
  <2> QED BY <2>1 DEF TurnsOff, TickAsked
<1>4. WebappInv => Typed
  BY DEF WebappInv
<1> QED BY <1>1, <1>2, <1>3, <1>4, WebappHolds, PTL DEF Spec, OptedOutKept
=============================================================================
