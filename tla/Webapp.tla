------------------------------- MODULE Webapp -------------------------------
(***************************************************************************)
(* anvil.py and trpc.py: recording, the pinned session and the replay      *)
(* buffer are kept by the Anvil's webapp, which forgets the pin when it    *)
(* restarts.  A call is a few requests to it; the headset and the web page *)
(* change the same state in between, and upkeep does so on a timer.        *)
(***************************************************************************)
EXTENDS Naturals, Sequences

CONSTANTS
  Handlers,       \* calls in progress at the same time
  Datasets,
  None,
  MaxTakes,       \* bound: takes
  MaxRestarts     \* bound: restarts of the webapp

ASSUME WebappAssumption ==
  None \notin Datasets /\ MaxTakes \in Nat /\ MaxRestarts \in Nat

VARIABLES
  sessions,       \* the datasets that have a session
  pin,            \* the session the headset records into
  take,           \* the take that is recording, and its session
  takes,          \* the takes so far, each named by its number
  buffer,         \* whether the replay buffer is on
  away,           \* whether the webapp is restarting
  restarts,
  call,           \* what each call asks
  todo,           \* the requests it has yet to make
  said,           \* its answer
  since,          \* history: who has changed the pin or the take since it began
  quiet,          \* history: nothing was recording at some moment of a pin's call
  held,           \* whether the configuration asks for the buffer to be off
  tick,           \* where the upkeep thread is
  asked           \* history: the configuration has asked for it in this tick

webapp  == <<sessions, pin, take, takes, buffer, away, restarts>>
pinning == <<pin, take>>
calls   == <<call, todo, said>>
upkeep  == <<held, tick, asked>>
vars    == <<webapp, calls, since, quiet, upkeep>>

NoTake == [id |-> 0, into |-> None]
Take   == [id : 0..MaxTakes, into : Datasets \cup {None}]

Plan ==
  [ pin   |-> <<"active", "find", "create", "set", "readPin">>,
    clear |-> <<"active", "unset", "readPin">>,
    start |-> <<"find", "create", "start">>,
    stop  |-> <<"stop">>,
    stopIt |-> <<"isActive", "stop">> ]

Verbs == DOMAIN Plan

NoCall == [verb |-> "clear", dataset |-> None, episode |-> 0]

-----------------------------------------------------------------------------
(* Helpers.                                                                *)

InProgress(t) == todo[t] # <<>>
Request(t)    == Head(todo[t])

(* Mutant: a refusal is answered and the call goes on.                     *)
Answers(t, answer) ==
  /\ todo' = [todo EXCEPT ![t] = Tail(@)]
  /\ said' = [said EXCEPT ![t] = answer]
  /\ UNCHANGED call

(* A call that did not do what it was asked ends, whatever that was.       *)
Ends(t, answer) ==
  /\ todo' = [todo EXCEPT ![t] = <<>>]
  /\ said' = [said EXCEPT ![t] = answer]
  /\ call' = [call EXCEPT ![t] = NoCall]

(* Go on behind the next n requests.                                       *)
Skips(t, n) ==
  /\ todo' = [todo EXCEPT ![t] = SubSeq(@, n + 1, Len(@))]
  /\ said' = [said EXCEPT ![t] = IF Len(todo[t]) = n THEN "ok" ELSE "none"]
  /\ UNCHANGED call

(* A call that is about to change the pin.                                 *)
Pins(t) == InProgress(t) /\ call[t].verb \in {"pin", "clear"}

(* What a step of one caller, or of nobody's call, means to the others.  A *)
(* call that does not know what its own request did counts as somebody.    *)
Noticed(callers) ==
  /\ since' = [t \in Handlers |->
       IF UNCHANGED pinning \/ (t \in callers /\ since[t] # "nobody") THEN since[t]
       ELSE IF t \in callers THEN "itself" ELSE "somebody"]
  /\ quiet' = [t \in Handlers |-> Pins(t)' /\ (quiet[t] \/ take' = NoTake)]

-----------------------------------------------------------------------------
Init ==
  /\ sessions \in SUBSET Datasets
  /\ pin = None
  /\ take = NoTake
  /\ takes = 0
  /\ buffer = TRUE
  /\ away = FALSE
  /\ restarts = 0
  /\ call = [t \in Handlers |-> NoCall]
  /\ todo = [t \in Handlers |-> <<>>]
  /\ said = [t \in Handlers |-> "none"]
  /\ since = [t \in Handlers |-> "nobody"]
  /\ quiet = [t \in Handlers |-> FALSE]
  /\ held \in BOOLEAN
  /\ tick = "idle"
  /\ asked = held

-----------------------------------------------------------------------------
(* session set and clear, record start and stop; a stop may name its take. *)

Asks(verb) ==
  [ verb    : {verb},
    dataset : IF verb \in {"pin", "start"} THEN Datasets ELSE {None},
    episode : IF verb = "stopIt" THEN 1..takes ELSE {0} ]

Begin(t) ==
  /\ ~InProgress(t)
  /\ \E verb \in Verbs : \E ask \in Asks(verb) :
       /\ call' = [call EXCEPT ![t] = ask]
       /\ todo' = [todo EXCEPT ![t] = Plan[verb]]
  /\ said' = [said EXCEPT ![t] = "none"]
  /\ since' = [since EXCEPT ![t] = "nobody"]
  /\ quiet' = [quiet EXCEPT ![t] = Pins(t)' /\ take = NoTake]
  /\ UNCHANGED <<webapp, upkeep>>

(* A request reaches a webapp that is there.                               *)
Asking(t, request) == InProgress(t) /\ Request(t) = request /\ ~away

Reads(t) == UNCHANGED <<webapp, upkeep>> /\ Noticed({t})

(* Mutant: the pin is changed whatever is recording.                       *)
ReadActiveIgnored(t) ==
  /\ Asking(t, "active")
  /\ Skips(t, 1)
  /\ Reads(t)

(* Mutant: any take that is recording is taken for the one that was named. *)
ReadActiveAny(t) ==
  /\ \/ Asking(t, "active") /\ IF take = NoTake THEN Skips(t, 1) ELSE Ends(t, "refused")
     \/ Asking(t, "isActive") /\ IF take # NoTake THEN Skips(t, 1) ELSE Ends(t, "refused")
  /\ Reads(t)

(* A pin is not changed under a take, and what is not the take is not      *)
(* stopped.                                                                *)
ReadActive(t) ==
  /\ \/ Asking(t, "active") /\ IF take = NoTake THEN Skips(t, 1) ELSE Ends(t, "refused")
     \/ Asking(t, "isActive") /\ IF take.id = call[t].episode THEN Skips(t, 1) ELSE Ends(t, "refused")
  /\ Reads(t)

FindSession(t) ==
  /\ Asking(t, "find")
  /\ Skips(t, IF call[t].dataset \in sessions THEN 2 ELSE 1)
  /\ Reads(t)

(* The last thing a pin does, and the one that is trusted.  Silence after  *)
(* the subscription has begun is read as no pin.                           *)
ReadPin(t) ==
  /\ Asking(t, "readPin")
  /\ \/ /\ IF pin = call[t].dataset THEN Skips(t, 1) ELSE Ends(t, "refused")
        /\ Reads(t)
     \/ /\ pin # None
        /\ IF call[t].dataset = None THEN Skips(t, 1) ELSE Ends(t, "refused")
        /\ quiet' = [quiet EXCEPT ![t] = FALSE]
        /\ since' = [since EXCEPT ![t] = "somebody"]
        /\ UNCHANGED <<webapp, upkeep>>

(* Mutant: a start that names no session, which records into the pin.      *)
StartsUnnamed(t, dataset) ==
  /\ Asking(t, "start")
  /\ take = NoTake /\ takes < MaxTakes
  /\ takes' = takes + 1
  /\ take' = [id |-> takes + 1, into |-> pin]
  /\ UNCHANGED <<sessions, pin>>

(* What the webapp does of a mutation.                                     *)
Mutation(t, dataset) ==
  \/ /\ Asking(t, "create")
     /\ dataset \notin sessions
     /\ sessions' = sessions \cup {dataset}
     /\ UNCHANGED <<pin, take, takes>>
  \/ /\ Asking(t, "set")
     /\ pin' = dataset
     /\ UNCHANGED <<sessions, take, takes>>
  \/ /\ Asking(t, "unset")
     /\ pin' = None
     /\ UNCHANGED <<sessions, take, takes>>
  \/ /\ Asking(t, "start")
     /\ take = NoTake /\ takes < MaxTakes
     /\ takes' = takes + 1
     /\ take' = [id |-> takes + 1, into |-> dataset]
     /\ UNCHANGED <<sessions, pin>>
  \/ /\ Asking(t, "stop")
     /\ take' = NoTake
     /\ UNCHANGED <<sessions, pin, takes>>

Mutates(t) ==
  /\ Mutation(t, call[t].dataset)
  /\ UNCHANGED <<buffer, away, restarts, upkeep>>
  /\ \/ Skips(t, 1) /\ Noticed({t})
     \/ Ends(t, "error") /\ Noticed({})

(* The webapp is away, or answers a mutation with an error.                *)
Raises(t) ==
  /\ InProgress(t)
  /\ away \/ Request(t) \in {"create", "set", "unset", "start", "stop"}
  /\ Ends(t, "error")
  /\ Reads(t)

-----------------------------------------------------------------------------
(* maintain_forever: a failure is logged, and the next tick tries again.   *)

Upkeep == UNCHANGED <<sessions, pin, take, takes, away, restarts, calls, since, quiet, held>>

(* Mutant: the configuration is not asked.                                 *)
TickAlways ==
  /\ tick = "idle"
  /\ tick' = "read"
  /\ UNCHANGED <<buffer, asked>> /\ Upkeep

(* CycloneDDS is on and nobody has asked to keep the buffer.               *)
TickBegins ==
  /\ tick = "idle"
  /\ tick' = IF held THEN "read" ELSE "idle"
  /\ UNCHANGED <<buffer, asked>> /\ Upkeep

ReadsBuffer ==
  /\ tick = "read" /\ ~away
  /\ tick' = IF buffer THEN "off" ELSE "idle"
  /\ asked' = IF buffer THEN asked ELSE held
  /\ UNCHANGED buffer /\ Upkeep

(* Answered or not.                                                        *)
TurnsOff ==
  /\ tick = "off" /\ ~away
  /\ tick' = "idle"
  /\ buffer' = FALSE
  /\ asked' = held
  /\ Upkeep

(* Mutant: a failure ends the upkeep.                                      *)
TickDies ==
  /\ tick # "idle"
  /\ tick' = "dead"
  /\ UNCHANGED <<buffer, asked>> /\ Upkeep

(* The webapp is away, is silent, or answers with an error or with nothing *)
(* that can be read.                                                       *)
TickFails ==
  /\ tick # "idle"
  /\ tick' = "idle"
  /\ asked' = held
  /\ UNCHANGED buffer /\ Upkeep

Tick == TickBegins \/ ReadsBuffer \/ TurnsOff \/ TickFails

(* .env.config is written: CycloneDDS is turned on or off.                 *)
Reconfigure ==
  /\ held' = ~held
  /\ asked' = (held' \/ (asked /\ tick # "idle"))
  /\ UNCHANGED <<webapp, calls, since, quiet, tick>>

-----------------------------------------------------------------------------
(* The headset and the web page.                                           *)

Outside ==
  /\ ~away
  /\ \/ /\ take = NoTake /\ takes < MaxTakes /\ pin # None
        /\ takes' = takes + 1
        /\ take' = [id |-> takes + 1, into |-> pin]
        /\ UNCHANGED pin
     \/ take' = NoTake /\ UNCHANGED <<pin, takes>>
     \/ pin' \in sessions \cup {None} /\ UNCHANGED <<take, takes>>
  /\ UNCHANGED <<sessions, buffer, away, restarts, calls, upkeep>>
  /\ Noticed({})

(* The stack restarts: the pin and a take are lost, and the buffer is on.  *)
Restart ==
  /\ restarts < MaxRestarts
  /\ restarts' = restarts + 1
  /\ away' = TRUE
  /\ pin' = None
  /\ take' = NoTake
  /\ buffer' = TRUE
  /\ UNCHANGED <<sessions, takes, calls, upkeep>>
  /\ Noticed({})

Back ==
  /\ away
  /\ away' = FALSE
  /\ UNCHANGED <<sessions, pin, take, takes, buffer, restarts, calls, since, quiet, upkeep>>

-----------------------------------------------------------------------------
Next ==
  \/ \E t \in Handlers :
       \/ Begin(t) \/ ReadActive(t) \/ FindSession(t) \/ ReadPin(t) \/ Mutates(t) \/ Raises(t)
  \/ Tick \/ Reconfigure \/ Outside \/ Restart \/ Back

Spec == Init /\ [][Next]_vars

(* The timer goes on, a webapp that restarts comes back, and one that is   *)
(* asked again and again is not silent every time.                         *)
FairSpec ==
  /\ Spec /\ WF_vars(TickBegins) /\ WF_vars(Back)
  /\ SF_vars(ReadsBuffer) /\ SF_vars(TurnsOff)

-----------------------------------------------------------------------------
(* Properties.                                                             *)

(* Every variable stays in its type, and a call has no answer before its   *)
(* last request.                                                           *)
TypeOK ==
  /\ sessions \subseteq Datasets
  /\ pin \in Datasets \cup {None}
  /\ take \in Take /\ takes \in 0..MaxTakes
  /\ restarts \in 0..MaxRestarts
  /\ tick \in {"idle", "read", "off"} /\ held \in BOOLEAN /\ asked \in BOOLEAN
  /\ \A t \in Handlers :
       /\ call[t].verb \in Verbs
       /\ said[t] \in {"none", "ok", "refused", "error"}
       /\ InProgress(t) => said[t] = "none"

(* What a call that answers ok has done.                                   *)
Promised(t) ==
  LET ask == call[t]
  IN  /\ ask.verb \in {"pin", "clear"} => pin = ask.dataset
      /\ ask.verb = "start" => take.into = ask.dataset
      /\ ask.verb \in {"stop", "stopIt"} => take = NoTake

(* As long as nobody else changes the pin or the take, a call whose        *)
(* requests were all heard has done what it says when it answers ok, and *)
(* has left the pin and the take alone when it does not.                   *)
AnswerIsTrue ==
  \A t \in Handlers :
    since[t] # "somebody" =>
      /\ said[t] = "ok" => Promised(t)
      /\ said[t] = "refused" => since[t] = "nobody"

(* The pin is changed only by a call that found nothing recording.         *)
PinWasIdle ==
  \A t \in Handlers : InProgress(t) /\ Request(t) \in {"set", "unset"} => quiet[t]

(* A stop that names a take, and has changed what nobody else has changed  *)
(* since it began, has ended the take it named: the one that was recording,*)
(* and neither an earlier nor a later one.                                 *)
StopFoundItsTake ==
  \A t \in Handlers :
    call[t].verb = "stopIt" /\ since[t] = "itself" => call[t].episode = takes

(* However often the stack restarts with its replay buffer on, and however *)
(* often a read or a switch fails, upkeep turns the buffer off again, or   *)
(* the configuration no longer asks it to.                                 *)
BufferHeldOff == buffer /\ held ~> ~buffer \/ ~held

(* Upkeep leaves a buffer on that the configuration has not asked it to    *)
(* turn off at any moment since the tick began.                            *)
OptedOutKept == [][buffer /\ ~buffer' => asked]_vars
=============================================================================
