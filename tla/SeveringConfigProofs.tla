------------------------ MODULE SeveringConfigProofs ------------------------
(***************************************************************************)
(* Proofs about SeveringConfig, for every value of its constants.          *)
(***************************************************************************)
EXTENDS SeveringConfig, TLAPS

USE KeysAssumption, AtomsAssumption, EnvironmentAssumption

(* At start-up nothing is in flight, and every file holds legal values.    *)
LEMMA TypeInit == Init => TypeInv
  BY DEF Init, TypeInv, TypeOK, Control, Steps, FileText, FleetText, Transport,
         TransportOf, Threads, Entry, Texts, Request, Custody

(* Every step keeps the types, and leaves each call with what its next     *)
(* step reads: what it was asked, what it saved, what it found.            *)
LEMMA TypeStep == ASSUME TypeInv, [Next]_vars PROVE TypeInv'
<1> USE DEF TypeInv, TypeOK, Control, Steps, Threads, files, plane, locals,
            context, GoTo
<1>1. ASSUME NEW h \in Handlers, NEW k \in Keys, NEW v \in Values, ConfigWrite(h, k, v)
      PROVE TypeInv'
  <2>1. TypeOK'
    BY <1>1 DEF ConfigWrite, CanAnswer, Request
  <2>2. ASSUME NEW s \in Threads PROVE Control(s)'
    BY <1>1 DEF ConfigWrite, CanAnswer, Request
  <2>3. QED
    BY <2>1, <2>2
<1>2. ASSUME NEW h \in Handlers, ConfigRollback(h)
      PROVE TypeInv'
  BY <1>2 DEF ConfigRollback, CanAnswer
<1>3. ASSUME NEW h \in Handlers, NEW target \in Transport \cup {Down}, Detach(h, target)
      PROVE TypeInv'
  BY <1>3 DEF Detach
<1>4. ASSUME NEW t \in Threads, CheckJournal(t)
      PROVE TypeInv'
  <2>1. [key |-> req[t].key, env |-> env, fleet |-> fleet] \in Entry
    BY <1>4 DEF CheckJournal, Entry
  <2>2. [key |-> req[t].key, env |-> env, fleet |-> fleet] # None
    BY <2>1
  <2>3. TypeOK'
    BY <1>4, <2>1 DEF CheckJournal, Return
  <2>4. ASSUME NEW s \in Threads PROVE Control(s)'
    BY <1>4, <2>2 DEF CheckJournal, Return
  <2>5. QED
    BY <2>3, <2>4
<1>5. ASSUME NEW t \in Threads, OpenJournal(t)
      PROVE TypeInv'
  BY <1>5 DEF OpenJournal, Return
<1>6. ASSUME NEW t \in Threads, Stage(t)
      PROVE TypeInv'
  <2>1. [env |-> env, fleet |-> fleet] \in Texts
    BY DEF Texts
  <2>2. [env |-> env, fleet |-> fleet] # None
    BY <2>1
  <2>3. TypeOK'
    BY <1>6, <2>1 DEF Stage, StagedFleet, Request, FileText, FleetText
  <2>4. ASSUME NEW s \in Threads PROVE Control(s)'
    BY <1>6, <2>2 DEF Stage
  <2>5. QED
    BY <2>3, <2>4
<1>7. ASSUME NEW t \in Threads, PutEnv(t)
      PROVE TypeInv'
  <2>1. TransportOf(env') \in Transport
    BY <1>7 DEF PutEnv, TransportOf, FileText, Transport
  <2>2. TypeOK'
    BY <1>7, <2>1 DEF PutEnv, Written, Return
  <2>3. ASSUME NEW s \in Threads PROVE Control(s)'
    BY <1>7 DEF PutEnv, Written, TouchesFleet, Return
  <2>4. QED
    BY <2>2, <2>3
<1>8. ASSUME NEW t \in Threads, PutFleet(t)
      PROVE TypeInv'
  BY <1>8 DEF PutFleet
<1>9. ASSUME NEW t \in Threads, FleetWrite(t)
      PROVE TypeInv'
  BY <1>9 DEF FleetWrite, Request, FleetText
<1>10. ASSUME NEW t \in Threads, Rollback(t)
       PROVE TypeInv'
  <2>1. TypeOK'
    BY <1>10 DEF Rollback, Return, Texts
  <2>2. ASSUME NEW s \in Threads PROVE Control(s)'
    BY <1>10 DEF Rollback, Return
  <2>3. QED
    BY <2>1, <2>2
<1>11. ASSUME NEW t \in Threads, Fail(t)
       PROVE TypeInv'
  BY <1>11 DEF Fail, Return, CloseJournal
<1>12. ASSUME NEW t \in Threads, StartRecreate(t)
       PROVE TypeInv'
  <2>1. TransportOf(env) \in Transport
    BY DEF TransportOf, FileText, Transport
  <2>2. QED
    BY <1>12, <2>1 DEF StartRecreate
<1>13. ASSUME NEW t \in Threads, EndRecreate(t)
       PROVE TypeInv'
  BY <1>13 DEF EndRecreate
<1>14. ASSUME NEW t \in Threads, RestartBridge(t)
       PROVE TypeInv'
  <2>1. TypeOK'
    BY <1>14 DEF RestartBridge
  <2>2. ASSUME NEW s \in Threads PROVE Control(s)'
    BY <1>14 DEF RestartBridge
  <2>3. QED
    BY <2>1, <2>2
<1>15. ASSUME NEW t \in Threads, TelemetryReturns(t)
       PROVE TypeInv'
  BY <1>15 DEF TelemetryReturns
<1>16. ASSUME NEW t \in Threads, WindowCloses(t)
       PROVE TypeInv'
  BY <1>16 DEF WindowCloses
<1>17. ASSUME NEW t \in Threads, KeepChange(t)
       PROVE TypeInv'
  <2>1. TransportOf(env) \in Transport
    BY DEF TransportOf, FileText, Transport
  <2>2. QED
    BY <1>17, <2>1 DEF KeepChange, Return, CloseJournal
<1>18. ASSUME NEW t \in Threads, ReadJournal(t)
       PROVE TypeInv'
  <2>1. TypeOK'
    BY <1>18 DEF ReadJournal, Return
  <2>2. ASSUME NEW s \in Threads PROVE Control(s)'
    BY <1>18 DEF ReadJournal, Return
  <2>3. QED
    BY <2>1, <2>2
<1>19. ASSUME NEW t \in Threads, UndoEnv(t)
       PROVE TypeInv'
  BY <1>19 DEF UndoEnv, TouchesFleet, Entry
<1>20. ASSUME NEW t \in Threads, UndoFleet(t)
       PROVE TypeInv'
  BY <1>20 DEF UndoFleet, RestoredFleet, Entry, FleetText
<1>21. ASSUME NEW t \in Threads, CloseChange(t)
       PROVE TypeInv'
  BY <1>21 DEF CloseChange, Return, CloseJournal
<1>22. ASSUME NEW target \in detached, DetachedEnds(target)
       PROVE TypeInv'
  BY <1>22 DEF DetachedEnds
<1>23. CASE Sample
  BY <1>23 DEF Sample
<1>24. CASE Crash
  BY <1>24 DEF Crash
<1>25. CASE Start
  BY <1>25 DEF Start
<1>26. CASE UNCHANGED vars
  BY <1>26 DEF vars
<1>27. QED
  BY <1>1, <1>2, <1>3, <1>4, <1>5, <1>6, <1>7, <1>8, <1>9, <1>10, <1>11,
     <1>12, <1>13, <1>14, <1>15, <1>16, <1>17, <1>18, <1>19, <1>20, <1>21,
     <1>22, <1>23, <1>24, <1>25, <1>26 DEF Next, Call, Step

(* Every variable keeps its type, whatever Zenoh's dispatch and whatever   *)
(* goes wrong.                                                             *)
THEOREM TypeCorrect == Spec => []TypeOK
<1>1. TypeInv => TypeOK
  BY DEF TypeInv
<1>2. QED
  BY <1>1, TypeInit, TypeStep, PTL DEF Spec

-----------------------------------------------------------------------------
(* Calls served one at a time, and nothing worse than a restart that fails *)
(* or an agent that dies: the conditions under which the guard is proved.  *)
Benign ==
  /\ Serial
  /\ Faults \cap {"denied", "late", "disk", "gap"} = {}

(* A step of a thread moves that thread, from a step that is not idle.     *)
LEMMA StepMoves ==
  ASSUME TypeInv, NEW t \in Threads, Step(t)
  PROVE  /\ pc[t] # "idle"
         /\ \A s \in Threads \ {t} : pc'[s] = pc[s]
<1> USE DEF TypeInv, TypeOK, GoTo
<1>1. CASE CheckJournal(t)
  BY <1>1 DEF CheckJournal, Return
<1>2. CASE OpenJournal(t)
  BY <1>2 DEF OpenJournal, Return
<1>3. CASE Stage(t)
  BY <1>3 DEF Stage
<1>4. CASE PutEnv(t)
  BY <1>4 DEF PutEnv, Written, Return
<1>5. CASE PutFleet(t)
  BY <1>5 DEF PutFleet
<1>6. CASE FleetWrite(t)
  BY <1>6 DEF FleetWrite
<1>7. CASE Rollback(t)
  BY <1>7 DEF Rollback, Return
<1>8. CASE Fail(t)
  BY <1>8 DEF Fail, Return
<1>9. CASE StartRecreate(t)
  BY <1>9 DEF StartRecreate
<1>10. CASE EndRecreate(t)
  BY <1>10 DEF EndRecreate
<1>11. CASE RestartBridge(t)
  BY <1>11 DEF RestartBridge
<1>12. CASE TelemetryReturns(t)
  BY <1>12 DEF TelemetryReturns
<1>13. CASE WindowCloses(t)
  BY <1>13 DEF WindowCloses
<1>14. CASE KeepChange(t)
  BY <1>14 DEF KeepChange, Return
<1>15. CASE ReadJournal(t)
  BY <1>15 DEF ReadJournal, Return
<1>16. CASE UndoEnv(t)
  BY <1>16 DEF UndoEnv
<1>17. CASE UndoFleet(t)
  BY <1>17 DEF UndoFleet
<1>18. CASE CloseChange(t)
  BY <1>18 DEF CloseChange, Return
<1>19. QED
  BY <1>1, <1>2, <1>3, <1>4, <1>5, <1>6, <1>7, <1>8, <1>9, <1>10,
     <1>11, <1>12, <1>13, <1>14, <1>15, <1>16, <1>17, <1>18 DEF Step

(* So only one thread can step, and every other one is and stays idle.     *)
LEMMA OthersIdle ==
  ASSUME TypeInv, Exclusive, NEW t \in Threads, Step(t)
  PROVE  \A s \in Threads \ {t} : pc[s] = "idle" /\ pc'[s] = "idle"
  BY StepMoves DEF Exclusive

(* And a call is only taken when every thread is idle.                     *)
LEMMA CallsWait ==
  ASSUME Serial, TypeInv, NEW h \in Handlers, Call(h)
  PROVE  /\ \A s \in Threads : pc[s] = "idle"
         /\ \A s \in Threads \ {h} : pc'[s] = "idle"
<1>1. \A s \in Threads : pc[s] = "idle"
  BY DEF Call, ConfigWrite, ConfigRollback, Detach, CanAnswer, Threads
<1>2. \A s \in Threads \ {h} : pc'[s] = pc[s]
  BY DEF Call, ConfigWrite, ConfigRollback, Detach, GoTo, TypeInv, TypeOK, locals
<1>3. QED
  BY <1>1, <1>2

(* With calls served one at a time, a second thread never starts.          *)
LEMMA ExclusiveStep ==
  ASSUME Serial, TypeInv, Exclusive, [Next]_vars PROVE Exclusive'
<1>1. ASSUME NEW t \in Threads, Step(t) PROVE Exclusive'
  BY <1>1, OthersIdle DEF Exclusive
<1>2. ASSUME NEW h \in Handlers, Call(h) PROVE Exclusive'
  BY <1>2, CallsWait DEF Exclusive
<1>3. CASE Crash
  BY <1>3 DEF Crash, Exclusive
<1>4. CASE Start
  <2>1. \A s \in Threads \ {Boot} : pc'[s] = pc[s] /\ pc[s] = "idle"
    BY <1>4 DEF Start, GoTo, TypeInv, TypeOK, Exclusive, Threads
  <2>2. QED
    BY <2>1 DEF Exclusive
<1>5. CASE Sample \/ (\E target \in detached : DetachedEnds(target)) \/ UNCHANGED vars
  BY <1>5 DEF Sample, DetachedEnds, vars, locals, Exclusive
<1>6. QED
  BY <1>1, <1>2, <1>3, <1>4, <1>5 DEF Next

(* A call that is not in flight claims nothing about the open change.      *)
LEMMA IdleProgress ==
  ASSUME NEW t \in Threads
  PROVE  (pc[t] = "idle" => Progress(t)) /\ (pc'[t] = "idle" => Progress(t)')
  BY DEF Progress, Forward, Applied, Undoing

(* The configuration a robot boots with is the one it was vouched for.     *)
LEMMA SafeInit == ASSUME Benign PROVE Init => IInv
<1> SUFFICES ASSUME Init PROVE IInv
  OBVIOUS
<1>1. TypeInv
  BY TypeInit
<1>2. Exclusive
  BY DEF Init, Exclusive
<1>3. AliasesHeld
  BY DEF Init, AliasesHeld, Full, Benign, FileText
<1>4. Recoverable /\ OnlyItsAlias
  BY DEF Init, Recoverable, OnDisk, OnlyItsAlias
<1>5. \A t \in Threads : Progress(t)
  BY DEF Init, Progress, Forward, Applied, Undoing
<1>6. QED
  BY <1>1, <1>2, <1>3, <1>4, <1>5 DEF IInv

(* What the journal would bring back is untouched by a step that leaves the*)
(* fleet file and the journal alone, and the transport or only an open     *)
(* change's.                                                               *)
LEMMA RecoverableKept ==
  ASSUME Recoverable, UNCHANGED <<fleet, journal, custody, vouched>>,
         journal # None \/ TransportOf(env)' = TransportOf(env)
  PROVE  Recoverable'
  BY DEF Recoverable, OnDisk, AfterUndo, RestoredFleet, TouchesFleet, TransportOf

(* What a thread's step keeps: each action disturbs the aliases, what the  *)
(* journal would bring back, and its own progress.                         *)
Kept(t) == AliasesHeld /\ Recoverable /\ Progress(t)

LEMMA StepKeeps ==
  ASSUME Benign, IInv, NEW t \in Threads, Step(t)
  PROVE  Kept(t)'
<1> USE DEF IInv, TypeInv, TypeOK, Control, Kept, Threads, files, plane, context, GoTo
<1>1. CASE CheckJournal(t)
  <2>1. AliasesHeld'
    BY <1>1 DEF CheckJournal, Return, AliasesHeld, Full, Progress, Forward, Applied, Undoing, Benign
  <2>2. Recoverable'
    BY <1>1, RecoverableKept DEF CheckJournal, TransportOf
  <2>3. Progress(t)'
    BY <1>1 DEF CheckJournal, Return, Progress, Forward, Applied, Undoing, Benign
  <2>4. QED
    BY <2>1, <2>2, <2>3
<1>2. CASE OpenJournal(t)
  <2>1. /\ pc[t] = "open" /\ journal = None /\ saved[t] # None
        /\ saved[t] = [key |-> req[t].key, env |-> env, fleet |-> fleet]
        /\ UNCHANGED <<env, fleet, custody, vouched>>
    BY <1>2 DEF OpenJournal, Progress
  <2>2. OnDisk = vouched
    BY <2>1 DEF Recoverable
  <2>3. CASE journal' = None /\ pc'[t] = "idle"
    <3>1. AliasesHeld' /\ Recoverable'
      BY <2>1, <2>3 DEF AliasesHeld, Full, Recoverable, OnDisk, TransportOf
    <3>2. Progress(t)'
      BY <2>3, IdleProgress
    <3>3. QED
      BY <3>1, <3>2
  <2>4. CASE journal' = saved[t] /\ pc'[t] = "stage" /\ UNCHANGED <<req, saved>>
    <3>1. AliasesHeld'
      BY <2>1, <2>4 DEF AliasesHeld, Full
    <3>2. RestoredFleet(saved[t]) = fleet
      BY <2>1 DEF RestoredFleet, FleetText
    <3>3. Recoverable'
      BY <2>1, <2>4, <3>2 DEF Recoverable, OnDisk, AfterUndo, TouchesFleet, TransportOf,
                              RestoredFleet
    <3>4. TransportOf(env) = vouched.env /\ fleet = vouched.fleet
      BY <2>2 DEF OnDisk
    <3>5. Progress(t)'
      BY <2>1, <2>4, <3>4 DEF Progress, Forward, Applied, Undoing, TransportOf
    <3>6. QED
      BY <3>1, <3>3, <3>5
  <2>5. QED
    BY <1>2, <2>1, <2>3, <2>4 DEF OpenJournal, Return
<1>3. CASE Stage(t)
  <2>1. AliasesHeld'
    BY <1>3 DEF Stage, StagedFleet, AliasesHeld, Full, Progress, Forward, Applied, Undoing, Benign
  <2>2. Recoverable'
    BY <1>3, RecoverableKept DEF Stage, TransportOf
  <2>3. Progress(t)'
    BY <1>3 DEF Stage, StagedFleet, TouchesFleet, Progress, Forward, Applied, Undoing, Benign
  <2>4. QED
    BY <2>1, <2>2, <2>3
<1>4. CASE PutEnv(t)
  <2> DEFINE k == req[t].key
  <2>1. /\ pc[t] = "putEnv"
        /\ tmp.env = [env EXCEPT ![k] = req[t].value]
        /\ UNCHANGED <<fleet, journal, custody, vouched>>
    BY <1>4 DEF PutEnv, Progress
  <2>2. tmp.env # None
    BY <2>1 DEF FileText, Request
  <2>3. AliasesHeld'
    BY <2>1 DEF AliasesHeld, Full
  <2>4. /\ k \in Severing =>
             /\ journal # None /\ saved[t] = journal /\ journal.key = k
             /\ fleet = vouched.fleet /\ TransportOf(env) = vouched.env
             /\ TransportOf(old[t].env) = vouched.env
        /\ TouchesFleet(k) /\ custody = "direct"
             => tmp.fleet = [fleet EXCEPT ![k] = req[t].value]
    BY <2>1 DEF Progress, Forward
  <2>5. CASE pc'[t] = "fail" /\ UNCHANGED <<env, req, saved, old>>
    <3>1. Recoverable'
      BY <2>1, <2>5, RecoverableKept DEF TransportOf
    <3>2. Progress(t)'
      BY <2>1, <2>4, <2>5 DEF Progress, Forward, Applied, Undoing, TransportOf
    <3>3. QED
      BY <2>3, <3>1, <3>2
  <2>6. CASE /\ env' = [env EXCEPT ![k] = req[t].value]
             /\ tmp'.fleet = tmp.fleet
             /\ \/ TouchesFleet(k) /\ pc'[t] = "putFleet" /\ UNCHANGED <<req, saved, old>>
                \/ ~TouchesFleet(k) /\ Written(t)
    <3>1. journal # None \/ TransportOf(env)' = TransportOf(env)
      BY <2>1, <2>4, <2>6 DEF TransportOf, FileText
    <3>2. Recoverable'
      BY <2>1, <3>1, RecoverableKept
    <3>3. CASE TouchesFleet(k)
      <4>1. /\ pc'[t] = "putFleet" /\ UNCHANGED <<req, saved, old>>
            /\ k \in Severing /\ TouchesFleet(k)'
        BY <2>1, <2>6, <3>3 DEF TouchesFleet
      <4>2. TransportOf(old[t].env)' = vouched.env
        BY <2>4, <4>1 DEF TransportOf
      <4>3. Progress(t)'
        BY <2>1, <2>4, <2>6, <3>3, <4>1, <4>2 DEF Progress, Forward, Applied, Undoing
      <4>4. QED
        BY <2>3, <3>2, <4>3
    <3>4. CASE ~TouchesFleet(k)
      <4>1. \/ pc'[t] = "recreate" /\ k \in Severing /\ saved' = saved
            \/ pc'[t] = "idle"
        BY <2>6, <3>4 DEF Written, Return
      <4>2. Progress(t)'
        BY <2>1, <2>4, <4>1 DEF Progress, Forward, Applied, Undoing
      <4>3. QED
        BY <2>3, <3>2, <4>2
    <3>5. QED
      BY <3>3, <3>4
  <2>7. QED
    BY <1>4, <2>1, <2>2, <2>5, <2>6 DEF PutEnv
<1>5. CASE PutFleet(t)
  <2>1. /\ pc[t] = "putFleet" /\ custody = "direct" /\ req[t].key \in Severing \cap Paired
        /\ TouchesFleet(req[t].key)
        /\ UNCHANGED <<env, journal, custody, vouched, saved, req, old>>
    BY <1>5 DEF PutFleet, TouchesFleet
  <2>2. /\ journal # None /\ saved[t] = journal /\ journal.key = req[t].key
        /\ fleet = vouched.fleet /\ TransportOf(old[t].env) = vouched.env
        /\ tmp.fleet = [fleet EXCEPT ![req[t].key] = req[t].value]
    BY <2>1 DEF Progress, Forward
  <2>3. CASE pc'[t] = "rollback" /\ fleet' = fleet
    <3>1. AliasesHeld'
      BY <2>1, <2>3 DEF AliasesHeld, Full
    <3>2. Recoverable'
      BY <2>1, <2>3, RecoverableKept DEF TransportOf
    <3>3. Progress(t)'
      BY <2>1, <2>2, <2>3 DEF Progress, Forward, Applied, Undoing, TransportOf, TouchesFleet
    <3>4. QED
      BY <3>1, <3>2, <3>3
  <2>4. CASE pc'[t] = "recreate" /\ fleet' = [fleet EXCEPT ![req[t].key] = req[t].value]
    <3>1. AliasesHeld'
      BY <2>1, <2>4 DEF AliasesHeld, Full, FleetText, Request
    <3>2. Recoverable'
      BY <2>1, <2>2, <2>4 DEF Recoverable, AfterUndo, RestoredFleet, TouchesFleet, TransportOf
    <3>3. Progress(t)'
      BY <2>1, <2>2, <2>4 DEF Progress, Forward, Applied, Undoing
    <3>4. QED
      BY <3>1, <3>2, <3>3
  <2>5. QED
    BY <1>5, <2>2, <2>3, <2>4 DEF PutFleet
<1>6. CASE FleetWrite(t)
  <2>1. /\ fleet' = [fleet EXCEPT ![req[t].key] = req[t].value]
        /\ UNCHANGED <<env, journal, custody, vouched, saved, req>>
        /\ custody = "delegated" /\ pc[t] = "putFleet" /\ pc'[t] = "recreate"
        /\ journal # None /\ saved[t] = journal /\ req[t].key \in Paired
        /\ journal.key = req[t].key
    BY <1>6 DEF FleetWrite, TouchesFleet, Progress, Forward, Benign
  <2>2. AliasesHeld'
    BY <2>1 DEF AliasesHeld, Full, FleetText, Request
  <2>3. journal.fleet[journal.key] # Unset
    BY <2>1 DEF AliasesHeld, Full
  <2>4. RestoredFleet(journal)' = RestoredFleet(journal)
    <3>1. [fleet' EXCEPT ![journal.key] = journal.fleet[journal.key]]
            = [fleet EXCEPT ![journal.key] = journal.fleet[journal.key]]
      BY <2>1 DEF FleetText
    <3>2. QED
      BY <2>1, <2>3, <3>1 DEF RestoredFleet
  <2>5. Recoverable'
    BY <2>1, <2>4 DEF Recoverable, AfterUndo, TouchesFleet, TransportOf
  <2>6. Progress(t)'
    BY <2>1 DEF Progress, Forward, Applied, Undoing
  <2>7. QED
    BY <2>2, <2>5, <2>6
<1>7. CASE Rollback(t)
  <2>1. /\ pc[t] = "rollback" /\ pc'[t] = "fail" /\ env' = old[t].env
        /\ UNCHANGED <<fleet, journal, custody, vouched, req, saved>>
    BY <1>7 DEF Rollback, Benign
  <2>2. /\ journal # None /\ saved[t] = journal /\ journal.key = req[t].key
        /\ fleet = vouched.fleet /\ TransportOf(old[t].env) = vouched.env
    BY <2>1 DEF Progress, Forward, TouchesFleet
  <2>3. AliasesHeld'
    BY <2>1 DEF AliasesHeld, Full
  <2>4. Recoverable'
    BY <2>1, <2>2, RecoverableKept
  <2>5. Progress(t)'
    BY <2>1, <2>2 DEF Progress, Forward, Applied, Undoing, TransportOf
  <2>6. QED
    BY <2>3, <2>4, <2>5
<1>8. CASE Fail(t)
  <2>1. /\ pc[t] \in {"fail", "raise"} /\ pc'[t] = "idle"
        /\ UNCHANGED <<env, fleet, custody, vouched>>
    BY <1>8 DEF Fail, Return
  <2>2. \/ journal' = journal
        \/ journal' = None /\ fleet = vouched.fleet /\ TransportOf(env) = vouched.env
    BY <1>8, <2>1 DEF Fail, CloseJournal, Benign, Progress, Forward
  <2>3. AliasesHeld'
    BY <2>1, <2>2 DEF AliasesHeld, Full
  <2>4. Recoverable'
    <3>1. CASE journal' = journal
      BY <2>1, <3>1, RecoverableKept DEF TransportOf
    <3>2. CASE journal' = None /\ fleet = vouched.fleet /\ TransportOf(env) = vouched.env
      BY <2>1, <3>2 DEF Recoverable, OnDisk, TransportOf
    <3>3. QED
      BY <2>2, <3>1, <3>2
  <2>5. Progress(t)'
    BY <2>1, IdleProgress
  <2>6. QED
    BY <2>3, <2>4, <2>5
<1>9. CASE StartRecreate(t)
  <2>1. AliasesHeld'
    BY <1>9 DEF StartRecreate, AliasesHeld, Full, Progress, Forward, Applied, Undoing, Benign
  <2>2. Recoverable'
    BY <1>9, RecoverableKept DEF StartRecreate, TransportOf
  <2>3. Progress(t)'
    BY <1>9 DEF StartRecreate, Progress, Forward, Applied, Undoing, Benign
  <2>4. QED
    BY <2>1, <2>2, <2>3
<1>10. CASE EndRecreate(t)
  <2>1. AliasesHeld'
    BY <1>10 DEF EndRecreate, AliasesHeld, Full, Progress, Forward, Applied, Undoing, Benign
  <2>2. Recoverable'
    BY <1>10, RecoverableKept DEF EndRecreate, TransportOf
  <2>3. Progress(t)'
    BY <1>10 DEF EndRecreate, Progress, Forward, Applied, Undoing, Benign
  <2>4. QED
    BY <2>1, <2>2, <2>3
<1>11. CASE RestartBridge(t)
  <2>1. AliasesHeld'
    BY <1>11 DEF RestartBridge, AliasesHeld, Full, Progress, Forward, Applied, Undoing, Benign
  <2>2. Recoverable'
    BY <1>11, RecoverableKept DEF RestartBridge, TransportOf
  <2>3. Progress(t)'
    BY <1>11 DEF RestartBridge, Progress, Forward, Applied, Undoing, Benign
  <2>4. QED
    BY <2>1, <2>2, <2>3
<1>12. CASE TelemetryReturns(t)
  <2>1. AliasesHeld'
    BY <1>12 DEF TelemetryReturns, AliasesHeld, Full, Progress, Forward, Applied, Undoing, Benign
  <2>2. Recoverable'
    BY <1>12, RecoverableKept DEF TelemetryReturns, TransportOf
  <2>3. Progress(t)'
    BY <1>12 DEF TelemetryReturns, Progress, Forward, Applied, Undoing, Benign
  <2>4. QED
    BY <2>1, <2>2, <2>3
<1>13. CASE WindowCloses(t)
  <2>1. AliasesHeld'
    BY <1>13 DEF WindowCloses, AliasesHeld, Full, Progress, Forward, Applied, Undoing, Benign
  <2>2. Recoverable'
    BY <1>13, RecoverableKept DEF WindowCloses, TransportOf
  <2>3. Progress(t)'
    BY <1>13 DEF WindowCloses, Progress, Forward, Applied, Undoing, Benign
  <2>4. QED
    BY <2>1, <2>2, <2>3
<1>14. CASE KeepChange(t)
  <2>1. AliasesHeld'
    BY <1>14 DEF KeepChange, Return, CloseJournal, AliasesHeld, Full, Progress, Forward, Applied, Undoing, Benign
  <2>2. Recoverable'
    BY <1>14 DEF KeepChange, Return, CloseJournal, Recoverable, OnDisk, AfterUndo, Progress, Forward, Applied, Undoing, Benign
  <2>3. Progress(t)'
    BY <1>14 DEF KeepChange, Return, CloseJournal, Progress, Forward, Applied, Undoing, Benign
  <2>4. QED
    BY <2>1, <2>2, <2>3
<1>15. CASE ReadJournal(t)
  <2>1. AliasesHeld'
    BY <1>15 DEF ReadJournal, Return, AliasesHeld, Full, Progress, Forward, Applied, Undoing, Benign
  <2>2. Recoverable'
    BY <1>15, RecoverableKept DEF ReadJournal, TransportOf
  <2>3. Progress(t)'
    BY <1>15 DEF ReadJournal, Return, Progress, Forward, Applied, Undoing, Benign
  <2>4. QED
    BY <2>1, <2>2, <2>3
<1>16. CASE UndoEnv(t)
  <2>1. /\ env' = journal.env
        /\ UNCHANGED <<fleet, journal, custody, vouched, saved, req>>
        /\ journal # None /\ saved[t] = journal
        /\ pc'[t] = IF TouchesFleet(journal.key) THEN "undoFleet" ELSE "undoRecreate"
    BY <1>16 DEF UndoEnv, Progress, Undoing, Benign
  <2>2. AliasesHeld'
    BY <2>1 DEF AliasesHeld, Full
  <2>3. Recoverable'
    BY <2>1, RecoverableKept
  <2>4. AfterUndo(journal) = vouched
    BY <2>1 DEF Recoverable
  <2>5. TransportOf(env)' = vouched.env
    BY <2>1, <2>4 DEF AfterUndo, TransportOf
  <2>6. CASE TouchesFleet(journal.key)
    <3>1. TouchesFleet(saved[t].key)'
      BY <2>1, <2>6 DEF TouchesFleet
    <3>2. Progress(t)'
      BY <2>1, <2>5, <2>6, <3>1 DEF Progress, Forward, Applied, Undoing
    <3>3. QED
      BY <2>2, <2>3, <3>2
  <2>7. CASE ~TouchesFleet(journal.key)
    <3>1. fleet' = vouched.fleet
      BY <2>1, <2>4, <2>7 DEF AfterUndo
    <3>2. Progress(t)'
      BY <2>1, <2>5, <2>7, <3>1 DEF Progress, Forward, Applied, Undoing
    <3>3. QED
      BY <2>2, <2>3, <3>2
  <2>8. QED
    BY <2>6, <2>7
<1>17. CASE UndoFleet(t)
  <2>1. /\ fleet' = RestoredFleet(journal)
        /\ UNCHANGED <<env, journal, custody, vouched, saved, req>>
        /\ pc[t] = "undoFleet" /\ pc'[t] = "undoRecreate"
        /\ journal # None /\ saved[t] = journal /\ TouchesFleet(journal.key)
    BY <1>17 DEF UndoFleet, Progress, Undoing, Benign
  <2>2. fleet' = vouched.fleet
    BY <2>1 DEF Recoverable, AfterUndo
  <2>3. AliasesHeld'
    BY <2>1 DEF AliasesHeld, Full, RestoredFleet, FleetText, Entry
  <2>4. RestoredFleet(journal)' = RestoredFleet(journal)
    BY <2>1 DEF RestoredFleet, FleetText
  <2>5. Recoverable'
    BY <2>1, <2>4 DEF Recoverable, AfterUndo, TouchesFleet, TransportOf
  <2>6. Progress(t)'
    BY <2>1, <2>2 DEF Progress, Forward, Applied, Undoing, TransportOf
  <2>7. QED
    BY <2>3, <2>5, <2>6
<1>18. CASE CloseChange(t)
  <2>1. AliasesHeld'
    BY <1>18 DEF CloseChange, Return, CloseJournal, AliasesHeld, Full, Progress, Forward, Applied, Undoing, Benign
  <2>2. Recoverable'
    BY <1>18 DEF CloseChange, Return, CloseJournal, Recoverable, OnDisk, AfterUndo, Progress, Forward, Applied, Undoing, Benign
  <2>3. Progress(t)'
    BY <1>18 DEF CloseChange, Return, CloseJournal, Progress, Forward, Applied, Undoing, Benign
  <2>4. QED
    BY <2>1, <2>2, <2>3
<1>19. QED
  BY <1>1, <1>2, <1>3, <1>4, <1>5, <1>6, <1>7, <1>8, <1>9, <1>10,
     <1>11, <1>12, <1>13, <1>14, <1>15, <1>16, <1>17, <1>18 DEF Step

(* A step that moves no thread into a change and touches no file keeps     *)
(* everything but the threads' own positions.                              *)
LEMMA FilesKeep ==
  ASSUME IInv, UNCHANGED <<env, fleet, journal, tmp, custody, vouched>>
  PROVE  AliasesHeld' /\ Recoverable'
<1>1. AliasesHeld'
  BY DEF IInv, AliasesHeld, Full
<1>2. Recoverable'
  BY RecoverableKept DEF IInv, TransportOf
<1>3. QED
  BY <1>1, <1>2

(* While a change is open, its own alias is the only one of the fleet file *)
(* that a write moves, and the only one that an undo puts back.            *)
LEMMA OnlyItsAliasStep ==
  ASSUME Benign, IInv, [Next]_vars PROVE OnlyItsAlias'
<1> USE DEF IInv
<1>1. CASE UNCHANGED <<fleet, journal, custody>>
  BY <1>1 DEF OnlyItsAlias, TouchesFleet
<1>2. CASE UNCHANGED <<fleet, custody>> /\ journal' = None
  BY <1>2 DEF OnlyItsAlias
<1>3. ASSUME NEW t \in Threads, Step(t)
      PROVE OnlyItsAlias'
  <2>1. CASE OpenJournal(t)
    <3>1. /\ saved[t] = [key |-> req[t].key, env |-> env, fleet |-> fleet]
          /\ journal = None /\ journal' \in {None, saved[t]} /\ fleet' = fleet
      BY <2>1 DEF OpenJournal, Progress
    <3>2. QED
      BY <3>1 DEF OnlyItsAlias
  <2>2. CASE PutFleet(t) \/ FleetWrite(t)
    <3>1. /\ UNCHANGED <<journal, custody>>
          /\ journal # None /\ TouchesFleet(journal.key)
          /\ fleet' = fleet \/ fleet' = [fleet EXCEPT ![journal.key] = req[t].value]
      BY <2>2 DEF PutFleet, FleetWrite, context, Progress, Forward, TouchesFleet
    <3>2. \A k \in Paired \ {journal.key} : fleet'[k] = fleet[k]
      BY <3>1 DEF TypeInv, TypeOK, FleetText
    <3>3. QED
      BY <3>1, <3>2 DEF OnlyItsAlias, TouchesFleet
  <2>3. CASE UndoFleet(t)
    <3>1. /\ UNCHANGED <<journal, custody>>
          /\ journal # None /\ TouchesFleet(journal.key)
          /\ fleet' = fleet \/ fleet' = RestoredFleet(journal)
      BY <2>3 DEF UndoFleet, context, Progress, Undoing
    <3>2. \A k \in Paired \ {journal.key} :
            fleet'[k] = fleet[k] \/ fleet'[k] = journal.fleet[k]
      BY <3>1 DEF RestoredFleet, TypeInv, TypeOK, FleetText
    <3>3. QED
      BY <3>1, <3>2 DEF OnlyItsAlias, TouchesFleet
  <2>4. CASE Fail(t) \/ KeepChange(t) \/ CloseChange(t)
    BY <1>1, <1>2, <2>4 DEF Fail, KeepChange, CloseChange, CloseJournal, context
  <2>5. CASE \/ CheckJournal(t) \/ Stage(t) \/ PutEnv(t) \/ Rollback(t)
             \/ StartRecreate(t) \/ EndRecreate(t) \/ RestartBridge(t)
             \/ TelemetryReturns(t) \/ WindowCloses(t) \/ ReadJournal(t)
             \/ UndoEnv(t)
    <3>1. UNCHANGED <<fleet, journal, custody>>
      BY <2>5 DEF CheckJournal, Stage, PutEnv, Rollback, StartRecreate, EndRecreate,
                  RestartBridge, TelemetryReturns, WindowCloses, ReadJournal, UndoEnv,
                  files, context
    <3>2. QED
      BY <1>1, <3>1
  <2>6. QED
    BY <1>3, <2>1, <2>2, <2>3, <2>4, <2>5 DEF Step
<1>4. CASE \/ \E h \in Handlers : Call(h)
           \/ \E target \in detached : DetachedEnds(target)
           \/ Sample \/ Crash \/ Start \/ UNCHANGED vars
  <2>1. UNCHANGED <<fleet, journal, custody>>
    BY <1>4 DEF Call, ConfigWrite, ConfigRollback, Detach, DetachedEnds, Sample, Crash,
                Start, vars, files, context
  <2>2. QED
    BY <1>1, <2>1
<1>5. QED
  BY <1>3, <1>4 DEF Next

(* Every step of the agent, and everything around it, keeps the guard's    *)
(* inductive invariant.                                                    *)
LEMMA SafeStep == ASSUME Benign, IInv, [Next]_vars PROVE IInv'
<1> USE DEF IInv
<1>1. TypeInv' /\ Exclusive' /\ OnlyItsAlias'
  BY TypeStep, ExclusiveStep, OnlyItsAliasStep DEF Benign
<1>2. ASSUME NEW t \in Threads, Step(t)
      PROVE IInv'
  <2>1. Kept(t)'
    BY <1>2, StepKeeps
  <2>2. \A s \in Threads \ {t} : pc[s] = "idle" /\ pc'[s] = "idle"
    BY <1>2, OthersIdle
  <2>3. \A s \in Threads : Progress(s)'
    BY <2>1, <2>2, IdleProgress DEF Kept
  <2>4. QED
    BY <1>1, <2>1, <2>3 DEF Kept
<1>3. ASSUME NEW h \in Handlers, Call(h)
      PROVE IInv'
  <2>1. /\ UNCHANGED <<env, fleet, journal, tmp, custody, vouched>>
        /\ \A s \in Threads : pc[s] = "idle"
        /\ \A s \in Threads \ {h} : pc'[s] = "idle"
    BY <1>3, CallsWait DEF Call, ConfigWrite, ConfigRollback, Detach, Benign, files, context
  <2>2. AliasesHeld' /\ Recoverable'
    BY <2>1, FilesKeep
  <2>3. /\ pc'[h] \in {"idle", "check", "stage", "read"}
        /\ pc'[h] = "check" => req'[h].key \in Severing
        /\ pc'[h] = "stage" => req'[h].key \notin Severing
    <3>1. ASSUME NEW k \in Keys, NEW v \in Values, ConfigWrite(h, k, v)
          PROVE <2>3!1 /\ <2>3!2 /\ <2>3!3
      BY <3>1, <2>1 DEF ConfigWrite, GoTo, TypeInv, TypeOK, Threads
    <3>2. CASE ConfigRollback(h)
      BY <3>2, <2>1 DEF ConfigRollback, GoTo, TypeInv, TypeOK, Threads
    <3>3. ASSUME NEW target \in Transport \cup {Down}, Detach(h, target)
          PROVE <2>3!1 /\ <2>3!2 /\ <2>3!3
      BY <3>3, <2>1 DEF Detach, locals, Threads
    <3>4. QED
      BY <1>3, <3>1, <3>2, <3>3 DEF Call
  <2>4. \A s \in Threads : Progress(s)'
    BY <2>1, <2>3 DEF Progress, Forward, Applied, Undoing
  <2>5. QED
    BY <1>1, <2>2, <2>4
<1>4. CASE Crash
  <2>1. AliasesHeld' /\ Recoverable'
    BY <1>4, FilesKeep DEF Crash, files
  <2>2. \A s \in Threads : pc'[s] = IF s = Boot THEN "off" ELSE "idle"
    BY <1>4 DEF Crash
  <2>3. \A s \in Threads : Progress(s)'
    BY <2>2 DEF Progress, Forward, Applied, Undoing
  <2>4. QED
    BY <1>1, <2>1, <2>3
<1>5. CASE Start
  <2>1. AliasesHeld' /\ Recoverable'
    BY <1>5, FilesKeep DEF Start, files, context
  <2>2. /\ pc[Boot] = "off" /\ pc'[Boot] = "read"
        /\ \A s \in Threads \ {Boot} : pc'[s] = pc[s]
    BY <1>5 DEF Start, GoTo, TypeInv, TypeOK, Threads
  <2>3. \A s \in Threads \ {Boot} : pc'[s] = "idle"
    BY <2>2 DEF Exclusive, Threads
  <2>4. \A s \in Threads : Progress(s)'
    BY <2>2, <2>3 DEF Progress, Forward, Applied, Undoing
  <2>5. QED
    BY <1>1, <2>1, <2>4
<1>6. CASE Sample \/ (\E target \in detached : DetachedEnds(target)) \/ UNCHANGED vars
  <2>1. UNCHANGED <<env, fleet, journal, tmp, custody, vouched, pc, req, saved, old>>
    BY <1>6 DEF Sample, DetachedEnds, vars, files, locals, context
  <2>2. AliasesHeld' /\ Recoverable'
    BY <2>1, FilesKeep
  <2>3. \A s \in Threads : Progress(s)'
    BY <2>1 DEF Progress, TouchesFleet, TransportOf
  <2>4. QED
    BY <1>1, <2>2, <2>3
<1>7. QED
  BY <1>2, <1>3, <1>4, <1>5, <1>6 DEF Next

(* The inductive invariant of the guard.                                   *)
THEOREM Safe == Benign /\ Spec => []IInv
<1>1. SUFFICES ASSUME Benign PROVE Spec => []IInv
  OBVIOUS
<1>2. Init => IInv
  BY <1>1, SafeInit
<1>3. IInv /\ [Next]_vars => IInv'
  BY <1>1, SafeStep
<1>4. QED
  BY <1>2, <1>3, PTL DEF Spec

(* However often the agent crashes, and whatever the restarts do, the last *)
(* transport telemetry vouched for is on disk or in the journal.           *)
THEOREM JournalRecovers == Benign /\ Spec => []Recoverable
<1>1. IInv => Recoverable
  BY DEF IInv
<1>2. QED
  BY <1>1, Safe, PTL

(* A change that is undone leaves both files at what its call found in     *)
(* them, the fleet file's other aliases included: never half of it.        *)
THEOREM RevertRestores == Benign /\ Spec => []RevertRestoresPair
<1>1. ASSUME IInv PROVE RevertRestoresPair
  <2> USE <1>1 DEF IInv, TypeInv, TypeOK
  <2> SUFFICES ASSUME NEW h \in Handlers, pc[h] = "close"
               PROVE  OnDisk = [env |-> TransportOf(saved[h].env), fleet |-> saved[h].fleet]
    BY DEF RevertRestoresPair
  <2>1. /\ journal # None /\ saved[h] = journal
        /\ TransportOf(env) = vouched.env /\ fleet = vouched.fleet
    BY DEF Progress, Undoing, Threads
  <2>2. AfterUndo(journal) = vouched
    BY <2>1 DEF Recoverable
  <2>3. journal.fleet \in FleetText
    BY <2>1 DEF Entry
  <2>4. fleet = journal.fleet
    <3>1. CASE ~TouchesFleet(journal.key)
      BY <2>1, <2>3, <3>1 DEF OnlyItsAlias, FleetText
    <3>2. CASE TouchesFleet(journal.key) /\ custody = "direct"
      BY <2>1, <2>2, <3>2 DEF AfterUndo, RestoredFleet
    <3>3. CASE TouchesFleet(journal.key) /\ custody # "direct"
      <4>1. journal.fleet[journal.key] # Unset
        BY <2>1, <3>3 DEF AliasesHeld, Full, TouchesFleet
      <4>2. fleet = [fleet EXCEPT ![journal.key] = journal.fleet[journal.key]]
        BY <2>1, <2>2, <3>3, <4>1 DEF AfterUndo, RestoredFleet
      <4>3. fleet[journal.key] = journal.fleet[journal.key]
        BY <3>3, <4>2 DEF TouchesFleet, FleetText
      <4>4. \A k \in Paired : fleet[k] = journal.fleet[k]
        BY <2>1, <4>3 DEF OnlyItsAlias
      <4>5. QED
        BY <2>3, <4>4 DEF FleetText
    <3>4. QED
      BY <3>1, <3>2, <3>3
  <2>5. TransportOf(env) = TransportOf(journal.env)
    BY <2>1, <2>2 DEF AfterUndo
  <2>6. QED
    BY <2>1, <2>4, <2>5 DEF OnDisk
<1>2. QED
  BY <1>1, Safe, PTL

-----------------------------------------------------------------------------
(* The detailed guard implements the abstract one.                         *)

(* A robot that starts is an abstract guard with no change pending.        *)
LEMMA GuardInit == Init => Guard!Init
<1> SUFFICES ASSUME Init PROVE Guard!Init
  OBVIOUS
<1>1. OnDisk = vouched
  BY DEF Init, OnDisk
<1>2. vouched \in [env : Transport, fleet : FleetText]
  BY TypeInit DEF TypeInv, TypeOK
<1>3. QED
  BY <1>1, <1>2 DEF Init, Guard!Init

(* Every step of the agent is a step of the abstract guard or a stutter.   *)
LEMMA GuardStep == ASSUME Benign, IInv, [Next]_vars PROVE [Guard!Next]_Guard!vars
<1>1. TypeInv /\ TypeInv' /\ Recoverable /\ \A t \in Threads : Progress(t)
  BY TypeStep DEF IInv
<1>2. OnDisk' \in [env : Transport, fleet : FleetText]
  BY <1>1 DEF TypeInv, TypeOK, OnDisk, TransportOf, FileText, Transport
<1>3. CASE UNCHANGED <<OnDisk, vouched, journal>>
  BY <1>3 DEF Guard!vars
<1>4. CASE journal # None /\ UNCHANGED <<vouched, journal>>
  BY <1>2, <1>4 DEF Guard!Next, Guard!Change
<1>5. ASSUME NEW t \in Threads, Step(t)
      PROVE [Guard!Next]_Guard!vars
  <2> USE DEF files, plane, context, OnDisk
  <2>1. CASE OpenJournal(t)
    <3>1. journal = None /\ UNCHANGED <<OnDisk, vouched>>
      BY <1>1, <2>1 DEF OpenJournal, Progress, TransportOf
    <3>2. journal' \in {None, saved[t]} /\ saved[t] # None
      BY <1>1, <2>1, <3>1 DEF OpenJournal, TypeInv, Control
    <3>3. QED
      BY <1>3, <3>1, <3>2 DEF Guard!Next, Guard!Announce
  <2>2. CASE PutEnv(t)
    <3>1. UNCHANGED <<fleet, vouched, journal>>
      BY <2>2 DEF PutEnv
    <3>2. CASE req[t].key \in Severing
      BY <1>1, <1>4, <2>2, <3>1, <3>2 DEF PutEnv, Progress, Forward
    <3>3. CASE req[t].key \notin Severing
      <4>1. \/ env' = env
            \/ env' = [env EXCEPT ![req[t].key] = req[t].value]
        BY <1>1, <2>2 DEF PutEnv, Progress
      <4>2. TransportOf(env)' = TransportOf(env)
        BY <1>1, <3>3, <4>1 DEF TransportOf, TypeInv, TypeOK, FileText
      <4>3. QED
        BY <1>3, <3>1, <4>2
    <3>4. QED
      BY <3>2, <3>3
  <2>3. CASE PutFleet(t) \/ FleetWrite(t)
    <3>1. journal # None /\ UNCHANGED <<vouched, journal>>
      BY <1>1, <2>3 DEF PutFleet, FleetWrite, Progress, Forward, TouchesFleet
    <3>2. QED
      BY <1>4, <3>1
  <2>4. CASE UndoEnv(t) \/ UndoFleet(t)
    <3>1. journal # None /\ UNCHANGED <<vouched, journal>>
      BY <1>1, <2>4 DEF UndoEnv, UndoFleet, Progress, Undoing
    <3>2. QED
      BY <1>4, <3>1
  <2>5. CASE KeepChange(t)
    <3>1. /\ journal # None /\ journal' = None
          /\ vouched' = OnDisk /\ OnDisk' = OnDisk
      BY <1>1, <2>5 DEF KeepChange, CloseJournal, Progress, Applied, Benign, TransportOf
    <3>2. QED
      BY <3>1 DEF Guard!Next, Guard!Keep
  <2>6. CASE CloseChange(t)
    <3>1. /\ journal # None /\ journal' = None
          /\ OnDisk = vouched /\ UNCHANGED <<OnDisk, vouched>>
      <4>1. /\ journal # None /\ TransportOf(env) = vouched.env /\ fleet = vouched.fleet
        BY <1>1, <2>6 DEF CloseChange, Progress, Undoing
      <4>2. OnDisk = vouched
        BY <1>1, <4>1 DEF TypeInv, TypeOK
      <4>3. QED
        BY <2>6, <4>1, <4>2 DEF CloseChange, CloseJournal, Benign, TransportOf
    <3>2. QED
      BY <3>1 DEF Guard!Next, Guard!Undone
  <2>7. CASE Rollback(t)
    <3>1. journal # None /\ UNCHANGED <<vouched, journal>>
      BY <1>1, <2>7 DEF Rollback, Progress, Forward, TouchesFleet
    <3>2. QED
      BY <1>4, <3>1
  <2>8. CASE Fail(t)
    <3>1. /\ UNCHANGED <<OnDisk, vouched>>
          /\ journal' # journal =>
               /\ journal # None /\ journal' = None
               /\ TransportOf(env) = vouched.env /\ fleet = vouched.fleet
      BY <1>1, <2>8 DEF Fail, CloseJournal, Progress, Forward, Benign, TransportOf
    <3>2. TransportOf(env) = vouched.env /\ fleet = vouched.fleet => OnDisk = vouched
      BY <1>1 DEF TypeInv, TypeOK
    <3>3. QED
      BY <1>3, <3>1, <3>2 DEF Guard!Next, Guard!Undone
  <2>9. CASE \/ CheckJournal(t) \/ Stage(t) \/ StartRecreate(t) \/ EndRecreate(t)
             \/ RestartBridge(t) \/ TelemetryReturns(t) \/ WindowCloses(t)
             \/ ReadJournal(t)
    <3>1. UNCHANGED <<env, fleet, vouched, journal>>
      BY <2>9 DEF CheckJournal, Stage, StartRecreate, EndRecreate, RestartBridge,
                  TelemetryReturns, WindowCloses, ReadJournal
    <3>2. QED
      BY <1>3, <3>1 DEF TransportOf
  <2>10. QED
    BY <1>5, <2>1, <2>2, <2>3, <2>4, <2>5, <2>6, <2>7, <2>8, <2>9 DEF Step
<1>6. CASE \/ \E h \in Handlers : Call(h)
           \/ \E target \in detached : DetachedEnds(target)
           \/ Sample \/ Crash \/ Start \/ UNCHANGED vars
  <2>1. UNCHANGED <<env, fleet, vouched, journal>>
    BY <1>6 DEF Call, ConfigWrite, ConfigRollback, Detach, DetachedEnds, Sample, Crash,
                Start, vars, files, context
  <2>2. QED
    BY <1>3, <2>1 DEF OnDisk, TransportOf
<1>7. QED
  BY <1>5, <1>6 DEF Next

(* Every behaviour of the guard is one its abstract specification allows:  *)
(* transport changes only while a change is open, and an open change ends  *)
(* only by being verified or by being undone.                              *)
THEOREM GuardImplemented == Benign /\ Spec => GuardSpec
<1>1. SUFFICES ASSUME Benign PROVE Spec => GuardSpec
  OBVIOUS
<1>2. IInv /\ [Next]_vars => [Guard!Next]_Guard!vars
  BY <1>1, GuardStep
<1>3. Spec => []IInv
  BY <1>1, Safe
<1>4. QED
  BY <1>2, <1>3, GuardInit, PTL DEF Spec, GuardSpec, Guard!Spec
-----------------------------------------------------------------------------
(* What an error means.  Two faults do leave something moved behind one: a *)
(* writer whose call fails after it has written, and contents that cannot  *)
(* be put back.  A forward write that fails, a writer that denies and a    *)
(* file that lacks an alias do not.                                        *)
Honest == Serial /\ Faults \cap {"late", "disk"} = {}

(* What a write in flight has moved of what it found: nothing, or          *)
(* `.env.config' alone.                                                    *)
Moved(t) ==
  /\ pc[t] \in {"putEnv", "fail"} => env = old[t].env
  /\ pc[t] \in {"putEnv", "putFleet", "rollback", "fail"} => fleet = old[t].fleet
  /\ pc[t] # "raise"

MovedInv == TypeInv /\ Exclusive /\ \A t \in Threads : Moved(t)

(* A step keeps what its own thread has moved: forward it is only the file *)
(* replaced last, and back it is the file put back.                        *)
LEMMA StepMovesOne ==
  ASSUME Honest, MovedInv, NEW t \in Threads, Step(t) PROVE Moved(t)'
<1> USE DEF MovedInv, TypeInv, TypeOK, Moved, GoTo, files
<1>1. CASE CheckJournal(t)
  BY <1>1 DEF CheckJournal, Return
<1>2. CASE OpenJournal(t)
  BY <1>2 DEF OpenJournal, Return
<1>3. CASE Stage(t)
  BY <1>3 DEF Stage
<1>4. CASE PutEnv(t)
  BY <1>4 DEF PutEnv, Written, Return
<1>5. CASE PutFleet(t)
  BY <1>5 DEF PutFleet
<1>6. CASE FleetWrite(t)
  BY <1>6 DEF FleetWrite, Honest
<1>7. CASE Rollback(t)
  BY <1>7 DEF Rollback, Honest
<1>8. CASE Fail(t)
  BY <1>8 DEF Fail, Return
<1>9. CASE StartRecreate(t) \/ EndRecreate(t)
  BY <1>9 DEF StartRecreate, EndRecreate
<1>10. CASE RestartBridge(t) \/ TelemetryReturns(t) \/ WindowCloses(t)
  BY <1>10 DEF RestartBridge, TelemetryReturns, WindowCloses
<1>11. CASE KeepChange(t) \/ CloseChange(t)
  BY <1>11 DEF KeepChange, CloseChange, Return
<1>12. CASE ReadJournal(t)
  BY <1>12 DEF ReadJournal, Return
<1>13. CASE UndoEnv(t) \/ UndoFleet(t)
  BY <1>13 DEF UndoEnv, UndoFleet
<1>14. QED
  BY <1>1, <1>2, <1>3, <1>4, <1>5, <1>6, <1>7, <1>8, <1>9, <1>10, <1>11, <1>12,
     <1>13 DEF Step

(* No step of another thread, and nothing around the agent, moves a file   *)
(* under a write in flight.                                                *)
LEMMA MovedStep == ASSUME Honest, MovedInv, [Next]_vars PROVE MovedInv'
<1> USE DEF MovedInv
<1>1. TypeInv' /\ Exclusive'
  BY TypeStep, ExclusiveStep DEF Honest
<1>2. ASSUME NEW t \in Threads, pc'[t] \in {"off", "idle", "check", "stage", "read"}
      PROVE Moved(t)'
  BY <1>2 DEF Moved
<1>3. ASSUME NEW t \in Threads, Step(t), NEW s \in Threads PROVE Moved(s)'
  BY <1>2, <1>3, OthersIdle, StepMovesOne
<1>4. ASSUME NEW h \in Handlers, Call(h), NEW s \in Threads PROVE Moved(s)'
  <2>1. pc'[h] \in {"idle", "check", "stage", "read"}
    BY <1>4, CallsWait DEF Call, ConfigWrite, ConfigRollback, Detach, GoTo, locals,
                           Threads, TypeInv, TypeOK, Honest
  <2>2. \A r \in Threads \ {h} : pc'[r] = "idle"
    BY <1>4, CallsWait DEF Honest
  <2>3. QED
    BY <1>2, <2>1, <2>2
<1>5. ASSUME Crash, NEW s \in Threads PROVE Moved(s)'
  BY <1>2, <1>5 DEF Crash
<1>6. ASSUME Start, NEW s \in Threads PROVE Moved(s)'
  <2>1. pc'[s] = pc[s] \/ pc'[s] = "read"
    BY <1>6 DEF Start, GoTo, TypeInv, TypeOK
  <2>2. UNCHANGED <<env, fleet, old>>
    BY <1>6 DEF Start, files
  <2>3. QED
    BY <2>1, <2>2 DEF Moved
<1>7. ASSUME Sample \/ (\E target \in detached : DetachedEnds(target)) \/ UNCHANGED vars,
             NEW s \in Threads
      PROVE Moved(s)'
  BY <1>7 DEF Sample, DetachedEnds, vars, files, locals, Moved
<1>8. QED
  BY <1>1, <1>3, <1>4, <1>5, <1>6, <1>7 DEF Next

(* A write that ends in an error has left both files as it found them: the *)
(* first is put back when the second cannot be written.                    *)
THEOREM ErrorMovesNothing == Honest /\ Spec => []ErrorMeansNothingMoved
<1>1. SUFFICES ASSUME Honest PROVE Spec => []ErrorMeansNothingMoved
  OBVIOUS
<1>2. Init => MovedInv
  BY TypeInit DEF Init, MovedInv, Exclusive, Moved
<1>3. MovedInv /\ [Next]_vars => MovedInv'
  BY <1>1, MovedStep
<1>4. MovedInv => ErrorMeansNothingMoved
  BY DEF MovedInv, Moved, ErrorMeansNothingMoved, Threads
<1>5. QED
  BY <1>2, <1>3, <1>4, PTL DEF Spec

-----------------------------------------------------------------------------
(* The data plane.  Restarts that work, and no compose run in flight that  *)
(* nobody waits for: an `up', a `down' or a mode's recreate that ends in   *)
(* the middle of a change starts the containers with something else.       *)
Steady == Benign /\ Faults \cap {"recreate", "bridge"} = {}

NoneDetached == detached = {}

(* So it is on a robot with no mode key, that nobody starts or stops.      *)
LEMMA Attended ==
  ASSUME Mode = {}, Verbs \cap {"up", "down"} = {}
  PROVE  Spec => []NoneDetached
<1>1. Init => NoneDetached
  BY DEF Init, NoneDetached
<1>2. ASSUME NoneDetached, [Next]_vars PROVE NoneDetached'
  <2> USE DEF NoneDetached
  <2>1. CASE UNCHANGED detached
    BY <1>2, <2>1
  <2>2. ASSUME NEW t \in Threads, Step(t) PROVE UNCHANGED detached
    BY <2>2 DEF Step, CheckJournal, OpenJournal, Stage, PutEnv, Written, PutFleet,
                FleetWrite, Rollback, Fail, StartRecreate, EndRecreate, RestartBridge,
                TelemetryReturns, WindowCloses, KeepChange, ReadJournal, UndoEnv,
                UndoFleet, CloseChange, plane
  <2>3. ASSUME NEW h \in Handlers, Call(h) PROVE UNCHANGED detached
    BY <2>3 DEF Call, ConfigWrite, ConfigRollback, Detach, plane
  <2>4. CASE (\E target \in detached : DetachedEnds(target)) \/ Crash
    BY <1>2, <2>4 DEF Crash
  <2>5. CASE Sample \/ Start \/ UNCHANGED vars
    BY <1>2, <2>5 DEF Sample, Start, vars, plane
  <2>6. QED
    BY <1>2, <2>1, <2>2, <2>3, <2>4, <2>5 DEF Next
<1>3. QED
  BY <1>1, <1>2, PTL DEF Spec

(* What the containers run.  A file or a bridge that fails does not matter *)
(* here, only a recreate that does not do what it was asked.               *)
Waited == Serial /\ "recreate" \notin Faults

(* From its recreate to its answer a change's containers start with, and   *)
(* then run, what is on disk.                                              *)
Run(t) ==
  /\ pc[t] = "recreating" => image[t] = TransportOf(env)
  /\ pc[t] \in {"bridge", "verify", "keep"} => running = TransportOf(env)

RunInv == TypeInv /\ Exclusive /\ \A t \in Threads : Run(t)

(* A step that leaves the recreate behind has the containers run it.       *)
LEMMA StepRuns ==
  ASSUME Waited, RunInv, NEW t \in Threads, Step(t) PROVE Run(t)'
<1> USE DEF RunInv, TypeInv, TypeOK, Run, GoTo, files, plane, TransportOf
<1>1. CASE CheckJournal(t) \/ OpenJournal(t) \/ Fail(t) \/ KeepChange(t) \/ CloseChange(t)
  BY <1>1 DEF CheckJournal, OpenJournal, Fail, KeepChange, CloseChange, Return
<1>2. CASE Stage(t) \/ PutEnv(t) \/ PutFleet(t) \/ FleetWrite(t) \/ Rollback(t)
  BY <1>2 DEF Stage, PutEnv, Written, PutFleet, FleetWrite, Rollback, Return
<1>3. CASE StartRecreate(t)
  BY <1>3 DEF StartRecreate
<1>4. CASE EndRecreate(t)
  BY <1>4 DEF EndRecreate, Waited
<1>5. CASE RestartBridge(t) \/ TelemetryReturns(t) \/ WindowCloses(t)
  BY <1>5 DEF RestartBridge, TelemetryReturns, WindowCloses
<1>6. CASE ReadJournal(t) \/ UndoEnv(t) \/ UndoFleet(t)
  BY <1>6 DEF ReadJournal, UndoEnv, UndoFleet, Return
<1>7. QED
  BY <1>1, <1>2, <1>3, <1>4, <1>5, <1>6 DEF Step

(* Nobody else changes the file or the containers meanwhile.               *)
LEMMA RunStep ==
  ASSUME Waited, RunInv, NoneDetached, [Next]_vars PROVE RunInv'
<1> USE DEF RunInv
<1>1. TypeInv' /\ Exclusive'
  BY TypeStep, ExclusiveStep DEF Waited
<1>2. ASSUME NEW t \in Threads, pc'[t] \in {"off", "idle", "check", "stage", "read"}
      PROVE Run(t)'
  BY <1>2 DEF Run
<1>3. ASSUME NEW t \in Threads, Step(t), NEW s \in Threads PROVE Run(s)'
  BY <1>2, <1>3, OthersIdle, StepRuns
<1>4. ASSUME NEW h \in Handlers, Call(h), NEW s \in Threads PROVE Run(s)'
  <2>1. pc'[h] \in {"idle", "check", "stage", "read"}
    BY <1>4, CallsWait DEF Call, ConfigWrite, ConfigRollback, Detach, GoTo, locals,
                           Threads, TypeInv, TypeOK, Waited
  <2>2. \A r \in Threads \ {h} : pc'[r] = "idle"
    BY <1>4, CallsWait DEF Waited
  <2>3. QED
    BY <1>2, <2>1, <2>2
<1>5. ASSUME Crash, NEW s \in Threads PROVE Run(s)'
  BY <1>2, <1>5 DEF Crash
<1>6. ASSUME Start, NEW s \in Threads PROVE Run(s)'
  <2>1. pc'[s] = pc[s] \/ pc'[s] = "read"
    BY <1>6 DEF Start, GoTo, TypeInv, TypeOK
  <2>2. UNCHANGED <<env, running, image>>
    BY <1>6 DEF Start, files, plane
  <2>3. QED
    BY <2>1, <2>2 DEF Run, TransportOf
<1>7. ASSUME Sample \/ UNCHANGED vars, NEW s \in Threads PROVE Run(s)'
  BY <1>7 DEF Sample, vars, files, plane, Run, TransportOf
<1>8. QED
  BY <1>1, <1>3, <1>4, <1>5, <1>6, <1>7 DEF Next, NoneDetached

(* The change a caller is told is verified is the one the containers run.  *)
THEOREM VerifiedApplies == Waited /\ Spec /\ []NoneDetached => []VerifiedIsApplied
<1>1. SUFFICES ASSUME Waited PROVE Spec /\ []NoneDetached => []VerifiedIsApplied
  OBVIOUS
<1>2. Init => RunInv
  BY TypeInit DEF Init, RunInv, Exclusive, Run
<1>3. RunInv /\ NoneDetached /\ [Next]_vars => RunInv'
  BY <1>1, RunStep
<1>4. RunInv => VerifiedIsApplied
  BY DEF RunInv, Run, VerifiedIsApplied, Threads
<1>5. QED
  BY <1>2, <1>3, <1>4, PTL DEF Spec

(* Telemetry reaches the fabric under the transport it last vouched for.   *)
VouchedReaches ==
  /\ \A k \in Severing : vouched.env[k] \notin Broken
  /\ \A k \in Paired : vouched.fleet[k] \in {vouched.env[k], Unset}

(* How much of what is on disk a thread's restart has brought up.          *)
Restarted(t) ==
  /\ pc[t] \in {"recreating", "undoRecreating"} => image[t] = TransportOf(env)
  /\ pc[t] \in {"bridge", "undoBridge", "verify", "keep", "close"}
       => running = TransportOf(env)
  /\ pc[t] \in {"verify", "keep", "close"} => bridge = fleet
  /\ pc[t] = "verify" /\ fresh[t] => Reaches
  /\ pc[t] = "keep" => Reaches
  /\ pc[t] \in Forward /\ req[t].key \in Severing
       => running = vouched.env /\ bridge = vouched.fleet

(* With no change open, the plane runs what telemetry vouched for.         *)
RunsVouched == journal = None => running = vouched.env /\ bridge = vouched.fleet

PlaneInv ==
  /\ VouchedReaches
  /\ RunsVouched
  /\ \A t \in Threads : Restarted(t)

(* A robot boots with telemetry on the fabric.                             *)
LEMMA PlaneInit == Init => PlaneInv
<1> SUFFICES ASSUME Init PROVE PlaneInv
  OBVIOUS
<1>1. VouchedReaches
  BY DEF Init, VouchedReaches, TransportOf
<1>2. RunsVouched
  BY DEF Init, RunsVouched
<1>3. \A t \in Threads : Restarted(t)
  BY DEF Init, Restarted
<1>4. QED
  BY <1>1, <1>2, <1>3 DEF PlaneInv

(* The plane runs what was vouched for, so telemetry reaches the fabric.   *)
LEMMA VouchedPlaneReaches ==
  ASSUME TypeInv, VouchedReaches, running = vouched.env, bridge = vouched.fleet
  PROVE  Reaches
<1>1. running \in Transport /\ Down \notin Transport
  BY DEF TypeInv, TypeOK
<1>2. QED
  BY <1>1 DEF VouchedReaches, Reaches

(* Only the thread that waits for a restart moves the plane, and a step    *)
(* that leaves plane, files and history alone keeps what is up.            *)
LEMMA PlaneKept ==
  ASSUME PlaneInv, UNCHANGED <<env, fleet, journal, running, bridge, image, fresh, vouched>>
  PROVE  /\ VouchedReaches' /\ RunsVouched'
         /\ \A t \in Threads : pc'[t] = pc[t] /\ req'[t] = req[t] => Restarted(t)'
<1>1. VouchedReaches' /\ RunsVouched'
  BY DEF PlaneInv, VouchedReaches, RunsVouched
<1>2. ASSUME NEW t \in Threads, pc'[t] = pc[t], req'[t] = req[t] PROVE Restarted(t)'
  BY <1>2 DEF PlaneInv, Restarted, Reaches, TransportOf, Forward
<1>3. QED
  BY <1>1, <1>2

(* A step brings up no more than it claims.                                *)
LEMMA StepRestarts ==
  ASSUME Steady, IInv, PlaneInv, NEW t \in Threads, Step(t)
  PROVE  VouchedReaches' /\ RunsVouched' /\ Restarted(t)'
<1> USE DEF IInv, TypeInv, TypeOK, GoTo, files, plane, context
<1>1. CASE CheckJournal(t)
  <2>1. /\ pc'[t] \in {"idle", "open"}
        /\ UNCHANGED <<journal, running, bridge, vouched>>
    BY <1>1 DEF CheckJournal, Return
  <2>2. QED
    BY <2>1 DEF PlaneInv, VouchedReaches, RunsVouched, Restarted, Forward
<1>2. CASE OpenJournal(t)
  <2>1. /\ pc'[t] \in {"idle", "stage"}
        /\ journal = None
        /\ UNCHANGED <<running, bridge, vouched>>
    BY <1>2 DEF OpenJournal, Return, Progress
  <2>2. running = vouched.env /\ bridge = vouched.fleet
    BY <2>1 DEF PlaneInv, RunsVouched
  <2>3. QED
    BY <2>1, <2>2 DEF PlaneInv, VouchedReaches, RunsVouched, Restarted, Forward
<1>3. CASE \/ Stage(t) \/ PutEnv(t) \/ PutFleet(t) \/ FleetWrite(t) \/ Rollback(t)
           \/ UndoEnv(t) \/ UndoFleet(t)
  <2>1. /\ (pc[t] \in Forward /\ req'[t] = req[t]) \/ pc'[t] \notin Forward
        /\ pc'[t] \in {"idle", "putEnv", "putFleet", "rollback", "fail", "recreate",
                       "undoFleet", "undoRecreate"}
    BY <1>3 DEF Stage, PutEnv, Written, Return, PutFleet, FleetWrite, Rollback, UndoEnv,
                UndoFleet, Forward, Steady, Benign
  <2>2. UNCHANGED <<journal, running, bridge, vouched>>
    BY <1>3 DEF Stage, PutEnv, PutFleet, FleetWrite, Rollback, UndoEnv, UndoFleet
  <2>3. Restarted(t)'
    BY <2>1, <2>2 DEF PlaneInv, Restarted
  <2>4. QED
    BY <2>2, <2>3 DEF PlaneInv, VouchedReaches, RunsVouched
<1>4. CASE StartRecreate(t)
  <2>1. /\ pc'[t] \in {"recreating", "undoRecreating"}
        /\ image'[t] = TransportOf(env)
        /\ UNCHANGED <<env, journal, running, bridge, vouched>>
    BY <1>4 DEF StartRecreate
  <2>2. QED
    BY <2>1 DEF PlaneInv, VouchedReaches, RunsVouched, Restarted, TransportOf, Forward
<1>5. CASE EndRecreate(t)
  <2>1. /\ pc'[t] \in {"bridge", "undoBridge"} /\ journal # None
        /\ running' = TransportOf(env)
        /\ UNCHANGED <<env, journal, vouched>>
    BY <1>5 DEF EndRecreate, Steady, PlaneInv, Restarted, Progress, Applied, Undoing
  <2>2. QED
    BY <2>1 DEF PlaneInv, VouchedReaches, RunsVouched, Restarted, TransportOf, Forward
<1>6. CASE RestartBridge(t)
  <2>1. /\ (pc'[t] = "verify" /\ ~fresh'[t]) \/ pc'[t] = "close"
        /\ journal # None /\ running = TransportOf(env) /\ bridge' = fleet
        /\ UNCHANGED <<env, fleet, journal, running, vouched>>
    BY <1>6 DEF RestartBridge, Steady, PlaneInv, Restarted, Progress, Applied, Undoing
  <2>2. QED
    BY <2>1 DEF PlaneInv, VouchedReaches, RunsVouched, Restarted, TransportOf, Forward
<1>7. CASE TelemetryReturns(t)
  <2>1. /\ pc'[t] = "keep" /\ Reaches /\ running = TransportOf(env) /\ bridge = fleet
        /\ UNCHANGED <<env, fleet, journal, running, bridge, vouched>>
    BY <1>7 DEF TelemetryReturns, PlaneInv, Restarted
  <2>2. QED
    BY <2>1 DEF PlaneInv, VouchedReaches, RunsVouched, Restarted, TransportOf, Reaches,
                Forward
<1>8. CASE KeepChange(t)
  <2>1. Reaches /\ running = TransportOf(env) /\ bridge = fleet
    BY <1>8 DEF KeepChange, PlaneInv, Restarted
  <2>2. /\ pc'[t] = "idle" /\ UNCHANGED <<running, bridge>>
        /\ vouched' = [env |-> TransportOf(env), fleet |-> fleet]
    BY <1>8 DEF KeepChange, Return
  <2>3. VouchedReaches'
    BY <2>1, <2>2 DEF VouchedReaches, Reaches
  <2>4. QED
    BY <2>1, <2>2, <2>3 DEF RunsVouched, Restarted, Forward
<1>9. CASE WindowCloses(t) \/ ReadJournal(t)
  <2>1. pc'[t] \in {"undoEnv", "idle"} /\ UNCHANGED <<journal, running, bridge, vouched>>
    BY <1>9 DEF WindowCloses, ReadJournal, Return
  <2>2. QED
    BY <2>1 DEF PlaneInv, VouchedReaches, RunsVouched, Restarted, Forward
<1>10. CASE CloseChange(t)
  <2>1. /\ pc'[t] = "idle" /\ running = TransportOf(env) /\ bridge = fleet
        /\ TransportOf(env) = vouched.env /\ fleet = vouched.fleet
        /\ UNCHANGED <<running, bridge, vouched>>
    BY <1>10 DEF CloseChange, Return, PlaneInv, Restarted, Progress, Undoing
  <2>2. QED
    BY <2>1 DEF PlaneInv, VouchedReaches, RunsVouched, Restarted, Forward
<1>11. CASE Fail(t)
  <2>1. /\ pc[t] \in {"fail", "raise"} /\ pc'[t] = "idle"
        /\ UNCHANGED <<running, bridge, vouched>>
    BY <1>11 DEF Fail, Return
  <2>2. \/ journal' = journal
        \/ running = vouched.env /\ bridge = vouched.fleet
    BY <1>11, <2>1 DEF Fail, PlaneInv, Restarted, Forward
  <2>3. QED
    BY <2>1, <2>2 DEF PlaneInv, VouchedReaches, RunsVouched, Restarted, Forward
<1>12. QED
  BY <1>1, <1>2, <1>3, <1>4, <1>5, <1>6, <1>7, <1>8, <1>9, <1>10, <1>11 DEF Step

(* Nothing but the agent's own restarts moves the plane, and a sample only *)
(* arrives when telemetry reaches.                                         *)
LEMMA PlaneStep ==
  ASSUME Steady, IInv, PlaneInv, NoneDetached, NoneDetached', [Next]_vars
  PROVE  PlaneInv'
<1>1. ASSUME NEW t \in Threads, pc'[t] \in {"off", "idle", "check", "stage", "read"},
             pc'[t] = "stage" => req'[t].key \notin Severing
      PROVE Restarted(t)'
  BY <1>1 DEF Restarted, Forward
<1>2. ASSUME NEW t \in Threads, Step(t) PROVE PlaneInv'
  <2>1. \A s \in Threads \ {t} : pc'[s] = "idle"
    BY <1>2, OthersIdle DEF IInv
  <2>2. QED
    BY <1>1, <1>2, <2>1, StepRestarts DEF PlaneInv
<1>3. ASSUME NEW h \in Handlers, Call(h) PROVE PlaneInv'
  <2>1. UNCHANGED <<env, fleet, journal, running, bridge, image, fresh, vouched>>
    BY <1>3 DEF Call, ConfigWrite, ConfigRollback, Detach, files, plane, locals, context
  <2>2. /\ pc'[h] \in {"idle", "check", "stage", "read"}
        /\ pc'[h] = "stage" => req'[h].key \notin Severing
    <3>1. pc[h] = "idle" /\ h \in DOMAIN pc /\ h \in DOMAIN req
      BY <1>3, CallsWait DEF Threads, IInv, TypeInv, TypeOK, Steady, Benign
    <3>2. QED
      BY <1>3, <3>1 DEF Call, ConfigWrite, ConfigRollback, Detach, GoTo, locals
  <2>3. \A s \in Threads \ {h} : pc'[s] = "idle"
    BY <1>3, CallsWait DEF IInv, Steady, Benign
  <2>4. QED
    BY <1>1, <2>1, <2>2, <2>3, PlaneKept DEF PlaneInv
<1>4. CASE Crash
  <2>1. /\ UNCHANGED <<journal, running, bridge, vouched>>
        /\ \A s \in Threads : pc'[s] \in {"off", "idle"}
    BY <1>4 DEF Crash, files
  <2>2. VouchedReaches' /\ RunsVouched'
    BY <2>1 DEF PlaneInv, VouchedReaches, RunsVouched
  <2>3. QED
    BY <1>1, <2>1, <2>2 DEF PlaneInv
<1>5. CASE Start
  <2>1. UNCHANGED <<env, fleet, journal, running, bridge, image, fresh, vouched>>
    BY <1>5 DEF Start, files, plane, context
  <2>2. req' = req /\ \A s \in Threads : pc'[s] = pc[s] \/ pc'[s] = "read"
    BY <1>5 DEF Start, GoTo, IInv, TypeInv, TypeOK
  <2>3. QED
    BY <1>1, <2>1, <2>2, PlaneKept DEF PlaneInv
<1>6. CASE Sample
  <2>1. /\ Reaches
        /\ UNCHANGED <<env, fleet, journal, running, bridge, image, vouched, pc, req>>
    BY <1>6 DEF Sample, files, plane, context
  <2>2. QED
    BY <2>1 DEF PlaneInv, VouchedReaches, RunsVouched, Restarted, Reaches, TransportOf,
                Forward
<1>7. CASE UNCHANGED vars
  <2>1. UNCHANGED <<env, fleet, journal, running, bridge, image, fresh, vouched, pc, req>>
    BY <1>7 DEF vars
  <2>2. QED
    BY <2>1, PlaneKept DEF PlaneInv
<1>8. QED
  BY <1>2, <1>3, <1>4, <1>5, <1>6, <1>7 DEF Next, NoneDetached

(* The inductive invariant of the plane, on that of the guard.             *)
THEOREM PlaneHolds == Steady /\ Spec /\ []NoneDetached => []PlaneInv
<1>1. SUFFICES ASSUME Steady PROVE Spec /\ []NoneDetached => []PlaneInv
  OBVIOUS
<1>2. IInv /\ PlaneInv /\ NoneDetached /\ NoneDetached' /\ [Next]_vars => PlaneInv'
  BY <1>1, PlaneStep
<1>3. Spec => []IInv
  BY <1>1, Safe DEF Steady
<1>4. QED
  BY <1>2, <1>3, PlaneInit, PTL DEF Spec

(* Between calls telemetry reaches the fabric, whatever was written, and   *)
(* however often the agent died while a change was open.                   *)
THEOREM QuietPlaneReaches == Steady /\ Spec /\ []NoneDetached => []QuietReaches
<1>1. IInv /\ PlaneInv => QuietReaches
  BY VouchedPlaneReaches DEF IInv, PlaneInv, RunsVouched, QuietReaches
<1>2. Steady /\ Spec => []IInv
  BY Safe DEF Steady
<1>3. QED
  BY <1>1, <1>2, PlaneHolds, PTL
=============================================================================
