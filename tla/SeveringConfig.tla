--------------------------- MODULE SeveringConfig ---------------------------
(***************************************************************************)
(* The Anvil adapter's configuration writes, and the guard on the          *)
(* severing ones: the journal, the paired write to the loader's            *)
(* `.env.config' and the fleet's `/etc/fm-comms.env', the restart of the   *)
(* data plane, the watch on the fabric, the revert, and the rollback an    *)
(* agent that restarts inherits.                                           *)
(*                                                                         *)
(* A thread is a call of the Zenoh handler, or the agent's main thread at  *)
(* start-up (Boot).  Zenoh calls the handler from threads of its own, one  *)
(* at a time or several at once: Serial says which is assumed.  An agent   *)
(* crash ends every thread between any two steps and loses what they       *)
(* remember; files, containers and the bridge survive it.                  *)
(*                                                                         *)
(* Data: a file is a function from keys to values.  The containers and the *)
(* bridge are what they were last started with.                            *)
(***************************************************************************)
EXTENDS Naturals, FiniteSets

CONSTANTS
  Keys,           \* the keys of `.env.config' this agent classifies
  Severing,       \* the keys whose class is "severing"
  Mode,           \* the keys whose class is "mode"
  Motion,         \* the keys whose class is "motion"; the rest are "tuning"
  Paired,         \* the severing keys the fleet file holds as well
  Values,         \* the values the validator accepts
  Broken,         \* the values of a severing key that kill telemetry
  Unset,          \* an alias the fleet file does not hold
  None,           \* no journal, no staged file, nothing remembered
  Down,           \* the stack with no container running
  Handlers,       \* calls of the queryable's handler that can be in flight
  Boot,           \* the agent's main thread
  Serial,         \* whether Zenoh calls the handler one query at a time
  Faults,         \* what can go wrong: see FaultKinds
  Custodies,      \* what a fleet file can be on this host: see Custody
  Verbs,          \* the calls clients make: see VerbKinds
  MaxCrashes,     \* bound: crashes of the agent
  MaxDetached     \* bound: compose runs in flight that nobody waits for

(* What can go wrong around the agent.                                     *)
(*   recreate  `docker compose' fails, hangs or cannot be started          *)
(*   bridge    `systemctl restart' of the bridge fails                     *)
(*   denied    the root-owned writer refuses, and writes nothing           *)
(*   late      the writer writes, and its call is reported as failed       *)
(*   write     new contents cannot be put in a file on the way forward     *)
(*   disk      contents cannot be put back, or the journal not unlinked    *)
(*   gap       the fleet file was provisioned without an alias             *)
FaultKinds == {"recreate", "bridge", "denied", "late", "write", "disk", "gap"}

(* The fleet file: not on this host, replaceable by the agent, or root's.  *)
Custody == {"absent", "direct", "delegated"}

VerbKinds == {"set", "rollback", "up", "down"}

FileText  == [Keys -> Values]
FleetText == [Paired -> Values \cup {Unset}]
Transport == [Severing -> Values]
Threads   == Handlers \cup {Boot}

(* Contents of both files, as a write remembers them; and a journal entry. *)
Texts == [env : FileText, fleet : FleetText]
Entry == [key : Severing, env : FileText, fleet : FleetText]

(* What a handler is asked to write.                                       *)
Request == [key : Keys, value : Values]

ASSUME KeysAssumption ==
  /\ Paired \subseteq Severing
  /\ Severing \subseteq Keys
  /\ Mode \subseteq Keys \ Severing
  /\ Motion \subseteq Keys \ (Severing \cup Mode)
  /\ Broken \subseteq Values

ASSUME AtomsAssumption ==
  /\ None \notin Entry
  /\ None \notin Texts
  /\ None \notin Request
  /\ None \notin FileText
  /\ None \notin FleetText
  /\ None \notin Transport
  /\ Down \notin Transport
  /\ Unset \notin Values
  /\ Boot \notin Handlers

ASSUME EnvironmentAssumption ==
  /\ Serial \in BOOLEAN
  /\ Faults \subseteq FaultKinds
  /\ Custodies \subseteq Custody
  /\ Verbs \subseteq VerbKinds
  /\ MaxCrashes \in Nat
  /\ MaxDetached \in Nat

VARIABLES
  env,            \* `.env.config'
  fleet,          \* `/etc/fm-comms.env', all Unset where there is none
  journal,        \* the journal file, or None
  tmp,            \* the staged `.tmp' beside each file, or None
  running,        \* the transport the containers run with, or Down
  bridge,         \* the fleet file the bridge was last started with
  detached,       \* compose runs nobody waits for, by what they will start
  pc,             \* where each thread is
  req,            \* the key and value a handler was asked to write, or None
  saved,          \* the contents a thread would put back, or None
  old,            \* the contents _write_paired found, or None
  image,          \* what a thread's compose run is recreating with, or None
  fresh,          \* whether telemetry was seen since a handler's window opened
  custody,        \* who may replace the fleet file on this host
  crashes,        \* crashes of the agent so far
  vouched         \* history: the last transport telemetry vouched for

files   == <<env, fleet, journal, tmp>>
plane   == <<running, bridge, detached>>
locals  == <<pc, req, saved, old, image, fresh>>
context == <<custody, crashes, vouched>>
vars    == <<env, fleet, journal, tmp, running, bridge, detached,
             pc, req, saved, old, image, fresh, custody, crashes, vouched>>

Steps == {"off", "idle", "check", "open", "stage", "putEnv", "putFleet",
          "rollback", "fail", "raise", "recreate", "recreating", "bridge", "verify",
          "keep", "read", "undoEnv", "undoFleet", "undoRecreate",
          "undoRecreating", "undoBridge", "close"}

-----------------------------------------------------------------------------
(* Helpers.                                                                *)

(* The part of `.env.config' that decides whether telemetry gets out.      *)
TransportOf(text) == [k \in Severing |-> text[k]]

(* Whether a write of k also touches the fleet file.                       *)
TouchesFleet(k) == k \in Paired /\ custody # "absent"

(* Telemetry leaves the containers, crosses the bridge and reaches the     *)
(* fabric.  A bridge whose file lacks an alias uses its own default, which *)
(* is taken to be right.                                                   *)
Reaches ==
  /\ running # Down
  /\ \A k \in Severing : running[k] \notin Broken
  /\ \A k \in Paired : bridge[k] \in {running[k], Unset}

GoTo(t, step) == pc' = [pc EXCEPT ![t] = step]

(* A call answers, or raises: it forgets what it knew.                     *)
Return(t) ==
  /\ GoTo(t, "idle")
  /\ req' = [req EXCEPT ![t] = None]
  /\ saved' = [saved EXCEPT ![t] = None]
  /\ old' = [old EXCEPT ![t] = None]

(* Journal.close: an unlink that fails is swallowed, the journal stays.    *)
CloseJournal ==
  \/ journal' = None
  \/ "disk" \in Faults /\ UNCHANGED journal

-----------------------------------------------------------------------------
Init ==
  /\ custody \in Custodies
  /\ env \in {text \in FileText : \A k \in Severing : text[k] \notin Broken}
  /\ fleet \in {text \in FleetText :
                  \A k \in Paired :
                    IF custody = "absent" THEN text[k] = Unset
                    ELSE \/ text[k] = env[k]
                         \/ text[k] = Unset /\ "gap" \in Faults}
  /\ running = TransportOf(env)
  /\ bridge = fleet
  /\ detached = {}
  /\ journal = None
  /\ tmp = [env |-> None, fleet |-> None]
  /\ pc = [t \in Threads |-> IF t = Boot THEN "off" ELSE "idle"]
  /\ req = [t \in Threads |-> None]
  /\ saved = [t \in Threads |-> None]
  /\ old = [t \in Threads |-> None]
  /\ image = [t \in Threads |-> None]
  /\ fresh = [t \in Threads |-> FALSE]
  /\ crashes = 0
  /\ vouched = [env |-> TransportOf(env), fleet |-> fleet]

-----------------------------------------------------------------------------
(* Calls arriving.                                                         *)

CanAnswer(h) ==
  /\ pc[Boot] = "idle"
  /\ pc[h] = "idle"
  /\ Serial => \A g \in Handlers : pc[g] = "idle"

(* config set: classified and validated; a motion key is refused while the *)
(* stack is up.                                                            *)
ConfigWrite(h, k, v) ==
  /\ CanAnswer(h)
  /\ "set" \in Verbs
  /\ k \in Motion => running = Down
  /\ k \in Mode => Cardinality(detached) < MaxDetached
  /\ GoTo(h, IF k \in Severing THEN "check" ELSE "stage")
  /\ req' = [req EXCEPT ![h] = [key |-> k, value |-> v]]
  /\ UNCHANGED <<files, plane, saved, old, image, fresh, context>>

(* config rollback.                                                        *)
ConfigRollback(h) ==
  /\ CanAnswer(h)
  /\ "rollback" \in Verbs
  /\ GoTo(h, "read")
  /\ UNCHANGED <<files, plane, req, saved, old, image, fresh, context>>

(* up and down spawn compose and answer: nobody waits for them.            *)
Detach(h, target) ==
  /\ CanAnswer(h)
  /\ \/ "up" \in Verbs /\ target = TransportOf(env)
     \/ "down" \in Verbs /\ target = Down
  /\ Cardinality(detached) < MaxDetached
  /\ detached' = detached \cup {target}
  /\ UNCHANGED <<files, running, bridge, locals, context>>

-----------------------------------------------------------------------------
(* A severing write, up to the files.                                      *)

(* Refused while a change is open; otherwise remember what is there.       *)
CheckJournal(h) ==
  /\ pc[h] = "check"
  /\ \/ /\ journal # None
        /\ Return(h)
     \/ /\ journal = None
        /\ saved' = [saved EXCEPT
                       ![h] = [key |-> req[h].key, env |-> env, fleet |-> fleet]]
        /\ GoTo(h, "open")
        /\ UNCHANGED <<req, old>>
  /\ UNCHANGED <<files, plane, image, fresh, context>>

(* Mutant: the files are written with no journal open.                     *)
OpenNothing(h) ==
  /\ pc[h] = "open"
  /\ GoTo(h, "stage")
  /\ UNCHANGED <<files, plane, req, saved, old, image, fresh, context>>

OpenJournal(h) ==
  /\ pc[h] = "open"
  /\ \/ /\ journal' = saved[h]
        /\ GoTo(h, "stage")
        /\ UNCHANGED <<req, saved, old>>
     \/ /\ "write" \in Faults
        /\ Return(h)
        /\ UNCHANGED journal
  /\ UNCHANGED <<env, fleet, tmp, plane, image, fresh, context>>

-----------------------------------------------------------------------------
(* _write_paired: both files or neither.                                   *)

StagedFleet(k, v) ==
  IF k \in Paired /\ custody = "direct" THEN [fleet EXCEPT ![k] = v] ELSE tmp.fleet

Stage(h) ==
  /\ pc[h] = "stage"
  /\ old' = [old EXCEPT ![h] = [env |-> env, fleet |-> fleet]]
  /\ \/ /\ tmp' = [env |-> [env EXCEPT ![req[h].key] = req[h].value],
                   fleet |-> StagedFleet(req[h].key, req[h].value)]
        /\ GoTo(h, "putEnv")
     \/ /\ "write" \in Faults
        /\ tmp' = [tmp EXCEPT !.env = None]
        /\ GoTo(h, "fail")
  /\ UNCHANGED <<env, fleet, journal, plane, req, saved, image, fresh, context>>

(* After the last file of the write: the journalled restart, the mode's    *)
(* detached recreate, or the answer.                                       *)
Written(h) ==
  \/ /\ req[h].key \in Severing
     /\ GoTo(h, "recreate")
     /\ UNCHANGED <<req, saved, old, detached>>
  \/ /\ req[h].key \notin Severing
     /\ Return(h)
     /\ \/ /\ req[h].key \in Mode
           /\ detached' = detached \cup {TransportOf(env')}
        \/ /\ req[h].key \notin Mode \/ "recreate" \in Faults
           /\ UNCHANGED detached

(* os.replace of `.env.config'.  It fails when another write has moved the *)
(* staged file from under this one.                                        *)
PutEnv(h) ==
  /\ pc[h] = "putEnv"
  /\ \/ /\ tmp.env # None
        /\ env' = tmp.env
        /\ tmp' = [tmp EXCEPT !.env = None]
        /\ IF TouchesFleet(req[h].key)
             THEN GoTo(h, "putFleet") /\ UNCHANGED <<req, saved, old, detached>>
             ELSE Written(h)
     \/ /\ tmp.env = None \/ "write" \in Faults
        /\ GoTo(h, "fail")
        /\ UNCHANGED <<env, tmp, req, saved, old, detached>>
  /\ UNCHANGED <<fleet, journal, running, bridge, image, fresh, context>>

(* os.replace of a fleet file the agent owns.                              *)
PutFleet(h) ==
  /\ pc[h] = "putFleet"
  /\ custody = "direct"
  /\ \/ /\ tmp.fleet # None
        /\ fleet' = tmp.fleet
        /\ tmp' = [tmp EXCEPT !.fleet = None]
        /\ GoTo(h, "recreate")
     \/ /\ tmp.fleet = None \/ "write" \in Faults
        /\ GoTo(h, "rollback")
        /\ UNCHANGED <<fleet, tmp>>
  /\ UNCHANGED <<env, journal, plane, req, saved, old, image, fresh, context>>

(* _fleet_write: one line of root's file through the sudo writer.          *)
FleetWrite(h) ==
  /\ pc[h] = "putFleet"
  /\ custody = "delegated"
  /\ \/ /\ fleet' = [fleet EXCEPT ![req[h].key] = req[h].value]
        /\ \/ GoTo(h, "recreate")
           \/ "late" \in Faults /\ GoTo(h, "rollback")
     \/ /\ "denied" \in Faults
        /\ GoTo(h, "rollback")
        /\ UNCHANGED fleet
  /\ UNCHANGED <<env, journal, tmp, plane, req, saved, old, image, fresh, context>>

(* Mutant: the file already replaced is not put back.                      *)
RollbackNothing(h) ==
  /\ pc[h] = "rollback"
  /\ GoTo(h, "fail")
  /\ UNCHANGED <<files, plane, req, saved, old, image, fresh, context>>

(* Put back what was already replaced; writing it back can fail too.       *)
Rollback(h) ==
  /\ pc[h] = "rollback"
  /\ \/ /\ env' = old[h].env
        /\ GoTo(h, "fail")
     \/ /\ "disk" \in Faults
        /\ GoTo(h, "raise")
        /\ UNCHANGED env
  /\ UNCHANGED <<fleet, journal, tmp, plane, req, saved, old, image, fresh, context>>

(* Mutant: a failed write leaves its journal open.                         *)
FailOpen(h) ==
  /\ pc[h] = "fail"
  /\ Return(h)
  /\ UNCHANGED <<files, plane, image, fresh, context>>

(* AdapterError: a severing write closes its journal and the call raises.  *)
(* An OSError is not caught there: it escapes past the journal.            *)
Fail(h) ==
  /\ \/ /\ pc[h] = "fail"
        /\ IF req[h].key \in Severing THEN CloseJournal ELSE UNCHANGED journal
     \/ /\ pc[h] = "raise"
        /\ UNCHANGED journal
  /\ Return(h)
  /\ UNCHANGED <<env, fleet, tmp, plane, image, fresh, context>>

-----------------------------------------------------------------------------
(* _restart_data_plane, on the way forward and on the way back.            *)

StartRecreate(t) ==
  /\ \/ pc[t] = "recreate" /\ GoTo(t, "recreating")
     \/ pc[t] = "undoRecreate" /\ GoTo(t, "undoRecreating")
  /\ image' = [image EXCEPT ![t] = TransportOf(env)]
  /\ UNCHANGED <<files, plane, req, saved, old, fresh, context>>

(* Mutant: the recreate is spawned and not waited for, like an `up'.       *)
EndRecreateDetached(t) ==
  /\ \/ pc[t] = "recreating" /\ GoTo(t, "bridge")
     \/ pc[t] = "undoRecreating" /\ GoTo(t, "undoBridge")
  /\ detached' = detached \cup {image[t]}
  /\ image' = [image EXCEPT ![t] = None]
  /\ UNCHANGED <<files, running, bridge, req, saved, old, fresh, context>>

(* Mutant: what the containers start with is dropped before it is used.    *)
EndRecreateEmpty(t) ==
  /\ \/ pc[t] = "recreating" /\ GoTo(t, "bridge")
     \/ pc[t] = "undoRecreating" /\ GoTo(t, "undoBridge")
  /\ image' = [image EXCEPT ![t] = None]
  /\ running' = image'[t]
  /\ UNCHANGED <<files, bridge, detached, req, saved, old, fresh, context>>

(* The exit code is not read and a timeout is swallowed: whatever compose  *)
(* did, the bridge is restarted next.                                      *)
EndRecreate(t) ==
  /\ \/ pc[t] = "recreating" /\ GoTo(t, "bridge")
     \/ pc[t] = "undoRecreating" /\ GoTo(t, "undoBridge")
  /\ \/ running' = image[t]
     \/ "recreate" \in Faults /\ running' \in {running, Down}
  /\ image' = [image EXCEPT ![t] = None]
  /\ UNCHANGED <<files, bridge, detached, req, saved, old, fresh, context>>

(* Mutant: a sample from before the restart still counts.                  *)
RestartBridgeStale(t) ==
  /\ \/ pc[t] = "bridge" /\ GoTo(t, "verify")
     \/ pc[t] = "undoBridge" /\ GoTo(t, "close")
  /\ bridge' = fleet
  /\ UNCHANGED <<files, running, detached, req, saved, old, image, fresh, context>>

(* The bridge takes the fleet file; forward, the window opens at once: only*)
(* telemetry from here on counts.                                          *)
RestartBridge(t) ==
  /\ \/ /\ pc[t] = "bridge"
        /\ GoTo(t, "verify")
        /\ fresh' = [fresh EXCEPT ![t] = FALSE]
     \/ /\ pc[t] = "undoBridge"
        /\ GoTo(t, "close")
        /\ UNCHANGED fresh
  /\ \/ bridge' = fleet
     \/ "bridge" \in Faults /\ UNCHANGED bridge
  /\ UNCHANGED <<files, running, detached, req, saved, old, image, context>>

-----------------------------------------------------------------------------
(* The window, and what it decides.                                        *)

TelemetryReturns(h) ==
  /\ pc[h] = "verify"
  /\ fresh[h]
  /\ GoTo(h, "keep")
  /\ UNCHANGED <<files, plane, req, saved, old, image, fresh, context>>

(* Mutant: the wait for telemetry has no deadline.                         *)
WindowStaysOpen(h) == FALSE

(* Mutant: a change that was not verified restarts the plane, files as is. *)
WindowClosesForward(h) ==
  /\ pc[h] = "verify"
  /\ ~fresh[h]
  /\ GoTo(h, "undoRecreate")
  /\ UNCHANGED <<files, plane, req, saved, old, image, fresh, context>>

(* The window ends with nothing seen: telemetry is dead, or only slow.     *)
WindowCloses(h) ==
  /\ pc[h] = "verify"
  /\ ~fresh[h]
  /\ GoTo(h, "undoEnv")
  /\ UNCHANGED <<files, plane, req, saved, old, image, fresh, context>>

(* The change is verified: the journal is closed and the call answers.     *)
KeepChange(h) ==
  /\ pc[h] = "keep"
  /\ CloseJournal
  /\ vouched' = [env |-> TransportOf(env), fleet |-> fleet]
  /\ Return(h)
  /\ UNCHANGED <<env, fleet, tmp, plane, image, fresh, custody, crashes>>

-----------------------------------------------------------------------------
(* Undoing: a revert, a rollback a client asked for, or the one a starting *)
(* agent inherits.                                                         *)

ReadJournal(t) ==
  /\ pc[t] = "read"
  /\ \/ /\ journal = None
        /\ Return(t)
     \/ /\ journal # None
        /\ saved' = [saved EXCEPT ![t] = journal]
        /\ GoTo(t, "undoEnv")
        /\ UNCHANGED <<req, old>>
  /\ UNCHANGED <<files, plane, image, fresh, context>>

(* Mutant: the fleet file is never put back.                               *)
UndoEnvOnly(t) ==
  /\ pc[t] = "undoEnv"
  /\ env' = saved[t].env
  /\ GoTo(t, "undoRecreate")
  /\ UNCHANGED <<fleet, journal, tmp, plane, req, saved, old, image, fresh, context>>

(* _restore_files: a file that cannot be put back is passed over.          *)
UndoEnv(t) ==
  /\ pc[t] = "undoEnv"
  /\ \/ env' = saved[t].env
     \/ "disk" \in Faults /\ UNCHANGED env
  /\ GoTo(t, IF TouchesFleet(saved[t].key) THEN "undoFleet" ELSE "undoRecreate")
  /\ UNCHANGED <<fleet, journal, tmp, plane, req, saved, old, image, fresh, context>>

(* Mutant: root's file is taken for one the agent cannot put back.         *)
RestoredDirectly(entry) ==
  IF custody = "direct" THEN entry.fleet ELSE fleet

(* Root's file is restored by the changed key alone, and only to a value   *)
(* the saved text holds.                                                   *)
RestoredFleet(entry) ==
  IF custody = "direct" THEN entry.fleet
  ELSE IF entry.fleet[entry.key] = Unset THEN fleet
  ELSE [fleet EXCEPT ![entry.key] = entry.fleet[entry.key]]

UndoFleet(t) ==
  /\ pc[t] = "undoFleet"
  /\ \/ fleet' = RestoredFleet(saved[t])
     \/ /\ IF custody = "direct" THEN "disk" \in Faults ELSE "denied" \in Faults
        /\ UNCHANGED fleet
  /\ GoTo(t, "undoRecreate")
  /\ UNCHANGED <<env, journal, tmp, plane, req, saved, old, image, fresh, context>>

(* The journal is dropped whatever was restored.                           *)
CloseChange(t) ==
  /\ pc[t] = "close"
  /\ CloseJournal
  /\ Return(t)
  /\ UNCHANGED <<env, fleet, tmp, plane, image, fresh, context>>

-----------------------------------------------------------------------------
(* Around the agent.                                                       *)

(* A sample of this robot's telemetry crosses the fabric.                  *)
Sample ==
  /\ Reaches
  /\ fresh' = [t \in Threads |-> t # Boot]
  /\ UNCHANGED <<files, plane, pc, req, saved, old, image, context>>

(* A compose run nobody waits for ends, at any time after it was spawned.  *)
DetachedEnds(target) ==
  /\ target \in detached
  /\ detached' = detached \ {target}
  /\ running' = target
  /\ UNCHANGED <<files, bridge, locals, context>>

(* The agent dies between two steps, and the compose run it waits for dies *)
(* with it.  The ones it detached live on or are ended with its unit.      *)
Crash ==
  /\ pc[Boot] # "off"
  /\ crashes < MaxCrashes
  /\ crashes' = crashes + 1
  /\ pc' = [t \in Threads |-> IF t = Boot THEN "off" ELSE "idle"]
  /\ req' = [t \in Threads |-> None]
  /\ saved' = [t \in Threads |-> None]
  /\ old' = [t \in Threads |-> None]
  /\ image' = [t \in Threads |-> None]
  /\ fresh' = [t \in Threads |-> FALSE]
  /\ detached' \in {detached, {}}
  /\ UNCHANGED <<files, running, bridge, custody, vouched>>

(* systemd starts the agent: it finishes an open change before it serves.  *)
Start ==
  /\ pc[Boot] = "off"
  /\ GoTo(Boot, "read")
  /\ UNCHANGED <<files, plane, req, saved, old, image, fresh, context>>

-----------------------------------------------------------------------------
(* The steps of a call in flight, or of the start-up rollback.             *)
Step(t) ==
  \/ CheckJournal(t) \/ OpenJournal(t)
  \/ Stage(t) \/ PutEnv(t) \/ PutFleet(t) \/ FleetWrite(t)
  \/ Rollback(t) \/ Fail(t)
  \/ StartRecreate(t) \/ EndRecreate(t) \/ RestartBridge(t)
  \/ TelemetryReturns(t) \/ WindowCloses(t) \/ KeepChange(t)
  \/ ReadJournal(t) \/ UndoEnv(t) \/ UndoFleet(t) \/ CloseChange(t)

Call(h) ==
  \/ \E k \in Keys, v \in Values : ConfigWrite(h, k, v)
  \/ ConfigRollback(h)
  \/ \E target \in Transport \cup {Down} : Detach(h, target)

Next ==
  \/ \E h \in Handlers : Call(h)
  \/ \E t \in Threads : Step(t)
  \/ \E target \in detached : DetachedEnds(target)
  \/ Sample
  \/ Crash
  \/ Start

Spec == Init /\ [][Next]_vars

(* Every wait in a call has a deadline, compose runs end, and systemd      *)
(* restarts the agent (Restart=always).                                    *)
Fairness ==
  /\ \A t \in Threads : WF_vars(Step(t))
  /\ WF_vars(Start)

FairSpec == Spec /\ Fairness
-----------------------------------------------------------------------------
(* Properties.                                                             *)

OnDisk == [env |-> TransportOf(env), fleet |-> fleet]

(* What is on disk once the change this entry records has been undone.     *)
AfterUndo(entry) ==
  [env |-> TransportOf(entry.env),
   fleet |-> IF TouchesFleet(entry.key) THEN RestoredFleet(entry) ELSE fleet]

Quiet == \A t \in Threads : pc[t] = "idle"

(* Every variable stays in its type.                                       *)
TypeOK ==
  /\ env \in FileText
  /\ fleet \in FleetText
  /\ journal \in Entry \cup {None}
  /\ tmp \in [env : FileText \cup {None}, fleet : FleetText \cup {None}]
  /\ running \in Transport \cup {Down}
  /\ bridge \in FleetText
  /\ detached \subseteq Transport \cup {Down}
  /\ pc \in [Threads -> Steps]
  /\ req \in [Threads -> Request \cup {None}]
  /\ saved \in [Threads -> Entry \cup {None}]
  /\ old \in [Threads -> Texts \cup {None}]
  /\ image \in [Threads -> Transport \cup {None}]
  /\ fresh \in [Threads -> BOOLEAN]
  /\ custody \in Custody
  /\ crashes \in Nat
  /\ vouched \in [env : Transport, fleet : FleetText]

(* Whatever happens to the agent, the transport its telemetry last vouched *)
(* for is on disk, or the open journal brings it back (the journal is      *)
(* opened before anything is written, and closed only on a verified change *)
(* or a restored one).                                                     *)
Recoverable ==
  /\ journal = None => OnDisk = vouched
  /\ journal # None => AfterUndo(journal) = vouched

(* A change that is answered as verified is the transport the containers   *)
(* run: the window watched the new configuration, not the old one.         *)
VerifiedIsApplied ==
  \A h \in Handlers : pc[h] = "keep" => running = TransportOf(env)

(* With no call in flight and no change open, telemetry reaches the fabric:*)
(* a change that killed it has been undone and the plane restarted.        *)
QuietReaches == Quiet /\ journal = None => Reaches

(* A caller told that a write could not be made, by an AdapterError or by  *)
(* the OSError of a rollback that failed, can trust nothing moved: both    *)
(* files hold what _write_paired found in them.                            *)
ErrorMeansNothingMoved ==
  \A h \in Handlers :
    pc[h] \in {"fail", "raise"} => env = old[h].env /\ fleet = old[h].fleet

(* A revert leaves both files at what was there before: never half of it.  *)
RevertRestoresPair ==
  \A h \in Handlers :
    pc[h] = "close" => OnDisk = [env |-> TransportOf(saved[h].env),
                                 fleet |-> saved[h].fleet]

(* An open change does not stay open: it is kept, or undone by its call,   *)
(* by a client or by the agent that starts next.                           *)
JournalResolves == journal # None ~> journal = None

(* A severing write is always answered, whatever the restart does.         *)
WriteAnswered ==
  \A h \in Handlers : pc[h] = "check" ~> pc[h] = "idle"

(* The guard implements its abstract specification.                        *)
Guard == INSTANCE ConfigGuard
           WITH Configs <- [env : Transport, fleet : FleetText],
                disk    <- OnDisk,
                good    <- vouched,
                pending <- journal # None

GuardSpec == Guard!Spec

-----------------------------------------------------------------------------
(* The inductive invariants the proofs use.                                *)

(* Where a step needs what its thread was asked or has saved.              *)
Control(t) ==
  /\ pc[t] \in {"check", "open", "stage", "putEnv", "putFleet", "rollback", "fail"}
       => req[t] # None
  /\ pc[t] \in {"check", "open"} => req[t].key \in Severing
  /\ pc[t] = "putFleet" => req[t].key \in Paired
  /\ pc[t] \in {"stage", "putEnv", "putFleet"} /\ req[t].key \in Severing
       => saved[t] # None
  /\ pc[t] \in {"open", "recreate", "recreating", "bridge", "verify", "undoEnv",
                "undoFleet", "undoRecreate"}
       => saved[t] # None
  /\ pc[t] = "undoFleet" => saved[t].key \in Paired
  /\ pc[t] \in {"putEnv", "putFleet", "rollback"} => old[t] # None
  /\ pc[t] \in {"recreating", "undoRecreating"} => image[t] # None

TypeInv == TypeOK /\ \A t \in Threads : Control(t)

(* With calls served one at a time, at most one thread is doing anything.  *)
Exclusive ==
  \A s, t \in Threads : pc[s] # "idle" /\ pc[t] # "idle" => s = t

(* A fleet file holds every alias; so does what would be put back into it. *)
Full(text) == custody = "absent" \/ \A k \in Paired : text[k] # Unset

AliasesHeld == Full(fleet) /\ (journal # None => Full(journal.fleet))

(* An open change has moved no alias of the fleet file but its own.        *)
OnlyItsAlias ==
  journal # None =>
    \A k \in Paired :
      ~TouchesFleet(journal.key) \/ k # journal.key => fleet[k] = journal.fleet[k]

Forward == {"stage", "putEnv", "putFleet", "rollback", "fail"}
Applied == {"recreate", "recreating", "bridge", "verify", "keep"}
Undoing == {"undoEnv", "undoFleet", "undoRecreate", "undoRecreating",
            "undoBridge", "close"}

(* How far a thread has got with the one change that can be open.          *)
Progress(t) ==
  /\ pc[t] = "open" =>
       /\ journal = None
       /\ saved[t] = [key |-> req[t].key, env |-> env, fleet |-> fleet]
  /\ pc[t] \in Forward /\ req[t].key \in Severing =>
       /\ journal # None
       /\ saved[t] = journal
       /\ journal.key = req[t].key
       /\ fleet = vouched.fleet
       /\ pc[t] \in {"stage", "putEnv", "fail"} => TransportOf(env) = vouched.env
       /\ pc[t] \in {"putEnv", "putFleet", "rollback"}
            => TransportOf(old[t].env) = vouched.env
  /\ pc[t] \in {"putEnv", "putFleet"} /\ TouchesFleet(req[t].key)
       /\ custody = "direct" =>
       tmp.fleet = [fleet EXCEPT ![req[t].key] = req[t].value]
  /\ pc[t] = "putEnv" => tmp.env = [env EXCEPT ![req[t].key] = req[t].value]
  /\ pc[t] \in {"putFleet", "rollback"} => TouchesFleet(req[t].key)
  /\ pc[t] \in Applied \cup Undoing => journal # None /\ saved[t] = journal
  /\ pc[t] \in Undoing \ {"undoEnv"} => TransportOf(env) = vouched.env
  /\ pc[t] = "undoFleet" => TouchesFleet(saved[t].key)
  /\ pc[t] \in Undoing \ {"undoEnv", "undoFleet"} => fleet = vouched.fleet

IInv ==
  /\ TypeInv
  /\ Exclusive
  /\ AliasesHeld
  /\ OnlyItsAlias
  /\ Recoverable
  /\ \A t \in Threads : Progress(t)
=============================================================================
