---------------------------- MODULE Calibration ----------------------------
(***************************************************************************)
(* calibration.py: one camera's file beside the description bundle, read,  *)
(* merged and replaced by overlapping calls, on a disk that keeps a change *)
(* only once it was synced.                                                *)
(***************************************************************************)
EXTENDS Naturals

CONSTANTS
  Writers,        \* calls of `calibration set' in progress at the same time
  Values,         \* bound: what a lens or a mount can be set to
  None,           \* absent
  Torn            \* what is left of contents that never reached the disk

ASSUME CalibrationAssumption ==
  None # Torn /\ {None, Torn} \cap Values = {} /\ None \notin Writers

VARIABLES
  file,           \* the camera's file
  prev,           \* the file the last write replaced
  durable,        \* what the disk has of both
  dir,            \* their directory: not there, made, or on the disk itself
  lock,           \* the call that holds CalibrationStore._lock
  step,           \* where each call is
  asked,          \* the fields each call sets, and None for the other
  entry,          \* what each call is to store, once it has read the file
  synced,         \* the calls whose temporary file has reached the disk
  allowed         \* history: what a field may be, by what was answered

calibration == <<file, prev, durable, dir, lock, step, asked, entry, synced, allowed>>
calls       == <<step, asked, entry, synced>>

Fields == {"lens", "mount"}
Entry  == [Fields -> Values \cup {None, Torn}]
Absent == [f \in Fields |-> None]
Ruined == [f \in Fields |-> Torn]

WriteSteps == {"idle", "load", "write", "unlink", "link", "replace", "syncDir"}

-----------------------------------------------------------------------------
(* Helpers.                                                                *)

To(w, next) == step' = [step EXCEPT ![w] = next]

(* The file's fields, and in their place those the call sets.              *)
Merged(w) == [f \in Fields |-> IF asked[w][f] = None THEN file[f] ELSE asked[w][f]]

(* A call ends, without its temporary file and without the lock.           *)
Ended(w) ==
  /\ To(w, "idle")
  /\ lock' = (IF lock = w THEN None ELSE lock)
  /\ asked' = [asked EXCEPT ![w] = Absent]
  /\ entry' = [entry EXCEPT ![w] = Absent]
  /\ synced' = synced \ {w}

(* An OSError, or what a call finds before it has written, is its answer.  *)
Refused(w) == Ended(w) /\ UNCHANGED <<file, prev, durable, allowed>>

(* mkdir, which leaves a directory that is there alone.                    *)
Made == IF dir = "none" THEN "made" ELSE dir

(* What the other calls, those in progress, may yet store in a field.      *)
Pending(w, f) == {asked[u][f] : u \in {v \in Writers \ {w} : step[v] # "idle"}} \ {None}

(* The field is what w stored, or what a call in progress is to store.     *)
Answered(w) ==
  allowed' = [f \in Fields |-> IF asked[w][f] = None THEN allowed[f]
                                 ELSE {asked[w][f]} \cup Pending(w, f)]

-----------------------------------------------------------------------------
(* No directory, no file, one that checks out, or one that does not.       *)
CalibrationInit ==
  /\ dir \in {"none", "kept"}
  /\ file \in {Absent} \cup (IF dir = "none" THEN {} ELSE {Ruined} \cup [Fields -> Values])
  /\ prev = Absent
  /\ durable = [file |-> file, prev |-> prev]
  /\ lock = None
  /\ step = [w \in Writers |-> "idle"]
  /\ asked = [w \in Writers |-> Absent]
  /\ entry = [w \in Writers |-> Absent]
  /\ synced = {}
  /\ allowed = [f \in Fields |-> {file[f]}]

-----------------------------------------------------------------------------
(* CalibrationStore.write and _replace.                                    *)

(* A call that names no camera, no field or a wrong one, or finds the robot*)
(* not armed, is refused before it takes the lock, and changes nothing.    *)
Set(w) ==
  /\ step[w] = "idle"
  /\ \E fields \in [Fields -> Values \cup {None}] :
       /\ fields # Absent
       /\ asked' = [asked EXCEPT ![w] = fields]
       /\ allowed' = [f \in Fields |-> allowed[f] \cup ({fields[f]} \ {None})]
  /\ To(w, "load")
  /\ UNCHANGED <<file, prev, durable, dir, lock, entry, synced>>

(* Mutant: the file is read without waiting for the lock.                  *)
LoadUnlocked(w) ==
  /\ step[w] = "load"
  /\ file # Ruined
  /\ entry' = [entry EXCEPT ![w] = Merged(w)]
  /\ To(w, "write")
  /\ UNCHANGED <<file, prev, durable, dir, lock, asked, synced, allowed>>

(* A file that does not check out is left to a person.                     *)
Load(w) ==
  /\ step[w] = "load"
  /\ lock = None
  /\ IF file = Ruined
       THEN Refused(w) /\ UNCHANGED dir
       ELSE /\ lock' = w
            /\ entry' = [entry EXCEPT ![w] = Merged(w)]
            /\ To(w, "write")
            /\ UNCHANGED <<file, prev, durable, dir, asked, synced, allowed>>

(* A step of _replace, that an OSError may end instead.                    *)
Continues(w, from, next) ==
  /\ step[w] = from
  /\ To(w, next)
  /\ UNCHANGED <<lock, asked, entry, allowed>>

Raises(w) ==
  /\ step[w] \in {"write", "unlink", "link", "replace", "syncDir"}
  /\ dir' \in {dir} \cup (IF step[w] = "write" THEN {Made} ELSE {})
  /\ Refused(w)

(* Mutant: the temporary file is not synced.                               *)
FsyncNothing(w) ==
  /\ Continues(w, "write", IF file = Absent THEN "replace" ELSE "unlink")
  /\ dir' = Made
  /\ UNCHANGED <<file, prev, durable, synced>>

(* The directory is made if it is not there, and not synced itself.        *)
Fsync(w) ==
  /\ Continues(w, "write", IF file = Absent THEN "replace" ELSE "unlink")
  /\ synced' = synced \cup {w}
  /\ dir' = Made
  /\ UNCHANGED <<file, prev, durable>>

UnlinkPrevious(w) ==
  /\ Continues(w, "unlink", "link")
  /\ prev' = Absent
  /\ UNCHANGED <<file, durable, dir, synced>>

(* Mutant: the old file is not kept.                                       *)
LinkNothing(w) ==
  /\ Continues(w, "link", "replace")
  /\ UNCHANGED <<file, prev, durable, dir, synced>>

LinkPrevious(w) ==
  /\ Continues(w, "link", "replace")
  /\ prev' = file
  /\ UNCHANGED <<file, durable, dir, synced>>

Replace(w) ==
  /\ Continues(w, "replace", "syncDir")
  /\ file' = entry[w]
  /\ UNCHANGED <<prev, durable, dir, synced>>

(* What is in the directory has reached the disk: the call answers with its*)
(* entry.  The directory's own name is in its parent, which is not synced. *)
SyncDir(w) ==
  /\ step[w] = "syncDir"
  /\ durable' = [file |-> file, prev |-> prev]
  /\ Ended(w)
  /\ Answered(w)
  /\ UNCHANGED <<file, prev, dir>>

-----------------------------------------------------------------------------
(* Around the calls.                                                       *)

(* The system writes the directory out on its own.  Contents that were not *)
(* synced may be missing from a file whose name is on the disk.            *)
Flush ==
  /\ durable' \in [file : {file} \cup
                          (IF \E w \in Writers : step[w] = "syncDir" /\ w \notin synced
                             THEN {Ruined} ELSE {}),
                   prev : {prev}]
  /\ dir' \in {dir} \cup (IF dir = "made" THEN {"kept"} ELSE {})
  /\ UNCHANGED <<file, prev, lock, calls, allowed>>

CallsDie ==
  /\ lock' = None
  /\ step' = [w \in Writers |-> "idle"]
  /\ asked' = [w \in Writers |-> Absent]
  /\ entry' = [w \in Writers |-> Absent]
  /\ synced' = {}

AgentDies == CallsDie /\ UNCHANGED <<file, prev, durable, dir, allowed>>

(* A directory that is not on the disk takes along what is in it.          *)
PowerLoss ==
  /\ CallsDie
  /\ IF dir = "made"
     THEN /\ dir' = "none"
          /\ durable' = [file |-> Absent, prev |-> Absent]
          /\ allowed' = [f \in Fields |-> {None}]
     ELSE UNCHANGED <<dir, durable, allowed>>
  /\ file' = durable'.file
  /\ prev' = durable'.prev

-----------------------------------------------------------------------------
Write(w) ==
  \/ Load(w) \/ Fsync(w) \/ UnlinkPrevious(w)
  \/ LinkPrevious(w) \/ Replace(w) \/ SyncDir(w) \/ Raises(w)

CalibrationNext ==
  \/ \E w \in Writers : Set(w) \/ Write(w)
  \/ Flush \/ AgentDies

-----------------------------------------------------------------------------
(* Properties.                                                             *)

(* Every variable stays in its type.                                       *)
CalibrationTypeOK ==
  /\ file \in Entry /\ prev \in Entry
  /\ durable \in [file : Entry, prev : Entry] /\ dir \in {"none", "made", "kept"}
  /\ lock \in Writers \cup {None}
  /\ step \in [Writers -> WriteSteps]
  /\ asked \in [Writers -> Entry] /\ entry \in [Writers -> Entry]
  /\ synced \subseteq Writers
  /\ allowed \in [Fields -> SUBSET (Values \cup {None, Torn})]

(* Each field is what the last write of it that was answered stored, or    *)
(* what a write asked of it since and did not answer: no write loses the   *)
(* other's field, none is half of one and half of another file, and a power*)
(* loss takes back nothing that was answered.  The one exception is a power*)
(* loss that takes the directory itself, made by a write and never synced  *)
(* into its parent: no field is left then, and none is expected.           *)
AnsweredIsStored ==
  \A f \in Fields : file[f] \in allowed[f] /\ durable.file[f] \in allowed[f]

(* Nor does a power loss ever find an answered write in a directory that is*)
(* not on the disk.  It does: the write that made the directory.           *)
FirstIsDurable == dir = "made" => \A f \in Fields : None \in allowed[f]

(* A write that has put its entry in place keeps the file it replaced next *)
(* to it, so that a bad calibration is one rename from undone.             *)
PreviousIsKept ==
  [][\A w \in Writers : Replace(w) /\ file # Absent => prev = file]_calibration

-----------------------------------------------------------------------------
(* The inductive invariant the proofs use.                                 *)

(* Every variable stays in its type; the lock is held by the one call that *)
(* has read the file and not yet answered, whose contents are on the disk  *)
(* before their name is, and the old contents under the other name.        *)
CalibrationInv ==
  /\ CalibrationTypeOK
  /\ AnsweredIsStored
  /\ \A w \in Writers :
       /\ lock = w <=> step[w] \notin {"idle", "load"}
       /\ step[w] \in {"write", "unlink", "link", "replace"} => entry[w] = Merged(w)
       /\ step[w] \in {"unlink", "link", "replace", "syncDir"} => w \in synced
       /\ step[w] = "replace" => file = Absent \/ prev = file
       /\ step[w] = "syncDir" => file = entry[w] /\ entry[w] = Merged(w)
       /\ step[w] # "idle" => \A f \in Fields : asked[w][f] \in allowed[f] \cup {None}
=============================================================================
