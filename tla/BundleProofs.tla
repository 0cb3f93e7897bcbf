---------------------------- MODULE BundleProofs ----------------------------
(***************************************************************************)
(* For any number of calls and any values: a calibration that was answered *)
(* stays stored, through overlapping calls, failures and power losses; and *)
(* a stage replaces every managed entry or none.                           *)
(***************************************************************************)
EXTENDS Bundle, TLAPS

-----------------------------------------------------------------------------
(* The calibration store.                                                  *)

LEMMA CalibrationStarts == CalibrationInit => CalibrationInv
  BY CalibrationAssumption DEF CalibrationInit, CalibrationInv, CalibrationTypeOK,
     AnsweredIsStored, Entry, Absent, Ruined, Fields, WriteSteps

(* What ends a call leaves the invariant of every other.                   *)
LEMMA CalibrationSteps ==
  ASSUME CalibrationInv, CalibrationNext \/ PowerLoss \/ UNCHANGED calibration
  PROVE  CalibrationInv'
<1> USE CalibrationAssumption
<1>0. dir' \in {"none", "made", "kept"}
  <2>1. CASE UNCHANGED dir
    BY <2>1 DEF CalibrationInv, CalibrationTypeOK
  <2>2. CASE dir' \in {"none", "made", "kept"}
    BY <2>2
  <2>3. Made \in {"none", "made", "kept"}
    BY DEF Made, CalibrationInv, CalibrationTypeOK
  <2>4. UNCHANGED dir \/ dir' \in {"none", "made", "kept"}
    BY <2>3 DEF CalibrationNext, Write, PowerLoss, Set, Load, Refused, Fsync, UnlinkPrevious,
       LinkPrevious, Replace, SyncDir, Raises, Flush, AgentDies, calibration,
       CalibrationInv, CalibrationTypeOK
  <2> QED BY <2>1, <2>2, <2>4
<1> USE DEF CalibrationInv, CalibrationTypeOK, AnsweredIsStored, WriteSteps, To
<1>1. ASSUME NEW w \in Writers, Set(w) PROVE CalibrationInv'
  BY <1>1 DEF Set, Entry, Absent, Merged
<1>2. ASSUME NEW w \in Writers, Load(w) PROVE CalibrationInv'
  <2>1. step[w] = "load" /\ lock = None
    BY <1>2 DEF Load
  <2>2. CASE Refused(w)
    BY <1>0, <2>1, <2>2 DEF Refused, Ended, Entry, Absent, Merged
  <2>3. CASE ~Refused(w)
    <3>1. /\ lock' = w
          /\ entry' = [entry EXCEPT ![w] = Merged(w)]
          /\ step' = [step EXCEPT ![w] = "write"]
          /\ UNCHANGED <<file, prev, durable, asked, synced, allowed>>
      BY <1>2, <2>3 DEF Load
    <3>2. Merged(w) \in Entry
      BY DEF Merged, Entry
    <3>3. CalibrationTypeOK'
      BY <1>0, <3>1, <3>2
    <3>4. \A u \in Writers \ {w} : step[u] \in {"idle", "load"}
      BY <2>1
    <3> QED BY <2>1, <3>1, <3>3, <3>4 DEF Merged
  <2> QED BY <2>2, <2>3
<1>3. ASSUME NEW w \in Writers, Fsync(w) PROVE CalibrationInv'
  BY <1>0, <1>3 DEF Fsync, Continues, Merged
<1>4. ASSUME NEW w \in Writers, UnlinkPrevious(w) PROVE CalibrationInv'
  BY <1>4 DEF UnlinkPrevious, Continues, Merged, Entry, Absent
<1>5. ASSUME NEW w \in Writers, LinkPrevious(w) PROVE CalibrationInv'
  BY <1>5 DEF LinkPrevious, Continues, Merged
<1>6. ASSUME NEW w \in Writers, Replace(w) PROVE CalibrationInv'
  <2>1. /\ step[w] = "replace" /\ lock = w
        /\ step' = [step EXCEPT ![w] = "syncDir"]
        /\ file' = entry[w]
        /\ UNCHANGED <<prev, durable, lock, asked, entry, synced, allowed>>
    BY <1>6 DEF Replace, Continues
  <2>2. \A f \in Fields : file'[f] = IF asked[w][f] = None THEN file[f] ELSE asked[w][f]
    BY <2>1 DEF Merged
  <2>3. AnsweredIsStored'
    BY <2>1, <2>2
  <2>4. Merged(w)' = entry[w]
    <3>1. \A f \in Fields : Merged(w)'[f] = entry[w][f]
      BY <2>1, <2>2 DEF Merged
    <3>2. entry[w] \in Entry /\ Merged(w)' = [f \in Fields |-> Merged(w)'[f]]
      BY DEF Merged
    <3> QED BY <3>1, <3>2 DEF Entry
  <2>5. \A u \in Writers \ {w} : step[u] \in {"idle", "load"}
    BY <2>1
  <2>6. CalibrationTypeOK'
    BY <1>0, <2>1
  <2> QED BY <2>1, <2>3, <2>4, <2>5, <2>6
<1>7. ASSUME NEW w \in Writers, SyncDir(w) PROVE CalibrationInv'
  BY <1>7 DEF SyncDir, Ended, Answered, Pending, Merged, Entry, Absent
<1>8. ASSUME NEW w \in Writers, Raises(w) PROVE CalibrationInv'
  BY <1>0, <1>8 DEF Raises, Refused, Ended, Merged, Entry, Absent
<1>9. CASE Flush
  BY <1>9 DEF Flush, calls, Merged
<1>10. CASE AgentDies
  BY <1>10 DEF AgentDies, CallsDie, Entry, Absent
<1>11. CASE PowerLoss
  BY <1>11 DEF PowerLoss, CallsDie, Entry, Absent
<1>12. CASE UNCHANGED calibration
  BY <1>12 DEF calibration, Merged
<1> QED BY <1>1, <1>2, <1>3, <1>4, <1>5, <1>6, <1>7, <1>8, <1>9, <1>10, <1>11, <1>12
     DEF CalibrationNext, Write

-----------------------------------------------------------------------------
(* The stage.                                                              *)

LEMMA StageStarts == StageInit => StageInv
<1> SUFFICES ASSUME StageInit PROVE StageInv
  OBVIOUS
<1>1. bundle \in [Managed -> {"gone", "old"}]
  BY DEF StageInit
<1>2. at = "copy" /\ before = bundle /\ aside = {} /\ fresh = {} /\ placed = {}
      /\ upset = FALSE /\ outcome = "none"
  BY DEF StageInit
<1> QED BY <1>1, <1>2 DEF StageInv, StageTypeOK, OldIsKept, StageSteps

LEMMA StageStep ==
  ASSUME StageInv, StageNext \/ UNCHANGED staging
  PROVE  StageInv'
<1> New \subseteq Managed
  BY DEF Managed
<1> USE DEF StageInv, StageTypeOK, OldIsKept, StageSteps
<1>1. CASE Copy       BY <1>1 DEF Copy
<1>2. CASE SetAside
  <2>1. CASE Present = {} /\ at' = "place" /\ UNCHANGED <<bundle, aside>>
    BY <1>2, <2>1 DEF SetAside, Present
  <2>2. CASE ~(Present = {} /\ at' = "place" /\ UNCHANGED <<bundle, aside>>)
    <3>1. PICK n \in Managed :
            /\ bundle[n] # "gone"
            /\ bundle' = [bundle EXCEPT ![n] = "gone"]
            /\ aside' = aside \cup {n}
            /\ UNCHANGED at
      BY <1>2, <2>2 DEF SetAside, Present
    <3> QED BY <1>2, <3>1 DEF SetAside
  <2> QED BY <2>1, <2>2
<1>3. CASE Place
  <2>1. CASE fresh = {}
    BY <1>3, <2>1 DEF Place, Present, Staged
  <2>2. CASE fresh # {}
    <3>1. PICK n \in fresh :
            /\ bundle' = [bundle EXCEPT ![n] = "new"]
            /\ fresh' = fresh \ {n}
            /\ placed' = placed \cup {n}
            /\ UNCHANGED <<at, outcome>>
      BY <1>3, <2>2 DEF Place
    <3>2. Present' = Present \cup {n}
      BY <3>1 DEF Present
    <3>3. n \in New /\ n \notin placed /\ bundle[n] = "gone"
      BY <1>3, <3>1 DEF Place, Present
    <3>4. /\ at = "place" /\ at' = "place" /\ outcome = "none" /\ outcome' = "none"
          /\ ~upset /\ UNCHANGED <<before, aside, upset>>
      BY <1>3, <3>1 DEF Place
    <3>5. StageTypeOK'
      BY <3>1, <3>3, <3>4
    <3>6. fresh' = New \ placed' /\ Present' = placed'
      BY <3>1, <3>2, <3>3, <3>4
    <3>7. OldIsKept'
      BY <3>1, <3>3, <3>4
    <3> QED BY <3>1, <3>3, <3>4, <3>5, <3>6, <3>7
  <2> QED BY <2>1, <2>2
<1>4. CASE MoveFails  BY <1>4 DEF MoveFails
<1>5. CASE Unplace
  <2>1. CASE placed = {}
    BY <1>5, <2>1 DEF Unplace
  <2>2. CASE placed # {}
    <3>1. PICK n \in placed :
            /\ bundle' = [bundle EXCEPT ![n] = "gone"]
            /\ placed' = placed \ {n}
            /\ UNCHANGED at
      BY <1>5, <2>2 DEF Unplace
    <3> QED BY <1>5, <3>1 DEF Unplace
  <2> QED BY <2>1, <2>2
<1>6. CASE PutBack
  <2>1. CASE aside = {}
    BY <1>6, <2>1 DEF PutBack
  <2>2. CASE aside # {}
    <3>1. PICK n \in aside :
            /\ bundle' = [bundle EXCEPT ![n] = "old"]
            /\ aside' = aside \ {n}
            /\ UNCHANGED at
      BY <1>6, <2>2 DEF PutBack
    <3> QED BY <1>6, <3>1 DEF PutBack
  <2> QED BY <2>1, <2>2
<1>7. CASE Abandon    BY <1>7 DEF Abandon
<1>8. CASE Clean
  <2>1. CASE upset
    BY <1>8, <2>1 DEF Clean
  <2>2. CASE ~upset
    BY <1>8, <2>2 DEF Clean
  <2> QED BY <2>1, <2>2
<1>9. CASE Killed     BY <1>9 DEF Killed
<1>10. CASE UNCHANGED staging  BY <1>10 DEF staging, Present
<1> QED BY <1>1, <1>2, <1>3, <1>4, <1>5, <1>6, <1>7, <1>8, <1>9, <1>10 DEF StageNext

-----------------------------------------------------------------------------
LEMMA BundleSteps ==
  CalibrationInv /\ StageInv /\ [BundleNext]_<<calibration, staging>>
    => CalibrationInv' /\ StageInv'
  BY CalibrationSteps, StageStep DEF BundleNext, StageNext

(* What a call was told is stored is stored.                               *)
THEOREM CalibrationKept == Spec => []AnsweredIsStored
<1>1. CalibrationInv => AnsweredIsStored
  BY DEF CalibrationInv
<1>2. BundleInit => CalibrationInv /\ StageInv
  BY CalibrationStarts, StageStarts DEF BundleInit
<1> QED BY <1>1, <1>2, BundleSteps, PTL DEF Spec

(* The store's invariant, for any number of overlapping calls.             *)
THEOREM CalibrationHolds == Spec => []CalibrationInv
<1>1. BundleInit => CalibrationInv /\ StageInv
  BY CalibrationStarts, StageStarts DEF BundleInit
<1> QED BY <1>1, BundleSteps, PTL DEF Spec

(* What both invariants say holds of every behaviour of the directory.     *)
THEOREM BundleHolds == Spec => []BundleInv
<1>1. BundleInit => BundleInv
  BY CalibrationStarts, StageStarts DEF BundleInit, BundleInv
<1>2. BundleInv /\ [BundleNext]_<<calibration, staging>> => BundleInv'
  BY BundleSteps DEF BundleInv
<1> QED BY <1>1, <1>2, PTL DEF Spec

(* The file a write replaces is the one it has kept.                       *)
THEOREM PreviousKept == Spec => PreviousIsKept
<1>1. CalibrationInv /\ [BundleNext]_<<calibration, staging>> =>
        [\A w \in Writers : Replace(w) /\ file # Absent => prev = file]_calibration
  BY DEF CalibrationInv, Replace, Continues
<1> QED BY <1>1, CalibrationHolds, PTL DEF Spec, PreviousIsKept

(* A stage that was not upset is all or nothing.                           *)
THEOREM StageIsAtomic == Spec => []NeverHalfStaged
<1>1. StageInv => NeverHalfStaged
  <2> SUFFICES ASSUME StageInv, at = "over", ~upset PROVE NeverHalfStaged
    BY DEF NeverHalfStaged
  <2>1. CASE outcome = "staged"
    <3>1. bundle \in [Managed -> {"gone", "old", "new"}] /\ \A n \in Managed : bundle[n] = Staged[n]
      BY <2>1 DEF StageInv, StageTypeOK
    <3>2. bundle = Staged
      BY <3>1 DEF Staged
    <3> QED BY <2>1, <3>2 DEF NeverHalfStaged
  <2>2. CASE outcome = "error"
    <3>1. /\ bundle \in [Managed -> {"gone", "old", "new"}]
          /\ before \in [Managed -> {"gone", "old"}]
          /\ \A n \in Managed : bundle[n] = before[n]
      BY <2>2 DEF StageInv, StageTypeOK
    <3>2. bundle = before
      BY <3>1
    <3> QED BY <2>2, <3>2 DEF NeverHalfStaged
  <2> QED BY <2>1, <2>2 DEF StageInv, StageTypeOK
<1>2. BundleInit => CalibrationInv /\ StageInv
  BY CalibrationStarts, StageStarts DEF BundleInit
<1> QED BY <1>1, <1>2, BundleSteps, PTL DEF Spec

(* An old entry is never lost before its replacement is complete.          *)
THEOREM OldKept == Spec => []OldIsKept
<1>1. StageInv => OldIsKept
  BY DEF StageInv
<1>2. BundleInit => CalibrationInv /\ StageInv
  BY CalibrationStarts, StageStarts DEF BundleInit
<1> QED BY <1>1, <1>2, BundleSteps, PTL DEF Spec
=============================================================================
