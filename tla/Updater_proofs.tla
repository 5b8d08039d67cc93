---------------------------- MODULE Updater_proofs ----------------------------
(***************************************************************************)
(* The safety properties of Updater for any set of releases.               *)
(***************************************************************************)
EXTENDS Updater, TLAPS

(* What the check thread has found, and what the dialog relies on: no check
   runs while it is open. *)
CheckInv ==
  /\ upd_state = "RUNNING" <=> checker # "none"
  /\ found.result = "NEWER" => found.tag \in Release /\ found.tag > APP_VERSION
  /\ checker = "keep" => found.result = "NEWER"
  /\ checker = "finish" /\ found.result = "NEWER" => upd_json = found.tag
  /\ upd_state = "NEWER" => upd_json = upd_tag /\ upd_tag \in Release /\ upd_tag > APP_VERSION
  /\ ui = "dialog" => /\ upd_state = "IDLE" /\ upd_json = offered
                     /\ offered \in Release /\ offered > APP_VERSION

(* What each stage of the install thread has established; the JSON that it takes
   may be replaced, and is never given up. *)
InstInv ==
  /\ installer = "snapshot" => upd_json # NoRelease
  /\ installer \notin {"none", "snapshot"} => target # NoRelease
  /\ inst_state = "RUNNING" <=> installer # "none"
  /\ installer \in {"snapshot", "sums", "verify", "image"} => image = "none"
  /\ installer \in {"image", "compare", "open", "done"} => sums = "genuine"
  /\ installer = "open" => image = "genuine"
  /\ installer # "compare" => image \in {"none", "genuine"}
  /\ opened # "none" => /\ installer \in {"done", "none"}
                       /\ opened = "genuine" /\ sums = "genuine"

IInv == TypeOK /\ CheckInv /\ InstInv

(* The invariant holds at launch. *)
LEMMA InitInv == Init => IInv
  <1> SUFFICES ASSUME Init PROVE IInv
    OBVIOUS
  <1>1. Nothing \in [result : {"NEWER", "CURRENT", "FAILED"}, tag : Release \cup {NoRelease}]
    BY DEF Nothing
  <1>2. TypeOK
    BY <1>1 DEF Init, TypeOK
  <1>3. CheckInv /\ InstInv
    BY DEF Init, Nothing, CheckInv, InstInv
  <1> QED  BY <1>2, <1>3 DEF IInv

(* A step of the check's state keeps the install's half, and conversely. *)
LEMMA CheckStep ==
  ASSUME IInv, Launch \/ ManualCheck \/ PollCheck \/ CheckThread
  PROVE  IInv'
  <1>1. InstInv'
    BY UpdaterAssumption DEF IInv, InstInv, CheckInv, Launch, ManualCheck, PollCheck, CheckThread,
           Fetch, Keep, Finish, instVars
  <1>2. CASE Launch \/ ManualCheck
    <2>1. /\ UNCHANGED <<upd_tag, upd_json, found, instVars, offered>>
          /\ ui # "dialog" /\ ui' = "loop" /\ owed' \in {owed, TRUE}
      BY <1>2 DEF Launch, ManualCheck
    <2>2. \/ UNCHANGED <<upd_state, checker>>
          \/ upd_state' = "RUNNING" /\ checker' = "fetch"
          \/ upd_state # "RUNNING" /\ upd_state' \in {"IDLE", "FAILED"} /\ UNCHANGED checker
      BY <1>2 DEF Launch, ManualCheck, StartCheck
    <2>3. upd_silent' \in BOOLEAN
      BY <1>2 DEF IInv, TypeOK, Launch, ManualCheck, StartCheck
    <2>4. TypeOK'
      <3>1. owed' \in BOOLEAN
        BY <2>1 DEF IInv, TypeOK
      <3>2. /\ upd_state' \in {"IDLE", "RUNNING", "NEWER", "CURRENT", "FAILED"}
            /\ checker' \in {"none", "fetch", "keep", "finish"}
        BY <2>2 DEF IInv, TypeOK
      <3> QED  BY <2>1, <2>3, <3>1, <3>2 DEF IInv, TypeOK, instVars
    <2>5. CheckInv'
      BY <2>1, <2>2 DEF IInv, CheckInv
    <2> QED  BY <1>1, <2>4, <2>5 DEF IInv
  <1>3. CASE PollCheck
    BY <1>1, <1>3 DEF IInv, TypeOK, CheckInv, PollCheck, instVars
  <1>4. CASE Fetch
    BY <1>1, <1>4, UpdaterAssumption DEF IInv, TypeOK, CheckInv, Fetch, Nothing, instVars, uiVars
  <1>5. CASE Keep \/ Finish
    BY <1>1, <1>5 DEF IInv, TypeOK, CheckInv, Keep, Finish, instVars, uiVars
  <1> QED  BY <1>2, <1>3, <1>4, <1>5 DEF CheckThread

(* A step of the install keeps the invariant. *)
LEMMA InstallStep ==
  ASSUME IInv, Decline \/ Install \/ PollInstall \/ InstallThread
  PROVE  IInv'
  <1>1. CheckInv'
    BY DEF IInv, CheckInv, Decline, Install, PollInstall, InstallThread, Snapshot, FetchSums,
           Verify, FetchImage, Compare, Open, Report, checkVars, uiVars
  <1>2. CASE Decline \/ Install \/ PollInstall
    BY <1>1, <1>2, UpdaterAssumption
       DEF IInv, TypeOK, InstInv, CheckInv, Decline, Install, PollInstall, checkVars, instVars,
           uiVars
  <1>3. CASE Snapshot \/ FetchSums \/ Verify
    BY <1>1, <1>3 DEF IInv, TypeOK, InstInv, Snapshot, FetchSums, Verify, checkVars, uiVars
  <1>4. CASE FetchImage \/ Compare
    BY <1>1, <1>4 DEF IInv, TypeOK, InstInv, FetchImage, Compare, checkVars, uiVars
  <1>5. CASE Open \/ Report
    BY <1>1, <1>5 DEF IInv, TypeOK, InstInv, Open, Report, checkVars, uiVars
  <1> QED  BY <1>2, <1>3, <1>4, <1>5 DEF InstallThread

(* The invariant holds in every behaviour of the three threads. *)
LEMMA Inductive == Spec => []IInv
  <1>1. ASSUME IInv, UNCHANGED vars PROVE IInv'
    BY <1>1 DEF IInv, TypeOK, CheckInv, InstInv, vars, checkVars, instVars, uiVars
  <1>2. IInv /\ [Next]_vars => IInv'
    BY <1>1, CheckStep, InstallStep DEF Next
  <1> QED  BY InitInv, <1>2, PTL DEF Spec

(* The states of the threads and of the dialog stay in their types. *)
THEOREM TypeCorrect == Spec => []TypeOK
  <1>1. IInv => TypeOK
    BY DEF IInv
  <1> QED  BY <1>1, Inductive, PTL

(* The UI thread never starts a second check or install thread, and a RUNNING
   state always has a thread that will end it (update_check.c). *)
THEOREM OneThread == Spec => []OneThreadEach
  <1>1. IInv => OneThreadEach
    BY DEF IInv, CheckInv, InstInv, OneThreadEach
  <1> QED  BY <1>1, Inductive, PTL

(* The release on the screen is the release whose JSON is kept, and an install has
   the JSON of a newer one, whatever checks end in between (update_check.c). *)
THEOREM OffersKept == Spec => []OfferIsKept
  <1>1. IInv => OfferIsKept
    BY DEF IInv, CheckInv, InstInv, OfferIsKept
  <1> QED  BY <1>1, Inductive, PTL

(* Nothing is opened or left behind that the signed hashes do not name. *)
THEOREM VerifiedImagesOnly == Spec => []OnlyVerifiedImages
  <1>1. IInv => OnlyVerifiedImages
    BY DEF IInv, InstInv, OnlyVerifiedImages
  <1> QED  BY <1>1, Inductive, PTL
================================================================================
