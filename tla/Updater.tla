-------------------------------- MODULE Updater --------------------------------
(***************************************************************************)
(* Checking for a newer release and installing it: macos/update_check.c    *)
(* and the part of main()'s loop in main_sdl.c that starts and polls it.   *)
(*                                                                         *)
(* Three threads share upd_lock: the SDL main thread ("ui"), a detached    *)
(* thread per check and a detached thread per install.  Each critical      *)
(* section, each download and each verification is one action.             *)
(***************************************************************************)
EXTENDS Naturals

CONSTANTS
  Release,     (* releases GitHub may call the latest, as version numbers *)
  APP_VERSION, (* the version that is running *)
  NoRelease    (* upd_json = NULL, and an empty tag *)

ASSUME UpdaterAssumption ==
  /\ Release \subseteq Nat
  /\ APP_VERSION \in Nat
  /\ NoRelease \notin Release

VARIABLES
  upd_state,  (* UPD_IDLE, _RUNNING, _NEWER, _CURRENT or _FAILED *)
  upd_silent, (* only a newer release is to be reported *)
  upd_tag,    (* the release of the last result *)
  upd_json,   (* the release whose JSON is kept for installing *)
  inst_state, (* INST_IDLE, _RUNNING, _DONE or _FAILED *)
  checker,    (* the check thread: see TypeOK *)
  found,      (* its locals result and tag *)
  installer,  (* the install thread: see TypeOK *)
  target,     (* its snapshot of upd_json and upd_json_tag *)
  sums,       (* SHA256SUMS in its directory: "none", "genuine" or "damaged" *)
  image,      (* the .dmg in its directory: "none", "genuine" or "damaged" *)
  opened,     (* the installs have run /usr/bin/open on this .dmg *)
  ui,         (* "launch", "loop", or "dialog": a modal message box *)
  offered,    (* the release the dialog offers *)
  owed        (* a manual check has had no answer yet *)

checkVars == <<upd_state, upd_silent, upd_tag, upd_json, checker, found>>
instVars == <<inst_state, installer, target, sums, image, opened>>
uiVars == <<ui, offered, owed>>
vars == <<checkVars, instVars, uiVars>>

Nothing == [result |-> "FAILED", tag |-> NoRelease]

Init ==
  /\ upd_state = "IDLE" /\ upd_silent = FALSE
  /\ upd_tag = NoRelease /\ upd_json = NoRelease
  /\ checker = "none" /\ found = Nothing
  /\ inst_state = "IDLE" /\ installer = "none" /\ target = NoRelease
  /\ sums = "none" /\ image = "none" /\ opened = "none"
  /\ ui = "launch" /\ offered = NoRelease /\ owed = FALSE

--------------------------------------------------------------------------------
(* Mutant: a running check is not told that somebody now wants to know. *)
StartCheckStaysSilent(silent) ==
  IF upd_state = "RUNNING" THEN UNCHANGED <<upd_state, upd_silent, checker>>
  ELSE /\ upd_silent' = silent
       /\ \/ upd_state' = "RUNNING" /\ checker' = "fetch"
          \/ upd_state' = (IF silent THEN "IDLE" ELSE "FAILED") /\ UNCHANGED checker

(* update_check_start(silent): join a running check, or start a thread; a
   thread that cannot be created fails the check. *)
StartCheck(silent) ==
  IF upd_state = "RUNNING"
  THEN /\ upd_silent' = (upd_silent /\ silent)
       /\ UNCHANGED <<upd_state, checker>>
  ELSE /\ upd_silent' = silent
       /\ \/ upd_state' = "RUNNING" /\ checker' = "fetch"
          \/ upd_state' = (IF silent THEN "IDLE" ELSE "FAILED") /\ UNCHANGED checker

(* main() starts a silent check unless the preference or a test forbids it. *)
Launch ==
  /\ ui = "launch"
  /\ ui' = "loop"
  /\ StartCheck(TRUE) \/ UNCHANGED <<upd_state, upd_silent, checker>>
  /\ UNCHANGED <<upd_tag, upd_json, found, instVars, offered, owed>>

(* Cmd+U. *)
ManualCheck ==
  /\ ui = "loop"
  /\ StartCheck(FALSE)
  /\ owed' = TRUE
  /\ UNCHANGED <<upd_tag, upd_json, found, instVars, ui, offered>>

(* Mutant: the JSON of any release is kept. *)
FetchKeepsAny ==
  /\ checker = "fetch"
  /\ \/ found' = Nothing /\ checker' = "finish"
     \/ \E r \in Release :
          /\ found' = [result |-> IF r > APP_VERSION THEN "NEWER" ELSE "CURRENT", tag |-> r]
          /\ checker' = "keep"
  /\ UNCHANGED <<upd_state, upd_silent, upd_tag, upd_json, instVars, uiVars>>

(* upd_thread(): curl and the comparison of versions ... *)
Fetch ==
  /\ checker = "fetch"
  /\ \/ found' = Nothing /\ checker' = "finish"
     \/ \E r \in Release :
          /\ found' = [result |-> IF r > APP_VERSION THEN "NEWER" ELSE "CURRENT", tag |-> r]
          /\ checker' = IF r > APP_VERSION THEN "keep" ELSE "finish"
  /\ UNCHANGED <<upd_state, upd_silent, upd_tag, upd_json, instVars, uiVars>>

(* Mutant: JSON that is already kept is not replaced. *)
KeepFirst ==
  /\ checker = "keep"
  /\ upd_json' = IF upd_json = NoRelease THEN found.tag ELSE upd_json
  /\ checker' = "finish"
  /\ UNCHANGED <<upd_state, upd_silent, upd_tag, found, instVars, uiVars>>

(* ... the JSON of a newer release is kept for update_install_start() ... *)
Keep ==
  /\ checker = "keep"
  /\ upd_json' = found.tag
  /\ checker' = "finish"
  /\ UNCHANGED <<upd_state, upd_silent, upd_tag, found, instVars, uiVars>>

(* ... and the result is published, unless nobody wants it. *)
Finish ==
  /\ checker = "finish"
  /\ upd_state' = IF upd_silent /\ found.result # "NEWER" THEN "IDLE" ELSE found.result
  /\ upd_tag' = found.tag
  /\ checker' = "none"
  /\ UNCHANGED <<upd_silent, upd_json, found, instVars, uiVars>>

(* Mutant: every poll resets the state, also while a check runs. *)
PollCheckResets ==
  /\ ui = "loop"
  /\ upd_state' = "IDLE"
  /\ owed' = (owed /\ upd_state \notin {"NEWER", "CURRENT", "FAILED"})
  /\ IF upd_state = "NEWER" THEN ui' = "dialog" /\ offered' = upd_tag
                            ELSE UNCHANGED <<ui, offered>>
  /\ UNCHANGED <<upd_silent, upd_tag, upd_json, checker, found, instVars>>

(* update_check_poll() and the message box main() shows for its result. *)
PollCheck ==
  /\ ui = "loop"
  /\ upd_state \in {"NEWER", "CURRENT", "FAILED"}
  /\ upd_state' = "IDLE"
  /\ owed' = FALSE
  /\ IF upd_state = "NEWER" THEN ui' = "dialog" /\ offered' = upd_tag
                            ELSE UNCHANGED <<ui, offered>>
  /\ UNCHANGED <<upd_silent, upd_tag, upd_json, checker, found, instVars>>

(* "Later" or "Release Page". *)
Decline ==
  /\ ui = "dialog"
  /\ ui' = "loop"
  /\ UNCHANGED <<checkVars, instVars, offered, owed>>

(* "Install": update_install_start(), which ignores the click while an
   install runs.  Each install has a directory of its own (mkdtemp). *)
Install ==
  /\ ui = "dialog"
  /\ ui' = "loop"
  /\ IF inst_state = "RUNNING" THEN UNCHANGED instVars
     ELSE /\ \/ inst_state' = "RUNNING" /\ installer' = "snapshot"
             \/ inst_state' = "FAILED" /\ UNCHANGED installer
          /\ sums' = "none" /\ image' = "none" /\ opened' = "none"
          /\ UNCHANGED target
  /\ UNCHANGED <<checkVars, offered, owed>>

(* update_install_poll() and its message box. *)
PollInstall ==
  /\ ui = "loop"
  /\ inst_state \in {"DONE", "FAILED"}
  /\ inst_state' = "IDLE"
  /\ UNCHANGED <<checkVars, installer, target, sums, image, opened, uiVars>>

--------------------------------------------------------------------------------
(* inst_thread(): take the release to install; without one, or without a
   directory to load it into, there is nothing to do but say so. *)
Snapshot ==
  /\ installer = "snapshot"
  /\ target' = upd_json
  /\ installer' \in IF upd_json = NoRelease THEN {"failed"} ELSE {"sums", "failed"}
  /\ UNCHANGED <<checkVars, inst_state, sums, image, opened, uiVars>>

(* update_download_verified(): SHA256SUMS and its signature arrive whole,
   damaged or not at all ... *)
FetchSums ==
  /\ installer = "sums"
  /\ \/ sums' \in {"genuine", "damaged"} /\ installer' = "verify"
     \/ installer' = "failed" /\ UNCHANGED sums
  /\ UNCHANGED <<checkVars, inst_state, target, image, opened, uiVars>>

(* Mutant: a bad signature ends the thread without a report. *)
VerifyUnreported ==
  /\ installer = "verify"
  /\ installer' \in IF sums = "genuine" THEN {"image", "failed"} ELSE {"none"}
  /\ UNCHANGED <<checkVars, inst_state, target, sums, image, opened, uiVars>>

(* ... minisign_verify() accepts only what was signed, and the .dmg must be
   listed in it ... *)
Verify ==
  /\ installer = "verify"
  /\ installer' \in IF sums = "genuine" THEN {"image", "failed"} ELSE {"failed"}
  /\ UNCHANGED <<checkVars, inst_state, target, sums, image, opened, uiVars>>

(* ... the .dmg arrives; what a failed curl has left is unlinked ... *)
FetchImage ==
  /\ installer = "image"
  /\ \/ image' \in {"genuine", "damaged"} /\ installer' = "compare"
     \/ image' = "none" /\ installer' = "failed"
  /\ UNCHANGED <<checkVars, inst_state, target, sums, opened, uiVars>>

(* Mutant: a .dmg whose hash differs stays where it is. *)
CompareLeaves ==
  /\ installer = "compare"
  /\ \/ image = "genuine" /\ installer' = "open"
     \/ image # "genuine" /\ installer' = "failed"
  /\ UNCHANGED <<checkVars, inst_state, target, sums, image, opened, uiVars>>

(* ... and its hash is compared with the listed one.  A .dmg whose hash
   differs, or cannot be computed, is unlinked. *)
Compare ==
  /\ installer = "compare"
  /\ \/ image = "genuine" /\ installer' = "open" /\ UNCHANGED image
     \/ image' = "none" /\ installer' = "failed"
  /\ UNCHANGED <<checkVars, inst_state, target, sums, opened, uiVars>>

(* /usr/bin/open, which may fail; then the user is told where the .dmg is. *)
Open ==
  /\ installer = "open"
  /\ \/ opened' = image /\ installer' = "done"
     \/ installer' = "failed" /\ UNCHANGED opened
  /\ UNCHANGED <<checkVars, inst_state, target, sums, image, uiVars>>

(* The outcome and its message are published. *)
Report ==
  /\ installer \in {"done", "failed"}
  /\ inst_state' = IF installer = "done" THEN "DONE" ELSE "FAILED"
  /\ installer' = "none"
  /\ UNCHANGED <<checkVars, target, sums, image, opened, uiVars>>

--------------------------------------------------------------------------------
CheckThread == Fetch \/ Keep \/ Finish

InstallThread == Snapshot \/ FetchSums \/ Verify \/ FetchImage \/ Compare \/ Open \/ Report

Next ==
  \/ Launch \/ ManualCheck \/ PollCheck \/ Decline \/ Install \/ PollInstall
  \/ CheckThread \/ InstallThread

(***************************************************************************)
(* The background threads run, and curl gives up in the end (--max-time).  *)
(* The main thread polls in every turn of its loop, every 16 ms: no user   *)
(* presses Cmd+U between every result and the next poll for ever (hence    *)
(* SF), and a modal dialog is closed sooner or later.                      *)
(***************************************************************************)
Fairness ==
  /\ WF_vars(CheckThread) /\ WF_vars(InstallThread)
  /\ SF_vars(PollCheck) /\ SF_vars(PollInstall)
  /\ WF_vars(Launch) /\ WF_vars(Decline \/ Install)

Spec == Init /\ [][Next]_vars /\ Fairness

--------------------------------------------------------------------------------
TypeOK ==
  /\ upd_state \in {"IDLE", "RUNNING", "NEWER", "CURRENT", "FAILED"}
  /\ upd_silent \in BOOLEAN
  /\ {upd_tag, offered} \subseteq Release \cup {NoRelease}
  /\ {upd_json, target} \subseteq {r \in Release : r > APP_VERSION} \cup {NoRelease}
  /\ checker \in {"none", "fetch", "keep", "finish"}
  /\ found \in [result : {"NEWER", "CURRENT", "FAILED"}, tag : Release \cup {NoRelease}]
  /\ inst_state \in {"IDLE", "RUNNING", "DONE", "FAILED"}
  /\ installer \in {"none", "snapshot", "sums", "verify", "image", "compare",
                    "open", "done", "failed"}
  /\ {sums, image, opened} \subseteq {"none", "genuine", "damaged"}
  /\ ui \in {"launch", "loop", "dialog"}
  /\ owed \in BOOLEAN

(* There is never a second check thread to publish an old result over a new
   one, nor a check that is said to run and has no thread to end it; the same
   for installs (the RUNNING tests of update_check_start and
   update_install_start against the threads' last critical sections). *)
OneThreadEach ==
  /\ upd_state = "RUNNING" <=> checker # "none"
  /\ inst_state = "RUNNING" <=> installer # "none"

(* A release is offered only while its JSON is kept, and it is newer: the two
   critical sections of upd_thread() cannot be seen apart.  Whatever checks end
   meanwhile, an install has the JSON of a release, and so of a newer one: "No
   release to install" (update_check.c:234) is never said.  It need not be the
   release that was on the screen: a check between the closing of the dialog
   and inst_thread()'s snapshot (update_check.c:229) may replace it. *)
OfferIsKept ==
  /\ upd_state = "NEWER" => upd_json = upd_tag
  /\ ui = "dialog" => upd_json = offered /\ offered > APP_VERSION
  /\ installer = "snapshot" => upd_json # NoRelease
  /\ installer \notin {"none", "snapshot"} => target # NoRelease

(* Only a .dmg with the signed hash is opened, and an install that has ended
   leaves no other behind ("only opens it after verifying", README.md;
   "nothing left to open", update_test.c). *)
OnlyVerifiedImages ==
  /\ opened # "none" => opened = "genuine" /\ sums = "genuine"
  /\ installer = "none" => image \in {"none", "genuine"}

(* A manual check is answered, also one that joins the silent check at launch
   or comes just before or after its end. *)
ManualCheckAnswered == owed ~> ~owed

(* An install ends, and the user is told once there is no dialog in the way
   (a new install that is started from one replaces an outcome not yet seen). *)
InstallReported ==
  <>[](ui = "loop") => (inst_state = "RUNNING" ~> inst_state = "IDLE")
================================================================================
