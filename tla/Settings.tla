----------------------------- MODULE Settings -----------------------------
(***************************************************************************)
(* The settings page (adminUpdateSettings in internal/httpapi/admin.go,    *)
(* SetSettingWithSecret in internal/store/store.go): a save writes key     *)
(* after key, each in a statement of its own, and the last one carries the *)
(* SMTP password, too.                                                     *)
(***************************************************************************)
EXTENDS Naturals, Sequences

CONSTANTS
  Saves,         \* requests that save a page
  KeyOrder,      \* the keys in the order they are written; "smtp" is last
  Pages,         \* what administrators fill in
  Password,      \* what each page does to the SMTP password
  Installed, NoSecret, NoSave,
  MaxSaves, MaxFailures   \* bounds

Last == Len(KeyOrder)
Keys == {KeyOrder[i] : i \in 1..Last}

ASSUME SettingsAssumption ==
  /\ KeyOrder \in Seq(STRING) /\ Last > 0
  /\ KeyOrder[Last] = "smtp" /\ \A i \in 1..(Last - 1) : KeyOrder[i] # "smtp"
  /\ Password \in [Pages -> {"keep", "set", "clear"}]
  /\ Installed \notin Pages /\ NoSecret \notin Pages
  /\ MaxSaves \in Nat /\ MaxFailures \in Nat

VARIABLES
  value,      \* system_settings: the page each key was last written from
  secret,     \* the page the stored SMTP password was set by
  save,       \* what each request is doing
  saved,      \* saves begun
  failures

settingsVars == <<value, secret, save, saved, failures>>

(* `alone': no other save has written since this one began.                *)
Save == [page: Pages, at: 1..(Last + 1), alone: BOOLEAN]

ASSUME NoSaveAssumption == NoSave \notin Save

SettingsTypeOK ==
  /\ value \in [Keys -> Pages \cup {Installed}]
  /\ secret \in Pages \cup {NoSecret}
  /\ save \in [Saves -> Save \cup {NoSave}]
  /\ saved \in 0..MaxSaves /\ failures \in 0..MaxFailures

(* What 001_initial.sql inserts.                                           *)
SettingsInit ==
  /\ value = [k \in Keys |-> Installed]
  /\ secret = NoSecret
  /\ save = [r \in Saves |-> NoSave]
  /\ saved = 0 /\ failures = 0

(* A valid page of an administrator with a recent password check.          *)
UpdateSettings(r, page) ==
  /\ save[r] = NoSave /\ saved < MaxSaves /\ saved' = saved + 1
  /\ save' = [save EXCEPT ![r] = [page |-> page, at |-> 1, alone |-> TRUE]]
  /\ UNCHANGED <<value, secret, failures>>

(* smtpSecretUpdate and the CASE of SetSettingWithSecret.                  *)
SecretAfter(page) ==
  CASE Password[page] = "set" -> page
    [] Password[page] = "clear" -> NoSecret
    [] Password[page] = "keep" -> secret

(* Mutant: rows that exist are left alone.                                 *)
SetSettingOnce(page, key) ==
  /\ value' = [value EXCEPT ![key] = IF @ = Installed THEN page ELSE @]
  /\ secret' = IF key = "smtp" THEN SecretAfter(page) ELSE secret

(* Mutant: an absent password clears the stored one only in its absence.   *)
SetSettingKeepingSecret(page, key) ==
  /\ value' = [value EXCEPT ![key] = page]
  /\ secret' = IF key = "smtp" /\ secret = NoSecret THEN SecretAfter(page) ELSE secret

(* store.SetSetting and SetSettingWithSecret: INSERT ... ON CONFLICT DO    *)
(* UPDATE.                                                                 *)
SetSetting(page, key) ==
  /\ value' = [value EXCEPT ![key] = page]
  /\ secret' = IF key = "smtp" THEN SecretAfter(page) ELSE secret

Written(r, saves) ==
  [x \in Saves |->
    IF x = r \/ saves[x] = NoSave THEN saves[x] ELSE [saves[x] EXCEPT !.alone = FALSE]]

Write(r) ==
  /\ save[r] # NoSave /\ save[r].at <= Last
  /\ SetSetting(save[r].page, KeyOrder[save[r].at])
  /\ save' = Written(r, [save EXCEPT ![r].at = @ + 1])
  /\ UNCHANGED <<saved, failures>>

(* A statement (or the encryption before the last one) fails: the handler  *)
(* answers with the key and leaves the rest.  The statement may have       *)
(* committed.                                                              *)
WriteFails(r) ==
  /\ save[r] # NoSave /\ save[r].at <= Last
  /\ failures < MaxFailures /\ failures' = failures + 1
  /\ \/ UNCHANGED <<value, secret>> /\ save' = [save EXCEPT ![r] = NoSave]
     \/ /\ SetSetting(save[r].page, KeyOrder[save[r].at])
        /\ save' = Written(r, [save EXCEPT ![r] = NoSave])
  /\ UNCHANGED saved

Complete(r) == save[r] # NoSave /\ save[r].at > Last

(* The answer `saved'.                                                     *)
Answer(r) ==
  /\ Complete(r)
  /\ save' = [save EXCEPT ![r] = NoSave]
  /\ UNCHANGED <<value, secret, saved, failures>>

(* The process of some requests dies.                                      *)
Abandon(dead) ==
  /\ save' = [r \in Saves |-> IF r \in dead THEN NoSave ELSE save[r]]
  /\ UNCHANGED <<value, secret, saved, failures>>

-----------------------------------------------------------------------------
(* Properties.                                                             *)

(* An administrator who is told that the page was saved finds exactly that *)
(* page, with whatever was left by saves that failed half way overwritten, *)
(* unless another save has written in the meantime (adminUpdateSettings).  *)
SavedIsWhole ==
  \A r \in Saves : Complete(r) /\ save[r].alone => \A k \in Keys : value[k] = save[r].page

(* The password that mails are sent with is the one entered with the host  *)
(* they are sent to, if one was, however saves overlap and fail            *)
(* (sendEmail reads both in one statement).                                *)
SecretMatchesHost ==
  LET page == value["smtp"]
  IN page # Installed =>
       /\ Password[page] = "set" => secret = page
       /\ Password[page] = "clear" => secret = NoSecret
============================================================================
