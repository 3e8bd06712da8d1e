--------------------------- MODULE Administration ---------------------------
(***************************************************************************)
(* The administration of the board: the requests of two threads at one of  *)
(* the desks, which share no table.  The registry desk composes areas,     *)
(* equipment and what hangs on it.                                         *)
(***************************************************************************)
EXTENDS Attachments, Accounts, SiteSettings

registryDesk == <<registryVars, attachmentVars>>

vars == <<requestVars, registryVars, attachmentVars, accountVars, settingsVars>>

\* The tables of the other desks are as good as empty.
Init ==
  /\ RequestsInit
  /\ RegistryInit
  /\ AttachmentInit
  /\ AccountInit
  /\ SettingsInit
  /\ desk # "settings" => \A key \in Keys : config[key] = NULL
  /\ desk # "registry" => \A e \in DOMAIN equipment : equipment[e].mac_machine_name = NULL

Next ==
  \/ \E t \in Thread :
       \/ RegistryStep(t) /\ UNCHANGED <<attachmentVars, accountVars, settingsVars>>
       \/ AttachmentStep(t) /\ UNCHANGED <<accountVars, settingsVars>>
       \/ AccountStep(t) /\ UNCHANGED <<registryDesk, settingsVars>>
       \/ SettingsStep(t) /\ UNCHANGED <<registryDesk, accountVars>>
  \/ SeedAdmin /\ UNCHANGED <<registryDesk, settingsVars>>
  \/ (ReadVersion \/ Restart) /\ UNCHANGED <<registryDesk, accountVars>>

Spec == Init /\ [][Next]_vars

-----------------------------------------------------------------------------
\* What each thread holds is a request of some desk, and the tables have their types.
TypeOK ==
  /\ desk \in Desk
  /\ request \in [Thread -> {NoRequest} \cup RegistryRequest \cup AttachmentRequest
                              \cup AccountRequest \cup SettingsRequest]
  /\ begun \in Nat
  /\ RegistryTypeOK
  /\ AttachmentTypeOK
  /\ AccountTypeOK
  /\ SettingsTypeOK
=============================================================================
