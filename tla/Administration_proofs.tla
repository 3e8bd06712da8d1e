------------------------- MODULE Administration_proofs -------------------------
(***************************************************************************)
(* What overlapping requests of the administration keep, for any number of *)
(* threads, requests, areas, pieces of equipment, files, users, keys and   *)
(* values.  Each part has its invariant, about its tables and what the     *)
(* threads at its desk hold; the steps of other parts only let `changed'   *)
(* grow.                                                                   *)
(***************************************************************************)
EXTENDS Administration, WellFoundedInduction, TLAPS

-----------------------------------------------------------------------------
(* How requests move.                                                      *)

RequestsOK ==
  /\ DOMAIN request = Thread /\ DOMAIN changed = Thread
  /\ \A t \in Thread : "op" \in DOMAIN request[t]

\* Thread t goes on as r, and wrote `columns'.
Stepped(t, r, columns) ==
  /\ desk' = desk
  /\ DOMAIN request' = Thread /\ DOMAIN changed' = Thread
  /\ request'[t] = r
  /\ \A u \in Thread \ {t} : request'[u] = request[u]
  /\ \A u \in Thread \ {t} : ~Idle(u) => changed'[u] = changed[u] \cup columns

\* What the parts need of each other's steps: t holds one of ops before and after.
Moved(t, ops) ==
  /\ RequestsOK' /\ desk' = desk
  /\ request[t].op \in ops /\ request'[t].op \in ops
  /\ \A u \in Thread \ {t} : request'[u] = request[u]
  /\ \A u \in Thread \ {t} : ~Idle(u) => changed[u] \subseteq changed'[u]

LEMMA BeginSteps ==
  ASSUME RequestsOK, NEW t \in Thread, NEW d, NEW r, Begin(t, d, r)
  PROVE  Stepped(t, r, {}) /\ changed'[t] = {} /\ Idle(t)
  BY DEF Begin, Stepped, RequestsOK

LEMMA ContinueSteps ==
  ASSUME RequestsOK, NEW t \in Thread, NEW r, Continue(t, r)
  PROVE  Stepped(t, r, {}) /\ changed' = changed
  BY DEF Continue, Stepped, RequestsOK

LEMMA CommitSteps ==
  ASSUME RequestsOK, NEW t \in Thread, NEW r, NEW columns, Commit(t, r, columns)
  PROVE  Stepped(t, r, columns) /\ changed'[t] = {}
  BY DEF Commit, Stepped, RequestsOK

LEMMA SteppedMoves ==
  ASSUME RequestsOK, NEW t \in Thread, NEW r, NEW columns, NEW ops,
         Stepped(t, r, columns), request[t].op \in ops, r.op \in ops, "op" \in DOMAIN r
  PROVE  Moved(t, ops)
  BY DEF Moved, Stepped, RequestsOK

None == {"none"}

LEMMA NoRequestHasOp == NoRequest.op = "none" /\ "op" \in DOMAIN NoRequest
  BY DEF NoRequest

LEMMA RegistryStepMoves ==
  ASSUME RequestsOK, NEW t \in Thread, RegistryStep(t)
  PROVE  Moved(t, RegistryOps \cup None)
<1> DEFINE ops == RegistryOps \cup None
<1>1. NoRequest.op \in ops /\ "op" \in DOMAIN NoRequest
  BY NoRequestHasOp DEF None
<1>2. ASSUME NEW r, BeginRegistry(t, r), r.op \in ops, "op" \in DOMAIN r
      PROVE  Moved(t, ops)
  <2>1. Stepped(t, r, {}) /\ request[t].op \in ops
    BY <1>1, <1>2, BeginSteps DEF BeginRegistry, Idle
  <2> HIDE DEF ops
  <2> QED
    BY <1>2, <2>1, SteppedMoves
<1>3. ASSUME NEW r, NEW columns, Commit(t, r, columns) \/ Continue(t, r),
             request[t].op \in ops, r.op \in ops, "op" \in DOMAIN r
      PROVE  Moved(t, ops)
  <2>1. Stepped(t, r, columns) \/ Stepped(t, r, {})
    BY <1>3, CommitSteps, ContinueSteps
  <2> HIDE DEF ops
  <2> QED
    BY <1>3, <2>1, SteppedMoves
<1>4. CASE CreateArea(t)
  BY <1>2, <1>4 DEF CreateArea, RegistryOps
<1>5. CASE EditArea(t)
  BY <1>2, <1>5 DEF EditArea, RegistryOps
<1>6. CASE ArchiveArea(t)
  BY <1>2, <1>6 DEF ArchiveArea, RegistryOps
<1>7. CASE CreateEquipment(t)
  BY <1>2, <1>7 DEF CreateEquipment, RegistryOps
<1>8. CASE EditEquipment(t)
  BY <1>2, <1>8 DEF EditEquipment, RegistryOps
<1>9. CASE ArchiveEquipment(t)
  BY <1>2, <1>9 DEF ArchiveEquipment, RegistryOps
<1>10. CASE CommitCreateArea(t)
  BY <1>1, <1>3, <1>10 DEF CommitCreateArea, RegistryOps
<1>11. CASE CommitArea(t)
  BY <1>1, <1>3, <1>11 DEF CommitArea, RegistryOps
<1>12. CASE CommitCreateEquipment(t)
  BY <1>1, <1>3, <1>12 DEF CommitCreateEquipment, RegistryOps
<1>13. CASE CommitEquipment(t)
  BY <1>1, <1>3, <1>13 DEF CommitEquipment, RegistryOps
<1>14. CASE RegistryAbort(t)
  BY <1>1, <1>3, <1>14 DEF RegistryAbort, RegistryOps
<1> QED
  BY <1>4, <1>5, <1>6, <1>7, <1>8, <1>9, <1>10, <1>11, <1>12, <1>13, <1>14
  DEF RegistryStep

LEMMA AttachmentStepMoves ==
  ASSUME RequestsOK, NEW t \in Thread, AttachmentStep(t)
  PROVE  Moved(t, AttachmentOps \cup None)
<1> DEFINE ops == AttachmentOps \cup None
<1>1. NoRequest.op \in ops /\ "op" \in DOMAIN NoRequest
  BY NoRequestHasOp DEF None
<1>2. ASSUME NEW e, NEW r, BeginAttachment(t, e, r), r.op \in ops, "op" \in DOMAIN r
      PROVE  Moved(t, ops)
  <2>1. Stepped(t, r, {}) /\ request[t].op \in ops
    BY <1>1, <1>2, BeginSteps DEF BeginAttachment, Idle
  <2> HIDE DEF ops
  <2> QED
    BY <1>2, <2>1, SteppedMoves
<1>3. ASSUME NEW columns, Commit(t, NoRequest, columns), request[t].op \in ops
      PROVE  Moved(t, ops)
  <2>1. Stepped(t, NoRequest, columns)
    BY <1>3, CommitSteps
  <2> HIDE DEF ops
  <2> QED
    BY <1>1, <1>3, <2>1, SteppedMoves
<1>4. ASSUME NEW r, Continue(t, r), request[t].op \in ops, r.op \in ops,
             "op" \in DOMAIN r
      PROVE  Moved(t, ops)
  <2>1. Stepped(t, r, {})
    BY <1>4, ContinueSteps
  <2> HIDE DEF ops
  <2> QED
    BY <1>4, <2>1, SteppedMoves
<1>5. CASE AddLink(t) \/ AddNote(t)
  BY <1>2, <1>5 DEF AddLink, AddNote, AttachmentOps
<1>6. CASE UploadDocument(t) \/ UploadPhoto(t)
  BY <1>2, <1>6 DEF UploadDocument, UploadPhoto, AttachmentOps
<1>7. CASE DeleteLink(t) \/ DeleteDocument(t) \/ DeletePhoto(t)
  <2>1. \E e, i : \E op \in {"delete", "remove_file"} :
          BeginAttachment(t, e, [op |-> op, row |-> i])
    BY <1>7 DEF DeleteLink, DeleteDocument, DeletePhoto
  <2> QED
    BY <1>2, <2>1 DEF AttachmentOps
<1>8. CASE CommitLink(t) \/ CommitNote(t)
  BY <1>3, <1>8 DEF CommitLink, CommitNote, Attach, AttachmentOps
<1>9. CASE SaveFile(t)
  BY <1>4, <1>9 DEF SaveFile, AttachmentOps
<1>10. CASE InsertDocument(t)
  BY <1>3, <1>10 DEF InsertDocument, AttachmentOps
<1>11. CASE RemoveFile(t)
  BY <1>4, <1>11 DEF RemoveFile, AttachmentOps
<1>12. CASE DeleteDocumentRow(t) \/ DeleteLinkRow(t)
  BY <1>3, <1>12 DEF DeleteDocumentRow, DeleteLinkRow, DeleteRow, AttachmentOps
<1>13. CASE AttachmentAbort(t)
  BY <1>1, <1>4, <1>13 DEF AttachmentAbort
<1> QED
  BY <1>5, <1>6, <1>7, <1>8, <1>9, <1>10, <1>11, <1>12, <1>13 DEF AttachmentStep

LEMMA AccountStepMoves ==
  ASSUME RequestsOK, NEW t \in Thread, AccountStep(t)
  PROVE  Moved(t, AccountOps \cup None)
<1> DEFINE ops == AccountOps \cup None
<1>1. NoRequest.op \in ops /\ "op" \in DOMAIN NoRequest
  BY NoRequestHasOp DEF None
<1>2. ASSUME NEW r, Begin(t, "accounts", r), r.op \in ops, "op" \in DOMAIN r
      PROVE  Moved(t, ops)
  <2>1. Stepped(t, r, {}) /\ request[t].op \in ops
    BY <1>1, <1>2, BeginSteps DEF Idle
  <2> HIDE DEF ops
  <2> QED
    BY <1>2, <2>1, SteppedMoves
<1>3. ASSUME NEW r, NEW columns, Commit(t, r, columns), request[t].op \in ops,
             r.op \in ops, "op" \in DOMAIN r
      PROVE  Moved(t, ops)
  <2>1. Stepped(t, r, columns)
    BY <1>3, CommitSteps
  <2> HIDE DEF ops
  <2> QED
    BY <1>3, <2>1, SteppedMoves
<1>4. ASSUME NEW r, Continue(t, r), request[t].op \in ops, r.op \in ops,
             "op" \in DOMAIN r
      PROVE  Moved(t, ops)
  <2>1. Stepped(t, r, {})
    BY <1>4, ContinueSteps
  <2> HIDE DEF ops
  <2> QED
    BY <1>4, <2>1, SteppedMoves
<1>5. CASE CreateUser(t) \/ ResetPassword(t)
  <2>1. \E b, u, row : \E op \in {"create_user", "reset_password"} :
          Begin(t, "accounts",
            [op |-> op, user |-> u, browser |-> b, jar |-> cookie[b], to |-> row])
    BY <1>5 DEF CreateUser, ResetPassword, BeginInBrowser
  <2> QED
    BY <1>2, <2>1 DEF AccountOps
<1>6. CASE ChangeRole(t) \/ EditSlackHandle(t)
  <2>1. \E b, u, row : BeginChange(t, b, u, row)
    BY <1>6 DEF ChangeRole, EditSlackHandle
  <2>2. \E b, u, row :
          Begin(t, "accounts", [op |-> "change_account", user |-> u, browser |-> b,
                                jar |-> cookie[b], to |-> row])
    BY <2>1 DEF BeginChange, BeginInBrowser
  <2> QED
    BY <1>2, <2>2 DEF AccountOps
<1>7. CASE OpenUserPage(t) \/ OpenAnotherPage(t)
  <2>1. \E b, u, shows, jar :
          Begin(t, "accounts", [op |-> "respond", page |-> u, displays |-> shows,
                                redirect |-> NULL, browser |-> b, jar |-> jar])
    BY <1>7 DEF OpenUserPage, OpenAnotherPage, BeginInBrowser
  <2> QED
    BY <1>2, <2>1 DEF AccountOps
<1>8. CASE ChangePassword(t)
  BY <1>2, <1>8 DEF ChangePassword, AccountOps
<1>9. CASE CommitPassword(t)
  <2>1. /\ request[t].op \in {"create_user", "reset_password"}
        /\ \E b, jar, temporary, columns :
             Commit(t, [op |-> "deliver", browser |-> b, jar |-> jar,
                        temporary |-> temporary], columns)
    BY <1>9 DEF CommitPassword
  <2> QED
    BY <1>3, <2>1 DEF AccountOps
<1>10. CASE CommitChange(t)
  BY <1>3, <1>10 DEF CommitChange, Response, AccountOps
<1>11. CASE CommitOwnPassword(t)
  BY <1>1, <1>3, <1>11 DEF CommitOwnPassword, WriteOwnPassword, AccountOps
<1>12. CASE Deliver(t)
  BY <1>4, <1>12 DEF Deliver, Response, AccountOps
<1>13. CASE Respond(t) \/ RespondError(t) \/ AccountAbort(t)
  BY <1>1, <1>4, <1>13 DEF Respond, RespondError, AccountAbort, AccountOps
<1> QED
  BY <1>5, <1>6, <1>7, <1>8, <1>9, <1>10, <1>11, <1>12, <1>13 DEF AccountStep

LEMMA SettingsStepMoves ==
  ASSUME RequestsOK, NEW t \in Thread, SettingsStep(t)
  PROVE  Moved(t, SettingsOps \cup None)
<1> DEFINE ops == SettingsOps \cup None
<1>1. NoRequest.op \in ops /\ "op" \in DOMAIN NoRequest
  BY NoRequestHasOp DEF None
<1>2. ASSUME NEW r, Begin(t, "settings", r), r.op \in ops, "op" \in DOMAIN r
      PROVE  Moved(t, ops)
  <2>1. Stepped(t, r, {}) /\ request[t].op \in ops
    BY <1>1, <1>2, BeginSteps DEF Idle
  <2> HIDE DEF ops
  <2> QED
    BY <1>2, <2>1, SteppedMoves
<1>3. ASSUME NEW r, NEW columns, Commit(t, r, columns), request[t].op \in ops,
             r.op \in ops, "op" \in DOMAIN r
      PROVE  Moved(t, ops)
  <2>1. Stepped(t, r, columns)
    BY <1>3, CommitSteps
  <2> HIDE DEF ops
  <2> QED
    BY <1>3, <2>1, SteppedMoves
<1>4. ASSUME NEW r, Continue(t, r), request[t].op \in ops, r.op \in ops,
             "op" \in DOMAIN r
      PROVE  Moved(t, ops)
  <2>1. Stepped(t, r, {})
    BY <1>4, ContinueSteps
  <2> HIDE DEF ops
  <2> QED
    BY <1>4, <2>1, SteppedMoves
<1>5. CASE SaveSettings(t) \/ RenderPage(t)
  <2>1. CASE RenderPage(t)
    BY <1>2, <2>1 DEF RenderPage, SettingsOps
  <2>2. CASE SaveSettings(t)
    <3>1. PICK form, at :
            Begin(t, "settings", [op |-> "save_settings", form |-> form,
                                  viewed |-> config, seen |-> config,
                                  at |-> at, saved |-> FALSE])
      BY <2>2 DEF SaveSettings
    <3> DEFINE r == [op |-> "save_settings", form |-> form,
                     viewed |-> config, seen |-> config,
                     at |-> at, saved |-> FALSE]
    <3>2. r.op = "save_settings" /\ "op" \in DOMAIN r /\ Begin(t, "settings", r)
      BY <3>1
    <3> HIDE DEF r
    <3> QED
      BY <1>2, <3>2 DEF SettingsOps
  <2> QED
    BY <1>5, <2>1, <2>2
<1>6. "op" \in DOMAIN request[t]
  BY DEF RequestsOK
<1>7. CASE CommitKey(t)
  <2> DEFINE r == [NextFrom(request[t], config') EXCEPT
                     !.saved = @ \/ ConfigKey[request[t].at] = "wifi_ssid"]
  <2>1. /\ request[t].op = "save_settings"
        /\ Commit(t, r, {<<ConfigKey[request[t].at], "value">>})
    BY <1>7 DEF CommitKey, WriteKey, SavingKey
  <2>2. r.op = request[t].op /\ "op" \in DOMAIN r
    BY <1>6 DEF NextFrom
  <2> HIDE DEF r
  <2> QED
    BY <1>3, <2>1, <2>2 DEF SettingsOps
<1>8. CASE KeepKey(t)
  <2> DEFINE r == NextFrom(request[t], config)
  <2>1. request[t].op = "save_settings" /\ Commit(t, r, {})
    BY <1>8 DEF KeepKey, SavingKey
  <2>2. r.op = request[t].op /\ "op" \in DOMAIN r
    BY <1>6 DEF NextFrom
  <2> HIDE DEF r
  <2> QED
    BY <1>3, <2>1, <2>2 DEF SettingsOps
<1>9. CASE InsertRefused(t)
  <2> DEFINE r == [request[t] EXCEPT !.seen = config]
  <2>1. request[t].op = "save_settings" /\ Commit(t, r, {})
    BY <1>9 DEF InsertRefused, SavingKey
  <2>2. r.op = request[t].op /\ "op" \in DOMAIN r
    BY <1>6
  <2> HIDE DEF r
  <2> QED
    BY <1>3, <2>1, <2>2 DEF SettingsOps
<1>10. CASE ReadSetting(t)
  BY <1>4, <1>10 DEF ReadSetting, SettingsOps
<1>11. CASE FinishSave(t) \/ StorePage(t) \/ SettingsAbort(t)
  BY <1>1, <1>4, <1>11 DEF FinishSave, StorePage, SettingsAbort, SettingsOps
<1> QED
  BY <1>5, <1>7, <1>8, <1>9, <1>10, <1>11 DEF SettingsStep

-----------------------------------------------------------------------------
(* Areas and equipment.                                                    *)

EditsEquipment(t) == request[t].op \in {"create_equipment", "save_equipment"}

\* The name t is about to save is that of no other live equipment, unless of one named
\* since t looked.
NameChecked(t) ==
  \A f \in DOMAIN equipment :
    /\ request[t].op = "save_equipment" => request[t].row # f
    /\ ~request[t].to.is_archived /\ ~equipment[f].is_archived
    /\ SameMachine(equipment[f].mac_machine_name, request[t].to.mac_machine_name)
    => Overtaken(t, f, "mac_machine_name")

\* The area t is about to move equipment to is not archived, unless since t looked.
AreaChecked(t) ==
  LET a == request[t].to.area_id IN
  /\ \/ request[t].op = "create_equipment"
     \/ Unchanged(t, request[t].row) /\ equipment[request[t].row].area_id # a
  /\ area[a].is_archived
  => Overtaken(t, a, "is_archived")

\* What a thread at the registry holds.
RegistryOK(t) ==
  /\ request[t].op \in {"create_area", "save_area"} => request[t].to \in AreaRow
  /\ request[t].op = "save_area" => request[t].row \in DOMAIN area
  /\ request[t].op = "save_equipment" =>
       /\ request[t].row \in DOMAIN equipment
       /\ Unchanged(t, request[t].row) => ~equipment[request[t].row].is_archived
  /\ EditsEquipment(t) =>
       /\ request[t].to \in EquipmentRow
       /\ request[t].to.area_id \in DOMAIN area
       /\ NameChecked(t)
       /\ AreaChecked(t)

RegistryInv ==
  /\ RequestsOK
  /\ RegistryTypeOK
  /\ \A t \in Thread : RegistryOK(t)
  /\ SharedMachineNameMeansOverlap

\* What a step does to the registry is recorded in changed[u], and nothing archived
\* comes back.
Tracked(u) ==
  /\ changed[u] \subseteq changed'[u]
  /\ DOMAIN area \subseteq DOMAIN area' /\ DOMAIN equipment \subseteq DOMAIN equipment'
  /\ \A a \in DOMAIN area :
       \/ area'[a].is_archived <=> area[a].is_archived
       \/ <<a, "is_archived">> \in changed'[u]
  /\ \A e \in DOMAIN equipment :
       /\ equipment'[e].area_id # equipment[e].area_id
            => <<e, "area_id">> \in changed'[u]
       /\ equipment[e].is_archived => equipment'[e].is_archived
       /\ \/ equipment'[e].is_archived <=> equipment[e].is_archived
          \/ <<e, "is_archived">> \in changed'[u]
       /\ equipment'[e].mac_machine_name # equipment[e].mac_machine_name
            => <<e, "mac_machine_name">> \in changed'[u]
  /\ \A e \in DOMAIN equipment' \ DOMAIN equipment :
       <<e, "mac_machine_name">> \in changed'[u]

LEMMA OthersKeepRegistryOK ==
  ASSUME RegistryTypeOK, NEW u, RegistryOK(u), request'[u] = request[u],
         Tracked(u) \/ Idle(u)
  PROVE  RegistryOK(u)'
<1>1. CASE Idle(u)
  <2>1. request'[u].op = "none"
    BY <1>1, NoRequestHasOp DEF Idle
  <2> QED
    BY <2>1 DEF RegistryOK, EditsEquipment
<1>2. CASE Tracked(u)
  <2>1. \A row : Unchanged(u, row)' => Unchanged(u, row)
    BY <1>2 DEF Tracked, Unchanged
  <2>2. ASSUME request[u].op = "save_equipment"
        PROVE  /\ request[u].row \in DOMAIN equipment'
               /\ Unchanged(u, request[u].row)' =>
                    /\ ~equipment'[request[u].row].is_archived
                    /\ equipment'[request[u].row].area_id
                         = equipment[request[u].row].area_id
    BY <1>2, <2>1, <2>2 DEF RegistryOK, Tracked, Unchanged
  <2>3. ASSUME EditsEquipment(u)
        PROVE  NameChecked(u)'
    <3>1. ASSUME NEW f \in DOMAIN equipment',
                 request[u].op = "save_equipment" => request[u].row # f,
                 ~request[u].to.is_archived, ~equipment'[f].is_archived,
                 SameMachine(equipment'[f].mac_machine_name,
                             request[u].to.mac_machine_name),
                 <<f, "mac_machine_name">> \notin changed'[u]
          PROVE  FALSE
      <4>1. /\ f \in DOMAIN equipment
            /\ equipment'[f].mac_machine_name = equipment[f].mac_machine_name
            /\ ~Overtaken(u, f, "mac_machine_name")
        BY <1>2, <3>1 DEF Tracked, Overtaken
      <4>2. ~equipment[f].is_archived
        BY <1>2, <3>1, <4>1 DEF Tracked
      <4> QED
        BY <2>3, <3>1, <4>1, <4>2 DEF RegistryOK, NameChecked
    <3> QED
      BY <3>1 DEF NameChecked, Overtaken
  <2>4. ASSUME EditsEquipment(u)
        PROVE  AreaChecked(u)'
    <3> DEFINE a == request[u].to.area_id
    <3>1. a \in DOMAIN area
      BY <2>4 DEF RegistryOK
    <3>2. ASSUME \/ request[u].op = "create_equipment"
                 \/ /\ Unchanged(u, request[u].row)'
                    /\ equipment'[request[u].row].area_id # a,
                 area'[a].is_archived, <<a, "is_archived">> \notin changed'[u]
          PROVE  FALSE
      <4>1. area[a].is_archived /\ ~Overtaken(u, a, "is_archived")
        BY <1>2, <3>1, <3>2 DEF Tracked, Overtaken
      <4>2. \/ request[u].op = "create_equipment"
            \/ Unchanged(u, request[u].row) /\ equipment[request[u].row].area_id # a
        BY <2>1, <2>2, <2>4, <3>2 DEF EditsEquipment
      <4> QED
        BY <2>4, <4>1, <4>2 DEF RegistryOK, AreaChecked
    <3> QED
      BY <3>2 DEF AreaChecked, Overtaken
  <2> QED
    BY <1>2, <2>2, <2>3, <2>4 DEF RegistryOK, EditsEquipment, Tracked
<1> QED
  BY <1>1, <1>2

LEMMA NothingTracked ==
  ASSUME NEW u, UNCHANGED registryVars, changed[u] \subseteq changed'[u]
  PROVE  Tracked(u)
  BY DEF Tracked, registryVars

\* Steps of other desks and parts.
LEMMA ElsewhereKeepsRegistry ==
  ASSUME RegistryInv, NEW t \in Thread, NEW ops, Moved(t, ops),
         ops \cap RegistryOps = {}, UNCHANGED registryVars
  PROVE  RegistryInv'
<1>1. RegistryTypeOK' /\ SharedMachineNameMeansOverlap'
  BY DEF RegistryInv, RegistryTypeOK, SharedMachineNameMeansOverlap, LiveEquipment,
         registryVars
<1>2. RegistryOK(t)'
  BY DEF Moved, RegistryOK, EditsEquipment, RegistryOps
<1>3. ASSUME NEW u \in Thread \ {t}
      PROVE  RegistryOK(u)'
  <2>1. request'[u] = request[u] /\ (Idle(u) \/ changed[u] \subseteq changed'[u])
    BY DEF Moved
  <2>2. Idle(u) \/ Tracked(u)
    BY <2>1, NothingTracked
  <2> QED
    BY <2>1, <2>2, OthersKeepRegistryOK DEF RegistryInv
<1> QED
  BY <1>1, <1>2, <1>3 DEF RegistryInv, Moved

\* A request that begins at the registry, with what it checked.
LEMMA RegistryBegins ==
  ASSUME RegistryInv, NEW t \in Thread, NEW r, BeginRegistry(t, r), "op" \in DOMAIN r,
         RegistryOK(t)'
  PROVE  RegistryInv'
<1>1. /\ UNCHANGED <<area, equipment, raced>>
      /\ Stepped(t, r, {}) /\ RequestsOK
  BY BeginSteps DEF BeginRegistry, registryVars, RegistryInv
<1>2. RegistryTypeOK' /\ SharedMachineNameMeansOverlap'
  BY <1>1 DEF RegistryInv, RegistryTypeOK, SharedMachineNameMeansOverlap, LiveEquipment
<1>3. ASSUME NEW u \in Thread \ {t}
      PROVE  RegistryOK(u)'
  <2>1. request'[u] = request[u] /\ (Idle(u) \/ changed[u] \subseteq changed'[u])
    BY <1>1 DEF Stepped
  <2>2. Idle(u) \/ Tracked(u)
    BY <1>1, <2>1, NothingTracked DEF registryVars
  <2> QED
    BY <2>1, <2>2, OthersKeepRegistryOK DEF RegistryInv
<1>4. RequestsOK'
  BY <1>1 DEF Stepped, RequestsOK
<1> QED
  BY <1>2, <1>3, <1>4 DEF RegistryInv

\* A commit of the registry, all of which the others are told.
LEMMA RegistryCommits ==
  ASSUME RegistryInv, NEW t \in Thread, NEW columns, Commit(t, NoRequest, columns),
         RegistryTypeOK', SharedMachineNameMeansOverlap',
         \A u \in Thread : changed'[u] = changed[u] \cup columns => Tracked(u)
  PROVE  RegistryInv'
<1>1. Stepped(t, NoRequest, columns) /\ RequestsOK
  BY CommitSteps DEF RegistryInv
<1>2. RegistryOK(t)' /\ RequestsOK'
  BY <1>1, NoRequestHasOp DEF Stepped, RegistryOK, EditsEquipment, RequestsOK
<1>3. ASSUME NEW u \in Thread \ {t}
      PROVE  RegistryOK(u)'
  <2>1. request'[u] = request[u] /\ (Idle(u) \/ Tracked(u))
    BY <1>1 DEF Stepped
  <2> QED
    BY <2>1, OthersKeepRegistryOK DEF RegistryInv
<1> QED
  BY <1>2, <1>3 DEF RegistryInv

LEMMA RegistryBeginKeeps ==
  ASSUME RegistryInv, NEW t \in Thread,
         \/ CreateArea(t) \/ EditArea(t) \/ ArchiveArea(t)
         \/ CreateEquipment(t) \/ EditEquipment(t) \/ ArchiveEquipment(t)
  PROVE  RegistryInv'
<1>1. ASSUME NEW r, BeginRegistry(t, r)
      PROVE  /\ request'[t] = r /\ changed'[t] = {}
             /\ UNCHANGED <<area, equipment>>
  BY <1>1, BeginSteps DEF BeginRegistry, registryVars, RegistryInv, Stepped
<1>2. CASE CreateArea(t)
  <2>1. PICK name \in AreaName :
          BeginRegistry(t, [op |-> "create_area",
                            to |-> [name |-> name, is_archived |-> FALSE]])
    BY <1>2 DEF CreateArea
  <2> DEFINE r == [op |-> "create_area", to |-> [name |-> name, is_archived |-> FALSE]]
  <2>2. /\ r.op = "create_area" /\ r.to \in AreaRow /\ "op" \in DOMAIN r
        /\ BeginRegistry(t, r)
    BY <2>1 DEF AreaRow
  <2> HIDE DEF r
  <2>3. RegistryOK(t)'
    BY <1>1, <2>2 DEF RegistryOK, EditsEquipment
  <2> QED
    BY <2>2, <2>3, RegistryBegins
<1>3. CASE EditArea(t) \/ ArchiveArea(t)
  <2>1. PICK a \in DOMAIN area, row \in AreaRow :
          BeginRegistry(t, [op |-> "save_area", row |-> a, to |-> row])
    BY <1>3 DEF EditArea, ArchiveArea, RegistryInv, RegistryTypeOK, AreaRow
  <2>2. RegistryOK(t)'
    BY <1>1, <2>1 DEF RegistryOK, EditsEquipment
  <2> QED
    BY <2>1, <2>2, RegistryBegins
<1>4. CASE CreateEquipment(t)
  <2>1. PICK a \in DOMAIN area, name \in MachineName \cup {NULL} :
          /\ LiveArea(a) /\ MachineNameFree(name, NULL)
          /\ BeginRegistry(t, [op |-> "create_equipment",
                               to |-> [area_id |-> a, mac_machine_name |-> name,
                                       is_archived |-> FALSE]])
    BY <1>4 DEF CreateEquipment
  <2> DEFINE row == [area_id |-> a, mac_machine_name |-> name, is_archived |-> FALSE]
             r == [op |-> "create_equipment", to |-> row]
  <2>2. /\ r.op = "create_equipment" /\ r.to = row /\ "op" \in DOMAIN r
        /\ BeginRegistry(t, r)
        /\ row.area_id = a /\ row.mac_machine_name = name
    BY <2>1
  <2>3. row \in EquipmentRow
    BY <2>1 DEF EquipmentRow, RegistryInv, RegistryTypeOK
  <2> HIDE DEF r, row
  <2>4. request'[t] = r /\ UNCHANGED <<area, equipment>>
    BY <1>1, <2>2
  <2>5. NULL \notin DOMAIN equipment
    BY RegistryAssumption DEF RegistryInv, RegistryTypeOK
  <2>6. NameChecked(t)' /\ AreaChecked(t)'
    BY <2>1, <2>2, <2>4, <2>5 DEF NameChecked, AreaChecked, MachineNameFree, LiveArea
  <2>7. RegistryOK(t)'
    BY <2>1, <2>2, <2>3, <2>4, <2>6 DEF RegistryOK
  <2> QED
    BY <2>2, <2>7, RegistryBegins
<1>5. CASE EditEquipment(t)
  <2>1. PICK e, row :
          /\ e \in DOMAIN equipment /\ row \in Edited(e)
          /\ LiveEquipment(e)
          /\ BeginRegistry(t, [op |-> "save_equipment", row |-> e, to |-> row])
    BY <1>5 DEF EditEquipment
  <2> DEFINE r == [op |-> "save_equipment", row |-> e, to |-> row]
  <2>2. /\ r.op = "save_equipment" /\ r.row = e /\ r.to = row /\ "op" \in DOMAIN r
        /\ BeginRegistry(t, r)
    BY <2>1
  <2> HIDE DEF r
  <2>3. request'[t] = r /\ UNCHANGED <<area, equipment>>
    BY <1>1, <2>2
  <2>4. /\ row \in EquipmentRow
        /\ row.area_id # equipment[e].area_id => LiveArea(row.area_id)
        /\ MachineNameFree(row.mac_machine_name, e)
    BY <2>1 DEF Edited
  <2>5. row.area_id \in DOMAIN area
    BY <2>1, <2>4 DEF LiveArea, RegistryInv, RegistryTypeOK
  <2>6. NameChecked(t)' /\ AreaChecked(t)'
    BY <2>2, <2>3, <2>4 DEF NameChecked, AreaChecked, MachineNameFree, LiveArea
  <2>7. RegistryOK(t)'
    BY <2>1, <2>2, <2>3, <2>4, <2>5, <2>6 DEF RegistryOK, LiveEquipment
  <2> QED
    BY <2>2, <2>7, RegistryBegins
<1>6. CASE ArchiveEquipment(t)
  <2>1. PICK e \in DOMAIN equipment :
          /\ LiveEquipment(e)
          /\ BeginRegistry(t, [op |-> "save_equipment", row |-> e,
                               to |-> [equipment[e] EXCEPT !.is_archived = TRUE]])
    BY <1>6 DEF ArchiveEquipment
  <2> DEFINE row == [equipment[e] EXCEPT !.is_archived = TRUE]
             r == [op |-> "save_equipment", row |-> e, to |-> row]
  <2>2. /\ r.op = "save_equipment" /\ r.row = e /\ r.to = row /\ "op" \in DOMAIN r
        /\ BeginRegistry(t, r)
    BY <2>1
  <2>3. /\ row \in EquipmentRow /\ row.is_archived /\ row.area_id = equipment[e].area_id
        /\ row.area_id \in DOMAIN area
    BY DEF RegistryInv, RegistryTypeOK, EquipmentRow
  <2> HIDE DEF r, row
  <2>4. request'[t] = r /\ UNCHANGED <<area, equipment>>
    BY <1>1, <2>2
  <2>5. NameChecked(t)' /\ AreaChecked(t)'
    BY <2>2, <2>3, <2>4 DEF NameChecked, AreaChecked
  <2>6. RegistryOK(t)'
    BY <2>1, <2>2, <2>3, <2>4, <2>5 DEF RegistryOK, LiveEquipment
  <2> QED
    BY <2>2, <2>6, RegistryBegins
<1> QED
  BY <1>2, <1>3, <1>4, <1>5, <1>6

\* A row that is saved: what differs is told.
LEMMA SavedRowTracked ==
  ASSUME RegistryTypeOK, NEW e \in DOMAIN equipment, NEW row \in EquipmentRow,
         ~equipment[e].is_archived, area' = area,
         equipment' = [equipment EXCEPT ![e] = row],
         NEW u, changed'[u] = changed[u] \cup Differing(e, equipment[e], row)
  PROVE  Tracked(u)
<1>1. /\ DOMAIN equipment' = DOMAIN equipment /\ equipment'[e] = row
      /\ \A f \in DOMAIN equipment \ {e} : equipment'[f] = equipment[f]
  OBVIOUS
<1>2. \A c \in {"area_id", "is_archived", "mac_machine_name"} :
        row[c] # equipment[e][c] => <<e, c>> \in changed'[u]
  <2>1. {"area_id", "is_archived", "mac_machine_name"} = DOMAIN row
    BY DEF EquipmentRow
  <2> QED
    BY <2>1 DEF Differing
<1>3. /\ row.area_id # equipment[e].area_id => <<e, "area_id">> \in changed'[u]
      /\ row.is_archived # equipment[e].is_archived => <<e, "is_archived">> \in changed'[u]
      /\ row.mac_machine_name # equipment[e].mac_machine_name
           => <<e, "mac_machine_name">> \in changed'[u]
  BY <1>2
<1> QED
  BY <1>1, <1>3 DEF Tracked

LEMMA CommitEquipmentKeeps ==
  ASSUME RegistryInv, NEW t \in Thread, CommitEquipment(t)
  PROVE  RegistryInv'
<1> DEFINE e == request[t].row
           row == request[t].to
<1>1. /\ request[t].op = "save_equipment" /\ Unchanged(t, e)
      /\ equipment' = [equipment EXCEPT ![e] = row]
      /\ raced' = IF row.mac_machine_name # equipment[e].mac_machine_name
                    THEN RacedAfter(t, e) ELSE raced
      /\ Commit(t, NoRequest, Differing(e, equipment[e], row))
      /\ area' = area
  BY DEF CommitEquipment
<1>2. /\ e \in DOMAIN equipment /\ ~equipment[e].is_archived
      /\ row \in EquipmentRow /\ row.area_id \in DOMAIN area
      /\ NameChecked(t)
  BY <1>1 DEF RegistryInv, RegistryOK, EditsEquipment
<1> HIDE DEF e, row
<1>3. /\ DOMAIN equipment' = DOMAIN equipment /\ equipment'[e] = row
      /\ \A f \in DOMAIN equipment \ {e} : equipment'[f] = equipment[f]
  BY <1>1, <1>2
<1>4. RegistryTypeOK'
  <2>1. e \in Equipment /\ DOMAIN equipment \subseteq Equipment
    BY <1>2 DEF RegistryInv, RegistryTypeOK
  <2>2. raced' \subseteq SUBSET Equipment
    BY <1>1, <2>1 DEF RacedAfter, RegistryInv, RegistryTypeOK
  <2>3. equipment' \in [DOMAIN equipment' -> EquipmentRow]
    BY <1>1, <1>2, <1>3 DEF RegistryInv, RegistryTypeOK
  <2>4. \A f \in DOMAIN equipment' : equipment'[f].area_id \in DOMAIN area'
    BY <1>1, <1>2, <1>3 DEF RegistryInv, RegistryTypeOK
  <2> QED
    BY <1>1, <1>3, <2>2, <2>3, <2>4 DEF RegistryInv, RegistryTypeOK
<1>5. ASSUME NEW f \in DOMAIN equipment \ {e}, ~row.is_archived, ~equipment[f].is_archived,
             SameMachine(equipment[f].mac_machine_name, row.mac_machine_name)
      PROVE  {e, f} \in raced'
  <2>1. Overtaken(t, f, "mac_machine_name")
    BY <1>1, <1>2, <1>5 DEF NameChecked, e, row
  <2>2. CASE row.mac_machine_name # equipment[e].mac_machine_name
    BY <1>1, <2>1, <2>2 DEF RacedAfter
  <2>3. CASE row.mac_machine_name = equipment[e].mac_machine_name
    <3>1. /\ e # f /\ LiveEquipment(e) /\ LiveEquipment(f)
          /\ SameMachine(equipment[e].mac_machine_name, equipment[f].mac_machine_name)
      BY <1>2, <1>5, <2>3 DEF LiveEquipment, SameMachine
    <3>2. {e, f} \in raced
      BY <1>2, <3>1 DEF RegistryInv, SharedMachineNameMeansOverlap
    <3> QED
      BY <1>1, <2>3, <3>2
  <2> QED
    BY <2>2, <2>3
<1>6. SharedMachineNameMeansOverlap'
  <2>1. ASSUME NEW f \in DOMAIN equipment', NEW g \in DOMAIN equipment',
               f # g, ~equipment'[f].is_archived, ~equipment'[g].is_archived,
               SameMachine(equipment'[f].mac_machine_name, equipment'[g].mac_machine_name)
        PROVE  {f, g} \in raced'
    <3>1. CASE f = e
      BY <1>3, <1>5, <2>1, <3>1 DEF SameMachine
    <3>2. CASE g = e
      <4>1. {e, f} \in raced'
        BY <1>3, <1>5, <2>1, <3>2 DEF SameMachine
      <4> QED
        BY <3>2, <4>1
    <3>3. CASE f # e /\ g # e
      <4>1. {f, g} \in raced
        BY <1>3, <2>1, <3>3
        DEF RegistryInv, SharedMachineNameMeansOverlap, LiveEquipment
      <4> QED
        BY <1>1, <3>3, <4>1 DEF RacedAfter
    <3> QED
      BY <3>1, <3>2, <3>3
  <2> QED
    BY <2>1 DEF SharedMachineNameMeansOverlap, LiveEquipment
<1>7. \A u \in Thread :
        changed'[u] = changed[u] \cup Differing(e, equipment[e], row) => Tracked(u)
  BY <1>1, <1>2, SavedRowTracked DEF RegistryInv
<1> DEFINE columns == Differing(e, equipment[e], row)
<1> HIDE DEF columns
<1>8. /\ Commit(t, NoRequest, columns)
      /\ \A u \in Thread : changed'[u] = changed[u] \cup columns => Tracked(u)
  BY <1>1, <1>7 DEF columns
<1> QED
  BY <1>4, <1>6, <1>8, RegistryCommits

LEMMA CommitCreateEquipmentKeeps ==
  ASSUME RegistryInv, NEW t \in Thread, CommitCreateEquipment(t)
  PROVE  RegistryInv'
<1> DEFINE row == request[t].to
<1>1. PICK e \in Equipment \ DOMAIN equipment :
        /\ equipment' = With(equipment, e, row)
        /\ raced' = RacedAfter(t, e)
        /\ Commit(t, NoRequest, {e} \X DOMAIN row)
  BY DEF CommitCreateEquipment
<1>2. request[t].op = "create_equipment" /\ area' = area
  BY DEF CommitCreateEquipment
<1>3. row \in EquipmentRow /\ row.area_id \in DOMAIN area /\ NameChecked(t)
  BY <1>2 DEF RegistryInv, RegistryOK, EditsEquipment
<1> HIDE DEF row
<1>4. /\ DOMAIN equipment' = DOMAIN equipment \cup {e} /\ equipment'[e] = row
      /\ \A f \in DOMAIN equipment : equipment'[f] = equipment[f]
      /\ equipment' = [i \in DOMAIN equipment' |-> equipment'[i]]
  BY <1>1 DEF With
<1>5. RegistryTypeOK'
  <2>1. raced' \subseteq SUBSET Equipment
    BY <1>1 DEF RacedAfter, RegistryInv, RegistryTypeOK
  <2>2. equipment' \in [DOMAIN equipment' -> EquipmentRow]
    BY <1>3, <1>4 DEF RegistryInv, RegistryTypeOK
  <2>3. \A f \in DOMAIN equipment' : equipment'[f].area_id \in DOMAIN area'
    BY <1>2, <1>3, <1>4 DEF RegistryInv, RegistryTypeOK
  <2> QED
    BY <1>2, <1>4, <2>1, <2>2, <2>3 DEF RegistryInv, RegistryTypeOK
<1>6. ASSUME NEW f \in DOMAIN equipment, ~row.is_archived, ~equipment[f].is_archived,
             SameMachine(equipment[f].mac_machine_name, row.mac_machine_name)
      PROVE  {e, f} \in raced'
  <2>1. Overtaken(t, f, "mac_machine_name")
    BY <1>2, <1>3, <1>6 DEF NameChecked, row
  <2> QED
    BY <1>1, <2>1 DEF RacedAfter
<1>7. SharedMachineNameMeansOverlap'
  <2>1. ASSUME NEW f \in DOMAIN equipment', NEW g \in DOMAIN equipment',
               f # g, ~equipment'[f].is_archived, ~equipment'[g].is_archived,
               SameMachine(equipment'[f].mac_machine_name, equipment'[g].mac_machine_name)
        PROVE  {f, g} \in raced'
    <3>1. CASE f = e
      BY <1>4, <1>6, <2>1, <3>1 DEF SameMachine
    <3>2. CASE g = e
      <4>1. {e, f} \in raced'
        BY <1>4, <1>6, <2>1, <3>2 DEF SameMachine
      <4> QED
        BY <3>2, <4>1
    <3>3. CASE f # e /\ g # e
      <4>1. {f, g} \in raced
        BY <1>4, <2>1, <3>3
        DEF RegistryInv, SharedMachineNameMeansOverlap, LiveEquipment
      <4> QED
        BY <1>1, <3>3, <4>1 DEF RacedAfter
    <3> QED
      BY <3>1, <3>2, <3>3
  <2> QED
    BY <2>1 DEF SharedMachineNameMeansOverlap, LiveEquipment
<1>8. \A u \in Thread : changed'[u] = changed[u] \cup ({e} \X DOMAIN row) => Tracked(u)
  <2>1. <<e, "mac_machine_name">> \in {e} \X DOMAIN row
    BY <1>3 DEF EquipmentRow
  <2> QED
    BY <1>2, <1>4, <2>1 DEF Tracked
<1> DEFINE columns == {e} \X DOMAIN row
<1> HIDE DEF columns
<1>9. /\ Commit(t, NoRequest, columns)
      /\ \A u \in Thread : changed'[u] = changed[u] \cup columns => Tracked(u)
  BY <1>1, <1>8 DEF columns
<1> QED
  BY <1>5, <1>7, <1>9, RegistryCommits

LEMMA CommitAreaKeeps ==
  ASSUME RegistryInv, NEW t \in Thread, CommitArea(t) \/ CommitCreateArea(t)
  PROVE  RegistryInv'
<1> DEFINE row == request[t].to
<1>1. /\ UNCHANGED <<equipment, raced>>
      /\ request[t].op \in {"create_area", "save_area"}
  BY DEF CommitArea, CommitCreateArea
<1>2. row \in AreaRow
  BY <1>1 DEF RegistryInv, RegistryOK
<1>3. SharedMachineNameMeansOverlap'
  BY <1>1 DEF RegistryInv, SharedMachineNameMeansOverlap, LiveEquipment
<1> HIDE DEF row
<1>4. CASE CommitArea(t)
  <2> DEFINE a == request[t].row
             columns == Differing(a, area[a], row)
  <2>1. /\ area' = [area EXCEPT ![a] = row]
        /\ Commit(t, NoRequest, columns)
        /\ a \in DOMAIN area
    BY <1>4 DEF CommitArea, RegistryInv, RegistryOK, row
  <2> HIDE DEF a
  <2>2. RegistryTypeOK'
    BY <1>1, <1>2, <2>1 DEF RegistryInv, RegistryTypeOK
  <2>3. \A c \in DOMAIN row : row[c] # area[a][c] => <<a, c>> \in columns
    BY DEF Differing
  <2>4. row.is_archived # area[a].is_archived => <<a, "is_archived">> \in columns
    BY <1>2, <2>3 DEF AreaRow
  <2> HIDE DEF columns
  <2>5. \A u \in Thread : changed'[u] = changed[u] \cup columns => Tracked(u)
    BY <1>1, <2>1, <2>4 DEF Tracked
  <2> QED
    BY <1>3, <2>1, <2>2, <2>5, RegistryCommits
<1>5. CASE CommitCreateArea(t)
  <2>1. PICK a \in Area \ DOMAIN area :
          /\ area' = With(area, a, row)
          /\ Commit(t, NoRequest, {a} \X DOMAIN row)
    BY <1>5 DEF CommitCreateArea, row
  <2>2. /\ DOMAIN area' = DOMAIN area \cup {a} /\ area'[a] = row
        /\ \A b \in DOMAIN area : area'[b] = area[b]
        /\ area' = [i \in DOMAIN area' |-> area'[i]]
    BY <2>1 DEF With
  <2>3. RegistryTypeOK'
    BY <1>1, <1>2, <2>2 DEF RegistryInv, RegistryTypeOK
  <2> DEFINE columns == {a} \X DOMAIN row
  <2> HIDE DEF columns
  <2>4. Commit(t, NoRequest, columns)
    BY <2>1 DEF columns
  <2>5. \A u \in Thread : changed'[u] = changed[u] \cup columns => Tracked(u)
    BY <1>1, <2>2 DEF Tracked
  <2> QED
    BY <1>3, <2>3, <2>4, <2>5, RegistryCommits
<1> QED
  BY <1>4, <1>5

LEMMA RegistryStepKeepsRegistry ==
  ASSUME RegistryInv, NEW t \in Thread, RegistryStep(t)
  PROVE  RegistryInv'
<1>1. CASE RegistryAbort(t)
  <2>1. Stepped(t, NoRequest, {}) /\ changed' = changed /\ UNCHANGED registryVars
    BY <1>1, ContinueSteps DEF RegistryAbort, RegistryInv
  <2>2. RegistryTypeOK' /\ SharedMachineNameMeansOverlap' /\ RequestsOK'
    BY <1>1, <2>1, RegistryStepMoves
    DEF RegistryStep, Moved, RegistryInv, RegistryTypeOK, SharedMachineNameMeansOverlap,
        LiveEquipment, registryVars
  <2>3. request'[t].op = "none" /\ \A u \in Thread \ {t} : request'[u] = request[u]
    BY <2>1, NoRequestHasOp DEF Stepped
  <2>4. RegistryOK(t)'
    BY <2>3 DEF RegistryOK, EditsEquipment
  <2>5. ASSUME NEW u \in Thread \ {t}
        PROVE  RegistryOK(u)'
    BY <2>1, <2>3, NothingTracked, OthersKeepRegistryOK DEF RegistryInv
  <2> QED
    BY <2>2, <2>4, <2>5 DEF RegistryInv
<1> QED
  BY <1>1, RegistryBeginKeeps, CommitAreaKeeps, CommitEquipmentKeeps,
     CommitCreateEquipmentKeeps
  DEF RegistryStep

-----------------------------------------------------------------------------
LEMMA RequestsInitially ==
  ASSUME Init
  PROVE  /\ RequestsOK
         /\ \A t \in Thread : request[t].op = "none"
  BY DEF Init, RequestsInit, RequestsOK, NoRequest

LEMMA RegistryInitially ==
  ASSUME Init
  PROVE  RegistryInv
<1>1. \A t \in Thread : RegistryOK(t)
  BY RequestsInitially DEF RegistryOK, EditsEquipment
<1>2. PICK a \in Area, name \in AreaName :
        area = [i \in {a} |-> [name |-> name, is_archived |-> FALSE]]
  BY DEF Init, RegistryInit
<1>3. PICK e \in Equipment, m \in InitialNames :
        equipment = [i \in {e} |-> [area_id |-> a, mac_machine_name |-> m,
                                    is_archived |-> FALSE]]
  <2>1. DOMAIN area = {a}
    BY <1>2
  <2>2. PICK e \in Equipment, b \in DOMAIN area, m \in InitialNames :
          equipment = [i \in {e} |-> [area_id |-> b, mac_machine_name |-> m,
                                      is_archived |-> FALSE]]
    BY DEF Init, RegistryInit
  <2>3. b = a
    BY <2>1
  <2> QED
    BY <2>2, <2>3
<1>4. raced = {} /\ m \in MachineName \cup {NULL}
  BY RegistryAssumption DEF Init, RegistryInit
<1>5. RegistryTypeOK
  BY <1>2, <1>3, <1>4 DEF RegistryTypeOK, AreaRow, EquipmentRow
<1>6. SharedMachineNameMeansOverlap
  BY <1>3 DEF SharedMachineNameMeansOverlap
<1> QED
  BY <1>1, <1>5, <1>6, RequestsInitially DEF RegistryInv

\* Steps that move no request, or all of them away.
LEMMA StillKeepsRegistry ==
  ASSUME RegistryInv, UNCHANGED registryVars, RequestsOK',
         \/ UNCHANGED <<request, changed>>
         \/ \A t \in Thread : request'[t].op = "none"
  PROVE  RegistryInv'
<1>1. RegistryTypeOK' /\ SharedMachineNameMeansOverlap'
  BY DEF RegistryInv, RegistryTypeOK, SharedMachineNameMeansOverlap, LiveEquipment,
         registryVars
<1>2. ASSUME NEW t \in Thread
      PROVE  RegistryOK(t)'
  <2>1. CASE request'[t].op = "none"
    BY <2>1 DEF RegistryOK, EditsEquipment
  <2>2. CASE request'[t] = request[t] /\ changed' = changed
    BY <2>2, NothingTracked, OthersKeepRegistryOK DEF RegistryInv
  <2> QED
    BY <2>1, <2>2
<1> QED
  BY <1>1, <1>2 DEF RegistryInv

LEMMA RestartEmpties ==
  ASSUME RequestsOK, Restart
  PROVE  RequestsOK' /\ desk' = desk /\ \A t \in Thread : request'[t].op = "none"
  BY DEF Restart, RequestsOK, NoRequest

LEMMA RegistryInvariant == RegistryInv /\ [Next]_vars => RegistryInv'
<1> SUFFICES ASSUME RegistryInv, [Next]_vars PROVE RegistryInv'
  OBVIOUS
<1>1. RequestsOK
  BY DEF RegistryInv
<1>2. ASSUME NEW t \in Thread, RegistryStep(t)
      PROVE  RegistryInv'
  BY <1>2, RegistryStepKeepsRegistry
<1>3. ASSUME NEW t \in Thread, AttachmentStep(t)
      PROVE  RegistryInv'
  <2>1. UNCHANGED registryVars
    BY <1>3
    DEF AttachmentStep, AddLink, AddNote, UploadDocument, UploadPhoto, DeleteLink,
        DeleteDocument, DeletePhoto, BeginAttachment, CommitLink, CommitNote, Attach,
        SaveFile, InsertDocument, RemoveFile, DeleteDocumentRow, DeleteLinkRow, DeleteRow,
        AttachmentAbort
  <2>2. (AttachmentOps \cup None) \cap RegistryOps = {}
    BY DEF AttachmentOps, None, RegistryOps
  <2> QED
    BY <1>1, <1>3, <2>1, <2>2, AttachmentStepMoves, ElsewhereKeepsRegistry
<1>4. ASSUME NEW t \in Thread, AccountStep(t), UNCHANGED registryVars
      PROVE  RegistryInv'
  <2>1. (AccountOps \cup None) \cap RegistryOps = {}
    BY DEF AccountOps, None, RegistryOps
  <2> QED
    BY <1>1, <1>4, <2>1, AccountStepMoves, ElsewhereKeepsRegistry
<1>5. ASSUME NEW t \in Thread, SettingsStep(t), UNCHANGED registryVars
      PROVE  RegistryInv'
  <2>1. (SettingsOps \cup None) \cap RegistryOps = {}
    BY DEF SettingsOps, None, RegistryOps
  <2> QED
    BY <1>1, <1>5, <2>1, SettingsStepMoves, ElsewhereKeepsRegistry
<1>6. CASE SeedAdmin /\ UNCHANGED registryVars
  BY <1>1, <1>6, StillKeepsRegistry DEF SeedAdmin, requestVars, RequestsOK
<1>7. CASE ReadVersion /\ UNCHANGED registryVars
  BY <1>1, <1>7, StillKeepsRegistry DEF ReadVersion, requestVars, RequestsOK
<1>8. CASE Restart /\ UNCHANGED registryVars
  BY <1>1, <1>8, RestartEmpties, StillKeepsRegistry
<1>9. CASE UNCHANGED vars
  BY <1>1, <1>9, StillKeepsRegistry DEF vars, requestVars, RequestsOK
<1> QED
  BY <1>2, <1>3, <1>4, <1>5, <1>6, <1>7, <1>8, <1>9 DEF Next, registryDesk

\* A machine is linked to one live piece of equipment at a time, whatever the spelling,
\* unless the two links were saved by overlapping requests.
THEOREM MachineNamesAreUnique == Spec => []SharedMachineNameMeansOverlap
<1>1. RegistryInv => SharedMachineNameMeansOverlap
  BY DEF RegistryInv
<1>2. Init => RegistryInv
  BY RegistryInitially
<1> QED
  BY <1>1, <1>2, RegistryInvariant, PTL DEF Spec

-----------------------------------------------------------------------------
(* Links, notes, documents and photos.                                     *)

RowOps == {"insert_document", "remove_file", "delete"}

LateIfArchived(t, e) == equipment[e].is_archived => Overtaken(t, e, "is_archived")

\* What a thread holds of attachments: it looked whether the equipment is archived.
AttachmentOK(t) ==
  LET r == request[t] IN
  /\ r.op \in {"attach", "upload", "insert_document"} =>
       /\ r.to \in ItemRow
       /\ r.to.equipment_id \in DOMAIN equipment
       /\ LateIfArchived(t, r.to.equipment_id)
  /\ r.op \in {"upload", "insert_document"} => r.to.kind \in UploadKinds
  /\ r.op \in RowOps => r.row \in Item \ unused
  /\ r.op = "insert_document" => r.row \in files /\ item[r.row] = NULL
  /\ r.op = "delete" => r.row \notin files
  /\ r.op \in {"remove_file", "delete"} /\ item[r.row] # NULL =>
       LateIfArchived(t, item[r.row].equipment_id)

\* Nobody else works on a row that is being inserted.
InsertsAlone ==
  \A t \in Thread, u \in Thread :
    t # u /\ request[t].op = "insert_document" /\ request[u].op \in RowOps
      => request[t].row # request[u].row

ItemsOK ==
  /\ AttachmentTypeOK
  /\ \A i \in Item : item[i] # NULL => item[i].equipment_id \in DOMAIN equipment
  /\ \A i \in Item : item[i] # NULL /\ item[i].kind \notin UploadKinds => i \notin files
  /\ \A i \in unused : i \notin files /\ item[i] = NULL

AttachmentInv ==
  /\ RegistryInv
  /\ ItemsOK
  /\ \A t \in Thread : AttachmentOK(t)
  /\ InsertsAlone
  /\ FilesMatchRows

\* That equipment is archived is recorded in changed[u].
ArchivingTracked(u) ==
  /\ changed[u] \subseteq changed'[u]
  /\ DOMAIN equipment \subseteq DOMAIN equipment'
  /\ \A e \in DOMAIN equipment :
       equipment'[e].is_archived
         => equipment[e].is_archived \/ <<e, "is_archived">> \in changed'[u]

\* The row that u works on is left alone by others, or deleted.
RowKept(u) ==
  LET i == request[u].row IN
  request[u].op \in RowOps =>
    /\ item'[i] \in {item[i], NULL}
    /\ i \in files' => i \in files
    /\ request[u].op = "insert_document" => i \in files'

LEMMA OthersKeepAttachmentOK ==
  ASSUME ItemsOK, NEW u, AttachmentOK(u), request'[u] = request[u],
         Idle(u) \/ ArchivingTracked(u), unused' \subseteq unused, RowKept(u)
  PROVE  AttachmentOK(u)'
<1>1. CASE Idle(u)
  <2>1. request'[u].op = "none"
    BY <1>1, NoRequestHasOp DEF Idle
  <2> QED
    BY <2>1 DEF AttachmentOK, RowOps
<1>2. CASE ArchivingTracked(u)
  <2> DEFINE r == request[u]
             Told(e) == equipment'[e].is_archived => <<e, "is_archived">> \in changed'[u]
  <2>1. ASSUME NEW e \in DOMAIN equipment, LateIfArchived(u, e)
        PROVE  Told(e)
    BY <1>2, <2>1 DEF ArchivingTracked, LateIfArchived, Overtaken
  <2> HIDE DEF Told
  <2>2. DOMAIN equipment \subseteq DOMAIN equipment'
    BY <1>2 DEF ArchivingTracked
  <2>3. r.op \in {"attach", "upload", "insert_document"} =>
          /\ r.to \in ItemRow
          /\ r.to.equipment_id \in DOMAIN equipment'
          /\ Told(r.to.equipment_id)
    BY <2>1, <2>2 DEF AttachmentOK
  <2>4. r.op \in {"remove_file", "delete"} /\ item'[r.row] # NULL
          => Told(item'[r.row].equipment_id)
    BY <2>1 DEF RowKept, RowOps, AttachmentOK, ItemsOK
  <2>5. /\ r.op \in {"upload", "insert_document"} => r.to.kind \in UploadKinds
        /\ r.op \in RowOps => r.row \in Item \ unused'
        /\ r.op = "insert_document" => r.row \in files' /\ item'[r.row] = NULL
        /\ r.op = "delete" => r.row \notin files'
    BY DEF AttachmentOK, RowKept, RowOps
  <2> QED
    BY <2>3, <2>4, <2>5 DEF AttachmentOK, LateIfArchived, Overtaken, Told
<1> QED
  BY <1>1, <1>2

\* FilesMatchRows, of one item.
Matches(i) ==
  \/ i \in cutOff
  \/ \E t \in Thread :
       request[t].op \in {"insert_document", "delete"} /\ request[t].row = i
  \/ (i \in files) <=> (item[i] # NULL /\ item[i].kind \in UploadKinds)

LEMMA MatchesSuffices ==
  /\ FilesMatchRows <=> \A i \in Item : Matches(i)
  /\ FilesMatchRows' <=> \A i \in Item : Matches(i)'
  BY DEF FilesMatchRows, Matches

\* What t does not touch.
LEMMA UntouchedMatches ==
  ASSUME NEW i \in Item, Matches(i), NEW t \in Thread,
         \A u \in Thread \ {t} : request'[u] = request[u],
         request[t].op \in {"insert_document", "delete"} => request[t].row # i,
         cutOff \subseteq cutOff', i \in files' <=> i \in files, item'[i] = item[i]
  PROVE  Matches(i)'
<1>1. CASE \E u \in Thread :
             request[u].op \in {"insert_document", "delete"} /\ request[u].row = i
  <2>1. PICK u \in Thread \ {t} :
          request[u].op \in {"insert_document", "delete"} /\ request[u].row = i
    BY <1>1
  <2> QED
    BY <2>1 DEF Matches
<1>2. CASE i \in cutOff \/ ((i \in files) <=> (item[i] # NULL /\ item[i].kind \in UploadKinds))
  BY <1>2 DEF Matches
<1> QED
  BY <1>1, <1>2 DEF Matches

\* Steps of the registry and of other desks.
LEMMA ElsewhereKeepsAttachments ==
  ASSUME AttachmentInv, RegistryInv', NEW t \in Thread, NEW ops, Moved(t, ops),
         ops \cap AttachmentOps = {}, UNCHANGED attachmentVars,
         \A u \in Thread \ {t} : Idle(u) \/ ArchivingTracked(u),
         DOMAIN equipment \subseteq DOMAIN equipment'
  PROVE  AttachmentInv'
<1>1. UNCHANGED <<item, unused, files, cutOff>>
  BY DEF attachmentVars
<1>2. /\ \A u \in Thread \ {t} : request'[u] = request[u]
      /\ request[t].op \notin AttachmentOps /\ request'[t].op \notin AttachmentOps
  BY DEF Moved
<1>3. ItemsOK'
  BY <1>1 DEF AttachmentInv, ItemsOK, AttachmentTypeOK
<1>4. AttachmentOK(t)'
  BY <1>2 DEF AttachmentOK, AttachmentOps, RowOps
<1>5. ASSUME NEW u \in Thread \ {t}
      PROVE  AttachmentOK(u)'
  <2>1. RowKept(u)
    BY <1>1 DEF RowKept, AttachmentInv, AttachmentOK, RowOps
  <2> QED
    BY <1>1, <1>2, <2>1, OthersKeepAttachmentOK DEF AttachmentInv
<1>6. InsertsAlone'
  BY <1>2 DEF AttachmentInv, InsertsAlone, AttachmentOps, RowOps
<1>7. FilesMatchRows'
  BY <1>1, <1>2, MatchesSuffices, UntouchedMatches DEF AttachmentInv, AttachmentOps
<1> QED
  BY <1>3, <1>4, <1>5, <1>6, <1>7 DEF AttachmentInv

\* What an attachment step leaves to be shown: the items it touches, and its own request.
LEMMA AttachmentSteps ==
  ASSUME AttachmentInv, RegistryInv', UNCHANGED registryVars,
         NEW t \in Thread, Moved(t, AttachmentOps \cup None),
         NEW I, \A j \in Item \ I : item'[j] = item[j] /\ (j \in files' <=> j \in files),
         unused' \subseteq unused, cutOff \subseteq cutOff',
         request[t].op \in {"insert_document", "delete"} => request[t].row \in I,
         ItemsOK', AttachmentOK(t)', InsertsAlone',
         \A u \in Thread \ {t} : RowKept(u),
         \A i \in I \cap Item : Matches(i)'
  PROVE  AttachmentInv'
<1>1. \A u \in Thread \ {t} : request'[u] = request[u]
  BY DEF Moved
<1>2. ASSUME NEW u \in Thread \ {t}
      PROVE  AttachmentOK(u)'
  <2>1. Idle(u) \/ ArchivingTracked(u)
    BY DEF Moved, ArchivingTracked, registryVars
  <2> QED
    BY <1>1, <2>1, OthersKeepAttachmentOK DEF AttachmentInv
<1>3. ASSUME NEW j \in Item \ I
      PROVE  Matches(j)'
  BY <1>1, MatchesSuffices, UntouchedMatches DEF AttachmentInv
<1>4. FilesMatchRows'
  BY <1>3, MatchesSuffices
<1> QED
  BY <1>2, <1>4 DEF AttachmentInv

LEMMA AttachmentBeginKeeps ==
  ASSUME AttachmentInv, RegistryInv', NEW t \in Thread, NEW e, NEW r,
         BeginAttachment(t, e, r), Moved(t, AttachmentOps \cup None), AttachmentOK(t)',
         r.op \in RowOps => item[r.row] # NULL,
         r.op # "insert_document"
  PROVE  AttachmentInv'
<1>1. /\ UNCHANGED registryVars /\ UNCHANGED <<item, unused, files, cutOff>>
      /\ request[t].op = "none" /\ request'[t] = r
  BY BeginSteps, NoRequestHasOp
  DEF BeginAttachment, attachmentVars, Idle, AttachmentInv, RegistryInv, Stepped
<1>2. ItemsOK'
  BY <1>1 DEF AttachmentInv, ItemsOK, AttachmentTypeOK, registryVars
<1>3. InsertsAlone'
  BY <1>1 DEF AttachmentInv, InsertsAlone, Moved, AttachmentOK
<1>4. \A u \in Thread \ {t} : RowKept(u)
  BY <1>1 DEF RowKept, AttachmentInv, AttachmentOK, RowOps
<1> DEFINE I == {}
<1>5. /\ \A j \in Item \ I : item'[j] = item[j] /\ (j \in files' <=> j \in files)
      /\ \A i \in I \cap Item : Matches(i)'
      /\ request[t].op \in {"insert_document", "delete"} => request[t].row \in I
      /\ unused' \subseteq unused /\ cutOff \subseteq cutOff'
  BY <1>1
<1> HIDE DEF I
<1> QED
  BY <1>1, <1>2, <1>3, <1>4, <1>5, AttachmentSteps

LEMMA AddKeeps ==
  ASSUME AttachmentInv, RegistryInv', NEW t \in Thread,
         Moved(t, AttachmentOps \cup None),
         AddLink(t) \/ AddNote(t) \/ UploadDocument(t) \/ UploadPhoto(t)
  PROVE  AttachmentInv'
<1>1. PICK e \in DOMAIN equipment, op \in {"attach", "upload"}, kind \in Kinds :
        /\ op = "upload" => kind \in UploadKinds
        /\ BeginAttachment(t, e, [op |-> op, to |-> [kind |-> kind, equipment_id |-> e]])
  BY DEF AddLink, AddNote, UploadDocument, UploadPhoto, Kinds, UploadKinds
<1> DEFINE row == [kind |-> kind, equipment_id |-> e]
           r == [op |-> op, to |-> row]
<1>2. r.op = op /\ r.to = row /\ BeginAttachment(t, e, r)
  BY <1>1
<1>3. row \in ItemRow /\ row.kind = kind /\ row.equipment_id = e
  BY DEF ItemRow, AttachmentInv, RegistryInv, RegistryTypeOK
<1> HIDE DEF row, r
<1>4. /\ LiveEquipment(e) /\ UNCHANGED registryVars /\ request'[t] = r
  BY <1>2, BeginSteps DEF BeginAttachment, AttachmentInv, RegistryInv, Stepped
<1>5. AttachmentOK(t)'
  BY <1>1, <1>2, <1>3, <1>4
  DEF AttachmentOK, LateIfArchived, LiveEquipment, RowOps, registryVars
<1> QED
  BY <1>1, <1>2, <1>5, AttachmentBeginKeeps DEF RowOps

LEMMA DeleteKeeps ==
  ASSUME AttachmentInv, RegistryInv', NEW t \in Thread,
         Moved(t, AttachmentOps \cup None),
         DeleteLink(t) \/ DeleteDocument(t) \/ DeletePhoto(t)
  PROVE  AttachmentInv'
<1>1. PICK i \in Item, op \in {"delete", "remove_file"} :
        /\ item[i] # NULL
        /\ op = "delete" => item[i].kind = "link"
        /\ BeginAttachment(t, item[i].equipment_id, [op |-> op, row |-> i])
  BY DEF DeleteLink, DeleteDocument, DeletePhoto
<1> DEFINE r == [op |-> op, row |-> i]
           e == item[i].equipment_id
<1>2. r.op = op /\ r.row = i /\ BeginAttachment(t, e, r)
  BY <1>1
<1> HIDE DEF r
<1>3. /\ LiveEquipment(e) /\ UNCHANGED <<area, equipment, item, unused, files>>
      /\ request'[t] = r
  BY <1>2, BeginSteps
  DEF BeginAttachment, AttachmentInv, RegistryInv, Stepped, registryVars, attachmentVars
<1>4. i \notin unused /\ (op = "delete" => i \notin files)
  BY <1>1 DEF AttachmentInv, ItemsOK, UploadKinds
<1>5. AttachmentOK(t)'
  BY <1>1, <1>2, <1>3, <1>4
  DEF AttachmentOK, LateIfArchived, LiveEquipment, RowOps
<1> HIDE DEF e
<1> QED
  BY <1>1, <1>2, <1>5, AttachmentBeginKeeps

\* A thread that has finished holds nothing.
LEMMA FinishedOK ==
  ASSUME RequestsOK, NEW t \in Thread, NEW columns,
         Stepped(t, NoRequest, columns), InsertsAlone
  PROVE  AttachmentOK(t)' /\ InsertsAlone'
<1>1. request'[t].op = "none" /\ \A u \in Thread \ {t} : request'[u] = request[u]
  BY NoRequestHasOp DEF Stepped
<1> QED
  BY <1>1 DEF AttachmentOK, InsertsAlone, RowOps

LEMMA AttachKeeps ==
  ASSUME AttachmentInv, RegistryInv', NEW t \in Thread,
         Moved(t, AttachmentOps \cup None), CommitLink(t) \/ CommitNote(t)
  PROVE  AttachmentInv'
<1> DEFINE row == request[t].to
<1>1. PICK i \in unused :
        /\ item' = [item EXCEPT ![i] = row]
        /\ unused' = unused \ {i}
  BY DEF CommitLink, CommitNote, Attach
<1>2. /\ request[t].op = "attach" /\ row.kind \notin UploadKinds
      /\ UNCHANGED registryVars /\ UNCHANGED <<files, cutOff>>
      /\ Commit(t, NoRequest, {})
  BY DEF CommitLink, CommitNote, Attach, UploadKinds
<1>3. row \in ItemRow /\ row.equipment_id \in DOMAIN equipment
  BY <1>2 DEF AttachmentInv, AttachmentOK
<1> HIDE DEF row
<1>4. /\ i \in Item /\ i \notin files
      /\ \A j \in Item \ {i} : item'[j] = item[j]
      /\ item'[i] = row /\ item' \in [Item -> ItemRow \cup {NULL}]
  BY <1>1, <1>3 DEF AttachmentInv, ItemsOK, AttachmentTypeOK
<1>5. ItemsOK'
  BY <1>1, <1>2, <1>3, <1>4
  DEF AttachmentInv, ItemsOK, AttachmentTypeOK, registryVars
<1>6. AttachmentOK(t)' /\ InsertsAlone'
  BY <1>2, CommitSteps, FinishedOK DEF AttachmentInv, RegistryInv
<1>7. \A u \in Thread \ {t} : RowKept(u)
  BY <1>1, <1>2, <1>4 DEF RowKept, AttachmentInv, AttachmentOK
<1>8. Matches(i)'
  BY <1>2, <1>4 DEF Matches
<1> DEFINE I == {i}
<1>9. /\ \A j \in Item \ I : item'[j] = item[j] /\ (j \in files' <=> j \in files)
      /\ \A j \in I \cap Item : Matches(j)'
      /\ request[t].op \in {"insert_document", "delete"} => request[t].row \in I
      /\ unused' \subseteq unused /\ cutOff \subseteq cutOff'
  BY <1>1, <1>2, <1>4, <1>8
<1> HIDE DEF I
<1> QED
  BY <1>2, <1>5, <1>6, <1>7, <1>9, AttachmentSteps

LEMMA SaveFileKeeps ==
  ASSUME AttachmentInv, RegistryInv', NEW t \in Thread,
         Moved(t, AttachmentOps \cup None), SaveFile(t)
  PROVE  AttachmentInv'
<1>1. PICK i \in unused :
        /\ files' = files \cup {i}
        /\ unused' = unused \ {i}
        /\ Continue(t, [op |-> "insert_document", row |-> i, to |-> request[t].to])
  BY DEF SaveFile
<1>2. /\ request[t].op = "upload"
      /\ UNCHANGED registryVars /\ UNCHANGED <<item, cutOff>>
  BY DEF SaveFile
<1> DEFINE r == [op |-> "insert_document", row |-> i, to |-> request[t].to]
<1>3. r.op = "insert_document" /\ r.row = i /\ r.to = request[t].to
  OBVIOUS
<1>4. /\ request'[t] = r /\ changed' = changed
      /\ \A u \in Thread \ {t} : request'[u] = request[u]
  BY <1>1, ContinueSteps DEF Stepped, AttachmentInv, RegistryInv
<1> HIDE DEF r
<1>5. i \in Item /\ i \notin files /\ item[i] = NULL
  BY DEF AttachmentInv, ItemsOK, AttachmentTypeOK
<1>6. ItemsOK'
  BY <1>1, <1>2, <1>5 DEF AttachmentInv, ItemsOK, AttachmentTypeOK, registryVars
<1>7. AttachmentOK(t)'
  BY <1>1, <1>2, <1>3, <1>4, <1>5
  DEF AttachmentInv, AttachmentOK, LateIfArchived, Overtaken, RowOps, registryVars
<1>8. InsertsAlone'
  BY <1>2, <1>3, <1>4 DEF AttachmentInv, InsertsAlone, AttachmentOK, RowOps
<1>9. \A u \in Thread \ {t} : RowKept(u)
  BY <1>1, <1>2 DEF RowKept, AttachmentInv, AttachmentOK
<1>10. Matches(i)'
  BY <1>3, <1>4 DEF Matches
<1> DEFINE I == {i}
<1>11. /\ \A j \in Item \ I : item'[j] = item[j] /\ (j \in files' <=> j \in files)
       /\ \A j \in I \cap Item : Matches(j)'
       /\ request[t].op \in {"insert_document", "delete"} => request[t].row \in I
       /\ unused' \subseteq unused /\ cutOff \subseteq cutOff'
  BY <1>1, <1>2, <1>10
<1> HIDE DEF I
<1> QED
  BY <1>2, <1>6, <1>7, <1>8, <1>9, <1>11, AttachmentSteps

\* The steps that end with the row in hand: inserted, its file removed, deleted, or
\* the request cut off.
LEMMA RowStepKeeps ==
  ASSUME AttachmentInv, RegistryInv', NEW t \in Thread,
         Moved(t, AttachmentOps \cup None),
         \/ InsertDocument(t) \/ RemoveFile(t)
         \/ DeleteDocumentRow(t) \/ DeleteLinkRow(t)
  PROVE  AttachmentInv'
<1>0. PICK i : i = request[t].row
  OBVIOUS
<1> DEFINE I == {i}
<1>1. /\ UNCHANGED <<unused, cutOff>> /\ UNCHANGED registryVars
      /\ request[t].op \in RowOps
  BY <1>0 DEF InsertDocument, RemoveFile, DeleteDocumentRow, DeleteLinkRow, DeleteRow, RowOps
<1>2. /\ i \in Item /\ i \notin unused
      /\ item \in [Item -> ItemRow \cup {NULL}]
  BY <1>0, <1>1 DEF AttachmentInv, AttachmentOK, ItemsOK, AttachmentTypeOK
<1>3. CASE InsertDocument(t)
  <2> DEFINE row == request[t].to
  <2>1. /\ request[t].op = "insert_document" /\ item' = [item EXCEPT ![i] = row]
        /\ Commit(t, NoRequest, {}) /\ files' = files
    BY <1>0, <1>3 DEF InsertDocument
  <2>2. /\ row \in ItemRow /\ row.equipment_id \in DOMAIN equipment
        /\ row.kind \in UploadKinds /\ i \in files /\ item[i] = NULL
    BY <1>0, <2>1 DEF AttachmentInv, AttachmentOK
  <2> HIDE DEF row
  <2>3. /\ item' \in [Item -> ItemRow \cup {NULL}] /\ item'[i] = row
        /\ \A j \in Item \ {i} : item'[j] = item[j]
    BY <1>0, <1>2, <2>1, <2>2
  <2>4. ItemsOK'
    BY <1>0, <1>1, <1>2, <2>1, <2>2, <2>3
    DEF AttachmentInv, ItemsOK, AttachmentTypeOK, registryVars
  <2>5. AttachmentOK(t)' /\ InsertsAlone'
    BY <1>0, <2>1, CommitSteps, FinishedOK DEF AttachmentInv, RegistryInv
  <2>6. \A u \in Thread \ {t} : RowKept(u)
    BY <1>0, <2>1, <2>3 DEF RowKept, AttachmentInv, AttachmentOK, InsertsAlone
  <2>7. Matches(i)'
    <3>1. item'[i] # NULL
      BY <1>0, <2>2, <2>3, AttachmentsAssumption
    <3> QED
      BY <1>0, <2>1, <2>2, <2>3, <3>1 DEF Matches
  <2>8. /\ \A j \in Item \ I : item'[j] = item[j] /\ (j \in files' <=> j \in files)
        /\ \A j \in I \cap Item : Matches(j)'
        /\ request[t].op \in {"insert_document", "delete"} => request[t].row \in I
        /\ unused' \subseteq unused /\ cutOff \subseteq cutOff'
    BY <1>0, <1>1, <2>1, <2>3, <2>7
  <2> HIDE DEF I
  <2> QED
    BY <1>1, <2>4, <2>5, <2>6, <2>8, AttachmentSteps
<1>4. CASE RemoveFile(t)
  <2> DEFINE r == [op |-> "delete", row |-> i]
  <2>1. /\ request[t].op = "remove_file" /\ files' = files \ {i}
        /\ Continue(t, r) /\ item' = item
    BY <1>0, <1>4 DEF RemoveFile
  <2>2. r.op = "delete" /\ r.row = i
    OBVIOUS
  <2> HIDE DEF r
  <2>3. /\ request'[t] = r /\ changed' = changed
        /\ \A u \in Thread \ {t} : request'[u] = request[u]
    BY <1>0, <2>1, ContinueSteps DEF Stepped, AttachmentInv, RegistryInv
  <2>4. ItemsOK'
    BY <1>0, <1>1, <2>1 DEF AttachmentInv, ItemsOK, AttachmentTypeOK, registryVars
  <2>5. AttachmentOK(t)'
    BY <1>0, <1>1, <1>2, <2>1, <2>2, <2>3
    DEF AttachmentInv, AttachmentOK, LateIfArchived, Overtaken, RowOps, registryVars
  <2>6. InsertsAlone'
    BY <1>0, <2>1, <2>2, <2>3 DEF AttachmentInv, InsertsAlone, RowOps
  <2>7. \A u \in Thread \ {t} : RowKept(u)
    BY <1>0, <1>1, <2>1 DEF RowKept, AttachmentInv, AttachmentOK, InsertsAlone, RowOps
  <2>8. Matches(i)'
    BY <1>0, <2>2, <2>3 DEF Matches
  <2>9. /\ \A j \in Item \ I : item'[j] = item[j] /\ (j \in files' <=> j \in files)
        /\ \A j \in I \cap Item : Matches(j)'
        /\ request[t].op \in {"insert_document", "delete"} => request[t].row \in I
        /\ unused' \subseteq unused /\ cutOff \subseteq cutOff'
    BY <1>0, <1>1, <2>1, <2>8
  <2> HIDE DEF I
  <2> QED
    BY <1>1, <2>4, <2>5, <2>6, <2>7, <2>9, AttachmentSteps
<1>5. CASE DeleteDocumentRow(t) \/ DeleteLinkRow(t)
  <2>1. /\ request[t].op = "delete" /\ item' = [item EXCEPT ![i] = NULL]
        /\ Commit(t, NoRequest, {}) /\ files' = files
    BY <1>0, <1>5 DEF DeleteDocumentRow, DeleteLinkRow, DeleteRow
  <2>2. i \notin files
    BY <1>0, <2>1 DEF AttachmentInv, AttachmentOK
  <2>3. /\ item' \in [Item -> ItemRow \cup {NULL}] /\ item'[i] = NULL
        /\ \A j \in Item \ {i} : item'[j] = item[j]
    BY <1>0, <1>2, <2>1
  <2>4. ItemsOK'
    BY <1>0, <1>1, <1>2, <2>1, <2>2, <2>3
    DEF AttachmentInv, ItemsOK, AttachmentTypeOK, registryVars
  <2>5. AttachmentOK(t)' /\ InsertsAlone'
    BY <1>0, <2>1, CommitSteps, FinishedOK DEF AttachmentInv, RegistryInv
  <2>6. \A u \in Thread \ {t} : RowKept(u)
    BY <1>0, <2>1, <2>3 DEF RowKept, AttachmentInv, AttachmentOK
  <2>7. Matches(i)'
    BY <1>0, <2>1, <2>2, <2>3 DEF Matches
  <2>8. /\ \A j \in Item \ I : item'[j] = item[j] /\ (j \in files' <=> j \in files)
        /\ \A j \in I \cap Item : Matches(j)'
        /\ request[t].op \in {"insert_document", "delete"} => request[t].row \in I
        /\ unused' \subseteq unused /\ cutOff \subseteq cutOff'
    BY <1>0, <1>1, <2>1, <2>3, <2>7
  <2> HIDE DEF I
  <2> QED
    BY <1>1, <2>4, <2>5, <2>6, <2>8, AttachmentSteps
<1> QED
  BY <1>3, <1>4, <1>5

LEMMA AttachmentAbortKeeps ==
  ASSUME AttachmentInv, RegistryInv', NEW t \in Thread,
         Moved(t, AttachmentOps \cup None), AttachmentAbort(t)
  PROVE  AttachmentInv'
<1> DEFINE I == IF request[t].op \in {"insert_document", "delete"} THEN {request[t].row}
                                                                   ELSE {}
<1>1. /\ UNCHANGED <<item, unused, files>> /\ UNCHANGED registryVars
      /\ Continue(t, NoRequest) /\ cutOff' = cutOff \cup I
  BY DEF AttachmentAbort
<1>2. I \subseteq Item
  BY DEF AttachmentInv, AttachmentOK, RowOps
<1>3. request[t].op \in {"insert_document", "delete"} => request[t].row \in I
  OBVIOUS
<1> HIDE DEF I
<1>4. ItemsOK'
  BY <1>1, <1>2 DEF AttachmentInv, ItemsOK, AttachmentTypeOK, registryVars
<1>5. AttachmentOK(t)' /\ InsertsAlone'
  BY <1>1, ContinueSteps, FinishedOK DEF AttachmentInv, RegistryInv
<1>6. \A u \in Thread \ {t} : RowKept(u)
  BY <1>1 DEF RowKept, AttachmentInv, AttachmentOK, RowOps
<1>7. \A i \in I : Matches(i)'
  BY <1>1 DEF Matches
<1> QED
  BY <1>1, <1>3, <1>4, <1>5, <1>6, <1>7, AttachmentSteps

\* Requests of the registry tell the others what they archive.
LEMMA RegistryStepTracked ==
  ASSUME RegistryInv, NEW t \in Thread, RegistryStep(t)
  PROVE  /\ DOMAIN equipment \subseteq DOMAIN equipment'
         /\ \A u \in Thread \ {t} : Idle(u) \/ ArchivingTracked(u)
<1>1. \A u \in Thread \ {t} : Idle(u) \/ changed[u] \subseteq changed'[u]
  BY RegistryStepMoves DEF Moved, RegistryInv
<1>2. CASE equipment' = equipment
  BY <1>1, <1>2 DEF ArchivingTracked
<1>3. CASE CommitEquipment(t)
  <2> DEFINE e == request[t].row
             row == request[t].to
             columns == Differing(e, equipment[e], row)
  <2>1. /\ request[t].op = "save_equipment" /\ Unchanged(t, e)
        /\ equipment' = [equipment EXCEPT ![e] = row]
        /\ Commit(t, NoRequest, columns)
        /\ area' = area
    BY <1>3 DEF CommitEquipment
  <2>2. /\ e \in DOMAIN equipment /\ ~equipment[e].is_archived /\ row \in EquipmentRow
    BY <2>1 DEF RegistryInv, RegistryOK, EditsEquipment
  <2> HIDE DEF e, row
  <2>3. ASSUME NEW u, changed'[u] = changed[u] \cup columns
        PROVE  Tracked(u)
    BY <2>1, <2>2, <2>3, SavedRowTracked DEF RegistryInv
  <2> HIDE DEF columns
  <2>4. \A u \in Thread \ {t} : Idle(u) \/ changed'[u] = changed[u] \cup columns
    BY <2>1, CommitSteps DEF RegistryInv, Stepped
  <2>5. \A u : Tracked(u) => ArchivingTracked(u)
    BY DEF Tracked, ArchivingTracked
  <2> QED
    BY <2>1, <2>3, <2>4, <2>5
<1>4. CASE CommitCreateEquipment(t)
  BY <1>1, <1>4 DEF CommitCreateEquipment, With, ArchivingTracked
<1>5. equipment' = equipment \/ CommitEquipment(t) \/ CommitCreateEquipment(t)
  BY DEF RegistryStep, CreateArea, EditArea, ArchiveArea, CreateEquipment, EditEquipment,
         ArchiveEquipment, BeginRegistry, CommitCreateArea, CommitArea, RegistryAbort,
         registryVars
<1> QED
  BY <1>2, <1>3, <1>4, <1>5

LEMMA AttachmentStepKeepsRegistry ==
  ASSUME NEW t \in Thread, AttachmentStep(t)
  PROVE  UNCHANGED registryVars
  BY DEF AttachmentStep, AddLink, AddNote, UploadDocument, UploadPhoto, DeleteLink,
         DeleteDocument, DeletePhoto, BeginAttachment, CommitLink, CommitNote, Attach,
         SaveFile, InsertDocument, RemoveFile, DeleteDocumentRow, DeleteLinkRow, DeleteRow,
         AttachmentAbort

LEMMA AttachmentInitially ==
  ASSUME Init
  PROVE  AttachmentInv
<1>1. /\ item = [i \in Item |-> NULL] /\ unused = Item /\ files = {} /\ cutOff = {}
  BY DEF Init, AttachmentInit
<1>2. (\A t \in Thread : AttachmentOK(t)) /\ InsertsAlone
  BY RequestsInitially DEF AttachmentOK, InsertsAlone, RowOps
<1>3. ItemsOK
  BY <1>1 DEF ItemsOK, AttachmentTypeOK
<1>4. FilesMatchRows
  BY <1>1 DEF FilesMatchRows
<1> QED
  BY <1>2, <1>3, <1>4, RegistryInitially DEF AttachmentInv

LEMMA StillKeepsAttachments ==
  ASSUME AttachmentInv, RegistryInv', UNCHANGED registryVars, UNCHANGED attachmentVars,
         UNCHANGED <<request, changed>>
  PROVE  AttachmentInv'
<1>1. UNCHANGED <<area, equipment, item, unused, files, cutOff>>
  BY DEF registryVars, attachmentVars
<1>2. ItemsOK' /\ InsertsAlone' /\ FilesMatchRows'
  BY <1>1 DEF AttachmentInv, ItemsOK, AttachmentTypeOK, InsertsAlone, FilesMatchRows
<1>3. \A t \in Thread : AttachmentOK(t)'
  BY <1>1 DEF AttachmentInv, AttachmentOK, LateIfArchived, Overtaken
<1> QED
  BY <1>2, <1>3 DEF AttachmentInv

\* No request survives a restart; it happens at another desk.
LEMMA RestartKeepsAttachments ==
  ASSUME AttachmentInv, RegistryInv', UNCHANGED registryVars, UNCHANGED attachmentVars,
         \A t \in Thread : request'[t].op = "none",
         \A t \in Thread : request[t].op \notin AttachmentOps
  PROVE  AttachmentInv'
<1>1. UNCHANGED <<area, equipment, item, unused, files, cutOff>>
  BY DEF registryVars, attachmentVars
<1>2. ItemsOK' /\ InsertsAlone'
  BY <1>1 DEF AttachmentInv, ItemsOK, AttachmentTypeOK, InsertsAlone
<1>3. FilesMatchRows'
  BY <1>1 DEF AttachmentInv, FilesMatchRows, AttachmentOps
<1>4. \A t \in Thread : AttachmentOK(t)'
  BY <1>1 DEF AttachmentOK, RowOps
<1> QED
  BY <1>2, <1>3, <1>4 DEF AttachmentInv

\* Only at the registry.
AtRegistry == \A t \in Thread : request[t].op \in AttachmentOps => desk = "registry"

LEMMA AtRegistryKept ==
  ASSUME RequestsOK, AtRegistry, [Next]_vars
  PROVE  AtRegistry'
<1>1. ASSUME NEW t \in Thread, NEW ops, Moved(t, ops), ops \cap AttachmentOps = {}
      PROVE  AtRegistry'
  BY <1>1 DEF Moved, AtRegistry
<1>2. ASSUME NEW t \in Thread, AttachmentStep(t)
      PROVE  AtRegistry'
  <2>1. desk = "registry"
    BY <1>2
    DEF AttachmentStep, AddLink, AddNote, UploadDocument, UploadPhoto, DeleteLink,
        DeleteDocument, DeletePhoto, BeginAttachment, Begin, CommitLink, CommitNote,
        Attach, SaveFile, InsertDocument, RemoveFile, DeleteDocumentRow, DeleteLinkRow,
        DeleteRow, AttachmentAbort, AtRegistry, AttachmentOps
  <2> QED
    BY <1>2, <2>1, AttachmentStepMoves DEF Moved, AtRegistry
<1>3. ASSUME NEW t \in Thread, RegistryStep(t) \/ AccountStep(t) \/ SettingsStep(t)
      PROVE  AtRegistry'
  <2>1. /\ (RegistryOps \cup None) \cap AttachmentOps = {}
        /\ (AccountOps \cup None) \cap AttachmentOps = {}
        /\ (SettingsOps \cup None) \cap AttachmentOps = {}
    BY DEF RegistryOps, AccountOps, SettingsOps, AttachmentOps, None
  <2> QED
    BY <1>1, <1>3, <2>1, RegistryStepMoves, AccountStepMoves, SettingsStepMoves
<1>4. CASE Restart
  BY <1>4, RestartEmpties DEF AtRegistry, AttachmentOps
<1>5. CASE SeedAdmin \/ ReadVersion \/ UNCHANGED vars
  BY <1>5 DEF SeedAdmin, ReadVersion, vars, requestVars, AtRegistry
<1> QED
  BY <1>2, <1>3, <1>4, <1>5 DEF Next

LEMMA AttachmentInvariant ==
  AttachmentInv /\ AtRegistry /\ [Next]_vars => AttachmentInv'
<1> SUFFICES ASSUME AttachmentInv, AtRegistry, [Next]_vars PROVE AttachmentInv'
  OBVIOUS
<1>1. RegistryInv /\ RequestsOK /\ RegistryInv'
  BY RegistryInvariant DEF AttachmentInv, RegistryInv
<1>2. ASSUME NEW t \in Thread, RegistryStep(t), UNCHANGED attachmentVars
      PROVE  AttachmentInv'
  <2>1. (RegistryOps \cup None) \cap AttachmentOps = {}
    BY DEF AttachmentOps, None, RegistryOps
  <2> QED
    BY <1>1, <1>2, <2>1, RegistryStepMoves, RegistryStepTracked, ElsewhereKeepsAttachments
<1>3. ASSUME NEW t \in Thread, AttachmentStep(t)
      PROVE  AttachmentInv'
  <2>1. Moved(t, AttachmentOps \cup None)
    BY <1>1, <1>3, AttachmentStepMoves
  <2> QED
    BY <1>1, <1>3, <2>1, AddKeeps, DeleteKeeps, AttachKeeps, SaveFileKeeps, RowStepKeeps,
       AttachmentAbortKeeps
    DEF AttachmentStep
<1>4. ASSUME NEW t \in Thread, AccountStep(t) \/ SettingsStep(t), UNCHANGED registryDesk
      PROVE  AttachmentInv'
  <2>1. /\ (AccountOps \cup None) \cap AttachmentOps = {}
        /\ (SettingsOps \cup None) \cap AttachmentOps = {}
    BY DEF AccountOps, SettingsOps, AttachmentOps, None
  <2>2. PICK ops : Moved(t, ops) /\ ops \cap AttachmentOps = {}
    BY <1>1, <1>4, <2>1, AccountStepMoves, SettingsStepMoves
  <2>3. /\ UNCHANGED attachmentVars /\ UNCHANGED equipment
        /\ \A u \in Thread \ {t} : Idle(u) \/ ArchivingTracked(u)
    BY <1>4, <2>2 DEF Moved, ArchivingTracked, registryDesk, registryVars
  <2> QED
    BY <1>1, <2>2, <2>3, ElsewhereKeepsAttachments
<1>5. CASE Restart /\ UNCHANGED registryDesk
  BY <1>1, <1>5, RestartEmpties, RestartKeepsAttachments DEF AtRegistry, Restart, registryDesk
<1>6. CASE (SeedAdmin \/ ReadVersion) /\ UNCHANGED registryDesk
  BY <1>1, <1>6, StillKeepsAttachments DEF SeedAdmin, ReadVersion, requestVars, registryDesk
<1>7. CASE UNCHANGED vars
  BY <1>1, <1>7, StillKeepsAttachments DEF vars, requestVars
<1> QED
  BY <1>2, <1>3, <1>4, <1>5, <1>6, <1>7 DEF Next

\* Every row has its place and its owner, what requests hold fits the tables, and every
\* file has its row; and nobody works on attachments at another desk.
THEOREM AttachmentSafety == Spec => [](AttachmentInv /\ AtRegistry)
<1>1. Init => AttachmentInv /\ AtRegistry
  BY AttachmentInitially, RequestsInitially DEF AtRegistry, AttachmentOps
<1>2. AttachmentInv /\ AtRegistry /\ [Next]_vars => (AttachmentInv /\ AtRegistry)'
  BY AttachmentInvariant, AtRegistryKept DEF AttachmentInv, RegistryInv
<1> QED
  BY <1>1, <1>2, PTL DEF Spec

\* Every document and photo has its file, and every file its row, unless a request is
\* between the two or died there.
THEOREM FilesHaveRows == Spec => []FilesMatchRows
<1>1. AttachmentInv => FilesMatchRows
  BY DEF AttachmentInv
<1> QED
  BY <1>1, AttachmentSafety, PTL

-----------------------------------------------------------------------------
(* Archiving.                                                              *)

ArchivedRowsStay ==
  \A e \in DOMAIN equipment : equipment[e].is_archived => equipment'[e] = equipment[e]

ArchivedKeepItems ==
  \A i \in Item : item'[i] # item[i] =>
    LET e == (IF item[i] = NULL THEN item'[i] ELSE item[i]).equipment_id
    IN  equipment[e].is_archived => LateRequest(e)

ArchivedAreasStay ==
  \A e \in DOMAIN equipment' :
    LET a == equipment'[e].area_id IN
    /\ area[a].is_archived
    /\ e \notin DOMAIN equipment \/ equipment[e].area_id # a
    => LateRequest(a)

\* The step of the action property.
ArchivingStep == ArchivedRowsStay /\ ArchivedKeepItems /\ ArchivedAreasStay

LEMMA ArchivingUntouched ==
  ASSUME UNCHANGED <<equipment, item>>
  PROVE  ArchivingStep
  BY DEF ArchivingStep, ArchivedRowsStay, ArchivedKeepItems, ArchivedAreasStay

\* A request that is over was late, if the row was archived since it began.
LEMMA LateWhenOver ==
  ASSUME RequestsOK, NEW t \in Thread, NEW columns, NEW row, Overtaken(t, row, "is_archived"),
         Commit(t, NoRequest, columns), request[t].op # "none"
  PROVE  LateRequest(row)
<1>1. request'[t].op = "none"
  BY CommitSteps, NoRequestHasOp DEF Stepped
<1>2. request'[t] # request[t]
  BY <1>1
<1> QED
  BY <1>2 DEF LateRequest

LEMMA RegistryArchives ==
  ASSUME RegistryInv, NEW t \in Thread, RegistryStep(t), UNCHANGED item
  PROVE  ArchivingStep
<1>1. RequestsOK /\ ArchivedKeepItems
  BY DEF RegistryInv, ArchivedKeepItems
<1>2. CASE CommitEquipment(t)
  <2> DEFINE e == request[t].row
             row == request[t].to
  <2>1. /\ request[t].op = "save_equipment" /\ Unchanged(t, e)
        /\ equipment' = [equipment EXCEPT ![e] = row]
        /\ Commit(t, NoRequest, Differing(e, equipment[e], row))
    BY <1>2 DEF CommitEquipment
  <2>2. /\ e \in DOMAIN equipment /\ ~equipment[e].is_archived /\ AreaChecked(t)
    BY <2>1 DEF RegistryInv, RegistryOK, EditsEquipment
  <2>3. /\ equipment'[e] = row /\ DOMAIN equipment' = DOMAIN equipment
        /\ \A f \in DOMAIN equipment \ {e} : equipment'[f] = equipment[f]
    BY <2>1, <2>2
  <2>4. ArchivedRowsStay
    BY <2>2, <2>3 DEF ArchivedRowsStay
  <2>5. ASSUME NEW a, a = row.area_id, area[a].is_archived, equipment[e].area_id # a
        PROVE  LateRequest(a)
    <3>1. Overtaken(t, a, "is_archived")
      BY <2>1, <2>2, <2>5 DEF AreaChecked
    <3> QED
      BY <1>1, <2>1, <3>1, LateWhenOver
  <2>6. ASSUME NEW f \in DOMAIN equipment', NEW a, a = equipment'[f].area_id,
               area[a].is_archived, f \notin DOMAIN equipment \/ equipment[f].area_id # a
        PROVE  LateRequest(a)
    <3>1. f = e
      BY <2>3, <2>6
    <3> QED
      BY <2>2, <2>3, <2>5, <2>6, <3>1
  <2>7. ArchivedAreasStay
    BY <2>6 DEF ArchivedAreasStay
  <2> QED
    BY <1>1, <2>4, <2>7 DEF ArchivingStep
<1>3. CASE CommitCreateEquipment(t)
  <2> DEFINE row == request[t].to
  <2>1. PICK e \in Equipment \ DOMAIN equipment :
          /\ equipment' = With(equipment, e, row)
          /\ Commit(t, NoRequest, {e} \X DOMAIN row)
    BY <1>3 DEF CommitCreateEquipment
  <2>2. request[t].op = "create_equipment" /\ AreaChecked(t)
    BY <1>3 DEF CommitCreateEquipment, RegistryInv, RegistryOK, EditsEquipment
  <2>3. /\ DOMAIN equipment' = DOMAIN equipment \cup {e} /\ equipment'[e] = row
        /\ \A f \in DOMAIN equipment : equipment'[f] = equipment[f]
    BY <2>1 DEF With
  <2>4. ArchivedRowsStay
    BY <2>3 DEF ArchivedRowsStay
  <2>5. ASSUME NEW a, a = row.area_id, area[a].is_archived
        PROVE  LateRequest(a)
    <3>1. Overtaken(t, a, "is_archived")
      BY <2>2, <2>5 DEF AreaChecked
    <3> QED
      BY <1>1, <2>1, <2>2, <3>1, LateWhenOver
  <2>6. ASSUME NEW f \in DOMAIN equipment', NEW a, a = equipment'[f].area_id,
               area[a].is_archived, f \notin DOMAIN equipment \/ equipment[f].area_id # a
        PROVE  LateRequest(a)
    <3>1. f = e
      BY <2>3, <2>6
    <3> QED
      BY <2>3, <2>5, <2>6, <3>1
  <2>7. ArchivedAreasStay
    BY <2>6 DEF ArchivedAreasStay
  <2> QED
    BY <1>1, <2>4, <2>7 DEF ArchivingStep
<1>4. CASE equipment' = equipment
  BY <1>4, ArchivingUntouched
<1>5. equipment' = equipment \/ CommitEquipment(t) \/ CommitCreateEquipment(t)
  BY DEF RegistryStep, CreateArea, EditArea, ArchiveArea, CreateEquipment, EditEquipment,
         ArchiveEquipment, BeginRegistry, CommitCreateArea, CommitArea, RegistryAbort,
         registryVars
<1> QED
  BY <1>2, <1>3, <1>4, <1>5

LEMMA AttachmentArchives ==
  ASSUME AttachmentInv, NEW t \in Thread, AttachmentStep(t)
  PROVE  ArchivingStep
<1>1. RequestsOK /\ UNCHANGED <<area, equipment>>
  BY AttachmentStepKeepsRegistry DEF AttachmentInv, RegistryInv, registryVars
<1>2. CASE item' = item
  BY <1>1, <1>2, ArchivingUntouched
<1>3. CASE CommitLink(t) \/ CommitNote(t) \/ InsertDocument(t)
  <2> DEFINE row == request[t].to
  <2>1. PICK i \in Item : item' = [item EXCEPT ![i] = row] /\ item[i] = NULL
    BY <1>3
    DEF CommitLink, CommitNote, Attach, InsertDocument, AttachmentInv, ItemsOK,
        AttachmentTypeOK, AttachmentOK, RowOps
  <2>2. /\ request[t].op \in {"attach", "insert_document"}
        /\ Commit(t, NoRequest, {})
    BY <1>3 DEF CommitLink, CommitNote, Attach, InsertDocument
  <2>3. LateIfArchived(t, row.equipment_id)
    BY <2>2 DEF AttachmentInv, AttachmentOK
  <2>4. ASSUME NEW e, e = row.equipment_id, equipment[e].is_archived
        PROVE  LateRequest(e)
    BY <1>1, <2>2, <2>3, <2>4, LateWhenOver DEF LateIfArchived
  <2>5. item \in [Item -> ItemRow \cup {NULL}]
    BY DEF AttachmentInv, ItemsOK, AttachmentTypeOK
  <2>6. /\ item'[i] = row /\ \A j \in Item \ {i} : item'[j] = item[j]
    BY <2>1, <2>5
  <2> HIDE DEF row
  <2>7. ArchivedKeepItems
    BY <2>1, <2>4, <2>6 DEF ArchivedKeepItems
  <2> QED
    BY <1>1, <2>7 DEF ArchivingStep, ArchivedRowsStay, ArchivedAreasStay
<1>4. CASE DeleteDocumentRow(t) \/ DeleteLinkRow(t)
  <2> DEFINE i == request[t].row
  <2>1. /\ request[t].op = "delete" /\ item[i] # NULL
        /\ item' = [item EXCEPT ![i] = NULL]
        /\ Commit(t, NoRequest, {})
    BY <1>4 DEF DeleteDocumentRow, DeleteLinkRow, DeleteRow
  <2>2. LateIfArchived(t, item[i].equipment_id)
    BY <2>1 DEF AttachmentInv, AttachmentOK
  <2>3. ASSUME NEW e, e = item[i].equipment_id, equipment[e].is_archived
        PROVE  LateRequest(e)
    BY <1>1, <2>1, <2>2, <2>3, LateWhenOver DEF LateIfArchived
  <2>4. item \in [Item -> ItemRow \cup {NULL}] /\ i \in Item
    BY <2>1 DEF AttachmentInv, ItemsOK, AttachmentTypeOK, AttachmentOK, RowOps
  <2>5. \A j \in Item \ {i} : item'[j] = item[j]
    BY <2>1, <2>4
  <2> HIDE DEF i
  <2>6. ArchivedKeepItems
    BY <2>1, <2>3, <2>5 DEF ArchivedKeepItems
  <2> QED
    BY <1>1, <2>6 DEF ArchivingStep, ArchivedRowsStay, ArchivedAreasStay
<1>5. \/ item' = item \/ CommitLink(t) \/ CommitNote(t) \/ InsertDocument(t)
      \/ DeleteDocumentRow(t) \/ DeleteLinkRow(t)
  BY DEF AttachmentStep, AddLink, AddNote, UploadDocument, UploadPhoto, DeleteLink,
         DeleteDocument, DeletePhoto, BeginAttachment, SaveFile, RemoveFile,
         AttachmentAbort, attachmentVars
<1> QED
  BY <1>2, <1>3, <1>4, <1>5

LEMMA NextArchives == AttachmentInv /\ [Next]_vars => ArchivingStep
<1> SUFFICES ASSUME AttachmentInv, [Next]_vars PROVE ArchivingStep
  OBVIOUS
<1>1. CASE UNCHANGED <<equipment, item>>
  BY <1>1, ArchivingUntouched
<1>2. CASE \E t \in Thread : RegistryStep(t) /\ UNCHANGED attachmentVars
  BY <1>2, RegistryArchives DEF AttachmentInv, attachmentVars
<1>3. CASE \E t \in Thread : AttachmentStep(t)
  BY <1>3, AttachmentArchives
<1> QED
  BY <1>1, <1>2, <1>3 DEF Next, vars, registryDesk, registryVars, attachmentVars

\* Archived equipment never changes; what hangs on it, and what is in an archived area,
\* only by requests that were under way when it was archived.
THEOREM ArchivingIsFinal == Spec => ArchivedStaysAsItIs
<1>1. AttachmentInv /\ [Next]_vars => [ArchivingStep]_<<registryVars, attachmentVars>>
  BY NextArchives
<1> QED
  BY <1>1, AttachmentSafety, PTL
  DEF Spec, ArchivedStaysAsItIs, ArchivingStep, ArchivedRowsStay, ArchivedKeepItems,
      ArchivedAreasStay

-----------------------------------------------------------------------------
(* Accounts.  The password that somebody presented to change it is the      *)
(* account's, as long as nobody wrote the row since the request's snapshot. *)

WriteOps == {"create_user", "reset_password", "change_account", "change_password"}

\* What a thread that will write an account holds.
PasswordOK(t) ==
  LET r == request[t] IN
  /\ r.op \in WriteOps => r.user \in User /\ r.to \in AccountRow
  /\ r.op \in WriteOps \ {"create_user"} => account[r.user] \in AccountRow
  /\ r.op = "change_password" /\ Unchanged(t, r.user)
       => account[r.user].password = r.presented

PasswordInv ==
  /\ RequestsOK
  /\ account \in [User -> AccountRow \cup {NULL}]
  /\ passwords \in Nat
  /\ \A t \in Thread : PasswordOK(t)

\* Who changes a password leaves its mark in changed[u].
PasswordTracked(u) ==
  /\ changed[u] \subseteq changed'[u]
  /\ \A v \in User : account[v] \in AccountRow =>
       /\ account'[v] \in AccountRow
       /\ \/ account'[v].password = account[v].password
          \/ <<v, "password">> \in changed'[u]

LEMMA OthersKeepPasswordOK ==
  ASSUME NEW u \in Thread, PasswordOK(u), request'[u] = request[u],
         PasswordTracked(u) \/ Idle(u)
  PROVE  PasswordOK(u)'
<1>1. CASE Idle(u)
  BY <1>1, NoRequestHasOp DEF Idle, PasswordOK, WriteOps
<1>2. CASE PasswordTracked(u)
  <2> DEFINE r == request[u]
  <2>1. /\ r.op \in WriteOps => r.user \in User /\ r.to \in AccountRow
        /\ r.op \in WriteOps \ {"create_user"} => account'[r.user] \in AccountRow
    BY <1>2 DEF PasswordOK, PasswordTracked
  <2>2. ASSUME r.op = "change_password", Unchanged(u, r.user)'
        PROVE  account'[r.user].password = r.presented
    <3>1. \A c \in changed'[u] : c[1] # r.user
      BY <2>2 DEF Unchanged
    <3>2. <<r.user, "password">> \notin changed'[u]
      BY <3>1
    <3>3. Unchanged(u, r.user)
      BY <1>2, <3>1 DEF Unchanged, PasswordTracked
    <3> QED
      BY <1>2, <2>2, <3>2, <3>3 DEF PasswordOK, PasswordTracked, WriteOps
  <2> QED
    BY <2>1, <2>2 DEF PasswordOK
<1> QED
  BY <1>1, <1>2

\* A step of t that leaves the table alone, or writes it and says so.
LEMMA PasswordStep ==
  ASSUME PasswordInv, NEW t \in Thread, NEW ops, Moved(t, ops), PasswordOK(t)',
         account' \in [User -> AccountRow \cup {NULL}], passwords' \in Nat,
         \A u \in Thread \ {t} : Idle(u) \/ PasswordTracked(u)
  PROVE  PasswordInv'
<1>1. \A u \in Thread \ {t} : PasswordOK(u)'
  BY OthersKeepPasswordOK DEF PasswordInv, Moved
<1> QED
  BY <1>1 DEF PasswordInv, Moved

LEMMA TableKeptTracked ==
  ASSUME NEW t \in Thread, NEW ops, Moved(t, ops), UNCHANGED account
  PROVE  \A u \in Thread \ {t} : Idle(u) \/ PasswordTracked(u)
  BY DEF Moved, PasswordTracked

LEMMA RowWriteTracked ==
  ASSUME PasswordInv, NEW t \in Thread, NEW r, NEW columns, NEW v \in User,
         NEW row \in AccountRow, Commit(t, r, columns),
         account' = [account EXCEPT ![v] = row],
         account[v] \in AccountRow /\ row.password # account[v].password
           => <<v, "password">> \in columns
  PROVE  /\ account' \in [User -> AccountRow \cup {NULL}]
         /\ \A u \in Thread \ {t} : Idle(u) \/ PasswordTracked(u)
<1>1. account' \in [User -> AccountRow \cup {NULL}] /\ account'[v] = row
  BY DEF PasswordInv
<1>2. \A w \in User \ {v} : account'[w] = account[w]
  BY DEF PasswordInv
<1>3. ASSUME NEW u \in Thread \ {t}, ~Idle(u)
      PROVE  PasswordTracked(u)
  <2>1. changed'[u] = changed[u] \cup columns
    BY <1>3, CommitSteps DEF PasswordInv, Stepped
  <2> QED
    BY <1>1, <1>2, <2>1 DEF PasswordTracked
<1> QED
  BY <1>1, <1>3

LEMMA AccountBeginKeeps ==
  ASSUME PasswordInv, NEW t \in Thread,
         \/ CreateUser(t) \/ ResetPassword(t) \/ ChangeRole(t) \/ EditSlackHandle(t)
         \/ OpenUserPage(t) \/ OpenAnotherPage(t) \/ ChangePassword(t)
  PROVE  PasswordOK(t)' /\ UNCHANGED account /\ passwords' \in Nat
<1>0. account \in [User -> AccountRow \cup {NULL}] /\ passwords \in Nat /\ RequestsOK
  BY DEF PasswordInv
<1>1. ASSUME NEW r, Begin(t, "accounts", r)
      PROVE  request'[t] = r /\ changed'[t] = {}
  BY <1>0, <1>1, BeginSteps DEF Stepped
<1>2. CASE CreateUser(t)
  <2>1. PICK b \in Browser, u \in User, role \in RoleInput, handle \in HandleInput :
          /\ passwords' = passwords + 1
          /\ BeginInBrowser(t, b,
               [op |-> "create_user", user |-> u, browser |-> b, jar |-> cookie[b],
                to |-> [role |-> role, password |-> passwords', slack_handle |-> handle]])
    BY <1>2 DEF CreateUser
  <2> DEFINE row == [role |-> role, password |-> passwords', slack_handle |-> handle]
             r == [op |-> "create_user", user |-> u, browser |-> b, jar |-> cookie[b],
                   to |-> row]
  <2>2. row \in AccountRow
    BY <1>0, <2>1, AccountsAssumption DEF AccountRow, Password
  <2>3. request'[t] = r /\ UNCHANGED account
    BY <1>1, <2>1 DEF BeginInBrowser
  <2> HIDE DEF row
  <2>4. r.op = "create_user" /\ r.user = u /\ r.to = row
    OBVIOUS
  <2> HIDE DEF r
  <2> QED
    BY <1>0, <2>1, <2>2, <2>3, <2>4 DEF PasswordOK
<1>3. CASE ResetPassword(t)
  <2>1. PICK b \in Browser, u \in User :
          /\ account[u] # NULL
          /\ passwords' = passwords + 1
          /\ BeginInBrowser(t, b,
               [op |-> "reset_password", user |-> u, browser |-> b, jar |-> cookie[b],
                to |-> [account[u] EXCEPT !.password = passwords']])
    BY <1>3 DEF ResetPassword
  <2> DEFINE row == [account[u] EXCEPT !.password = passwords']
             r == [op |-> "reset_password", user |-> u, browser |-> b, jar |-> cookie[b],
                   to |-> row]
  <2>2. row \in AccountRow /\ account[u] \in AccountRow
    BY <1>0, <2>1 DEF AccountRow, Password
  <2>3. request'[t] = r /\ UNCHANGED account
    BY <1>1, <2>1 DEF BeginInBrowser
  <2> HIDE DEF row
  <2>4. r.op = "reset_password" /\ r.user = u /\ r.to = row
    OBVIOUS
  <2> HIDE DEF r
  <2> QED
    BY <1>0, <2>1, <2>2, <2>3, <2>4 DEF PasswordOK
<1>4. ASSUME NEW b, NEW u \in User, NEW row \in AccountRow, account[u] # NULL,
             BeginChange(t, b, u, row)
      PROVE  PasswordOK(t)' /\ UNCHANGED account /\ passwords' \in Nat
  <2> DEFINE r == [op |-> "change_account", user |-> u, browser |-> b, jar |-> cookie[b],
                   to |-> row]
  <2>1. request'[t] = r /\ UNCHANGED account /\ UNCHANGED passwords
    BY <1>1, <1>4 DEF BeginChange, BeginInBrowser
  <2>2. r.op = "change_account" /\ r.user = u /\ r.to = row
    OBVIOUS
  <2>3. account[u] \in AccountRow
    BY <1>0, <1>4
  <2> HIDE DEF r
  <2> QED
    BY <1>0, <2>1, <2>2, <2>3 DEF PasswordOK
<1>5. CASE ChangeRole(t)
  <2>1. PICK b \in Browser, u \in User, role \in RoleInput :
          account[u] # NULL /\ BeginChange(t, b, u, [account[u] EXCEPT !.role = role])
    BY <1>5 DEF ChangeRole
  <2>2. [account[u] EXCEPT !.role = role] \in AccountRow
    BY <1>0, <2>1, AccountsAssumption DEF AccountRow
  <2> QED
    BY <1>4, <2>1, <2>2
<1>6. CASE EditSlackHandle(t)
  <2>1. PICK b \in Browser, u \in User, handle \in HandleInput :
          /\ account[u] # NULL
          /\ BeginChange(t, b, u, [account[u] EXCEPT !.slack_handle = handle])
    BY <1>6 DEF EditSlackHandle
  <2>2. [account[u] EXCEPT !.slack_handle = handle] \in AccountRow
    BY <1>0, <2>1, AccountsAssumption DEF AccountRow
  <2> QED
    BY <1>4, <2>1, <2>2
<1>7. CASE OpenUserPage(t) \/ OpenAnotherPage(t)
  <2>1. PICK b, u, shows, jar :
          Begin(t, "accounts", [op |-> "respond", page |-> u, displays |-> shows,
                                redirect |-> NULL, browser |-> b, jar |-> jar])
    BY <1>7 DEF OpenUserPage, OpenAnotherPage, BeginInBrowser
  <2>2. request'[t].op = "respond"
    BY <1>1, <2>1
  <2>3. UNCHANGED account /\ UNCHANGED passwords
    BY <1>7 DEF OpenUserPage, OpenAnotherPage, BeginInBrowser
  <2> QED
    BY <1>0, <2>2, <2>3 DEF PasswordOK, WriteOps
<1>8. CASE ChangePassword(t)
  <2>1. PICK u \in User :
          /\ account[u] # NULL
          /\ passwords' = passwords + 1
          /\ Begin(t, "accounts",
               [op |-> "change_password", user |-> u, presented |-> account[u].password,
                to |-> [account[u] EXCEPT !.password = passwords']])
          /\ UNCHANGED account
    BY <1>8 DEF ChangePassword
  <2> DEFINE row == [account[u] EXCEPT !.password = passwords']
             r == [op |-> "change_password", user |-> u,
                   presented |-> account[u].password, to |-> row]
  <2>2. row \in AccountRow /\ account[u] \in AccountRow
    BY <1>0, <2>1 DEF AccountRow, Password
  <2>3. request'[t] = r
    BY <1>1, <2>1
  <2> HIDE DEF row
  <2>4. /\ r.op = "change_password" /\ r.user = u /\ r.to = row
        /\ r.presented = account[u].password
    OBVIOUS
  <2> HIDE DEF r
  <2> QED
    BY <1>0, <2>1, <2>2, <2>3, <2>4 DEF PasswordOK
<1> QED
  BY <1>2, <1>3, <1>5, <1>6, <1>7, <1>8

LEMMA AccountCommitKeeps ==
  ASSUME PasswordInv, NEW t \in Thread,
         CommitPassword(t) \/ CommitChange(t) \/ CommitOwnPassword(t)
  PROVE  /\ PasswordOK(t)' /\ passwords' \in Nat
         /\ account' \in [User -> AccountRow \cup {NULL}]
         /\ \A u \in Thread \ {t} : Idle(u) \/ PasswordTracked(u)
<1> DEFINE v == request[t].user
           row == request[t].to
<1>1. PICK r, columns :
        /\ Commit(t, r, columns)
        /\ r.op \notin WriteOps
        /\ \/ columns = {v} \X DOMAIN row
           \/ columns = Differing(v, account[v], row)
                /\ request[t].op \in WriteOps \ {"create_user"}
           \/ columns = {<<v, "password">>}
  <2>1. CASE CommitPassword(t)
    BY <2>1 DEF CommitPassword, WriteOps
  <2>2. CASE CommitChange(t)
    BY <2>2 DEF CommitChange, Response, WriteOps
  <2>3. CASE CommitOwnPassword(t)
    BY <2>3, NoRequestHasOp DEF CommitOwnPassword, WriteOwnPassword, WriteOps
  <2> QED
    BY <2>1, <2>2, <2>3
<1>2. /\ request[t].op \in WriteOps /\ account' = [account EXCEPT ![v] = row]
      /\ UNCHANGED passwords
  BY DEF CommitPassword, CommitChange, CommitOwnPassword, WriteOwnPassword, WriteOps
<1>3. v \in User /\ row \in AccountRow
  BY <1>2 DEF PasswordInv, PasswordOK
<1>4. request[t].op \in WriteOps \ {"create_user"} => account[v] \in AccountRow
  BY DEF PasswordInv, PasswordOK
<1>5. PasswordOK(t)' /\ passwords' \in Nat
  <2>1. request'[t] = r
    BY <1>1, CommitSteps DEF PasswordInv, Stepped
  <2> QED
    BY <1>1, <1>2, <2>1 DEF PasswordInv, PasswordOK, WriteOps
<1> HIDE DEF v, row
<1>6. ASSUME account[v] \in AccountRow, row.password # account[v].password
      PROVE  <<v, "password">> \in columns
  <2>1. "password" \in DOMAIN row /\ DOMAIN row = DOMAIN account[v]
    BY <1>3, <1>6 DEF AccountRow
  <2> QED
    BY <1>1, <1>6, <2>1 DEF Differing
<1>7. /\ account' \in [User -> AccountRow \cup {NULL}]
      /\ \A u \in Thread \ {t} : Idle(u) \/ PasswordTracked(u)
  BY <1>1, <1>2, <1>3, <1>6, RowWriteTracked
<1> QED
  BY <1>5, <1>7

LEMMA AccountRestKeeps ==
  ASSUME PasswordInv, NEW t \in Thread,
         Deliver(t) \/ Respond(t) \/ RespondError(t) \/ AccountAbort(t)
  PROVE  PasswordOK(t)' /\ UNCHANGED account /\ UNCHANGED passwords
<1>1. PICK r : Continue(t, r) /\ r.op \notin WriteOps
  BY NoRequestHasOp DEF Deliver, Respond, RespondError, AccountAbort, Response, WriteOps
<1>2. request'[t] = r
  BY <1>1, ContinueSteps DEF PasswordInv, Stepped
<1> QED
  BY <1>1, <1>2
  DEF PasswordOK, Deliver, Respond, RespondError, AccountAbort, accountVars, WriteOps

LEMMA PasswordInvariant == PasswordInv /\ [Next]_vars => PasswordInv'
<1> SUFFICES ASSUME PasswordInv, [Next]_vars PROVE PasswordInv'
  OBVIOUS
<1>0. /\ RequestsOK /\ account \in [User -> AccountRow \cup {NULL}] /\ passwords \in Nat
  BY DEF PasswordInv
<1>1. ASSUME NEW t \in Thread, AccountStep(t)
      PROVE  PasswordInv'
  <2>1. Moved(t, AccountOps \cup None)
    BY <1>0, <1>1, AccountStepMoves
  <2>2. UNCHANGED account => \A u \in Thread \ {t} : Idle(u) \/ PasswordTracked(u)
    BY <2>1, TableKeptTracked
  <2>3. /\ PasswordOK(t)' /\ passwords' \in Nat
        /\ account' \in [User -> AccountRow \cup {NULL}]
        /\ \A u \in Thread \ {t} : Idle(u) \/ PasswordTracked(u)
    BY <1>0, <1>1, <2>2, AccountBeginKeeps, AccountCommitKeeps, AccountRestKeeps
    DEF AccountStep
  <2> QED
    BY <2>1, <2>3, PasswordStep
<1>2. ASSUME NEW t \in Thread, NEW ops, Moved(t, ops), ops \cap WriteOps = {},
             UNCHANGED accountVars
      PROVE  PasswordInv'
  <2>1. UNCHANGED account /\ UNCHANGED passwords
    BY <1>2 DEF accountVars
  <2>2. PasswordOK(t)'
    <3>1. request'[t].op \notin WriteOps
      BY <1>2 DEF Moved
    <3> QED
      BY <3>1 DEF PasswordOK, WriteOps
  <2> QED
    BY <1>0, <1>2, <2>1, <2>2, TableKeptTracked, PasswordStep
<1>3. ASSUME NEW t \in Thread, RegistryStep(t) \/ AttachmentStep(t) \/ SettingsStep(t),
             UNCHANGED accountVars
      PROVE  PasswordInv'
  <2>1. /\ (RegistryOps \cup None) \cap WriteOps = {}
        /\ (AttachmentOps \cup None) \cap WriteOps = {}
        /\ (SettingsOps \cup None) \cap WriteOps = {}
    BY DEF RegistryOps, AttachmentOps, SettingsOps, None, WriteOps
  <2> QED
    BY <1>0, <1>2, <1>3, <2>1, RegistryStepMoves, AttachmentStepMoves, SettingsStepMoves
<1>4. CASE SeedAdmin
  <2>1. PICK u \in User, handle \in HandleInput :
          /\ account[u] = NULL
          /\ account' = [account EXCEPT ![u] = [role |-> "staff", password |-> passwords',
                                                slack_handle |-> handle]]
    BY <1>4 DEF SeedAdmin
  <2>2. passwords' \in Nat /\ UNCHANGED <<request, changed>>
    BY <1>0, <1>4 DEF SeedAdmin, requestVars
  <2>3. [role |-> "staff", password |-> passwords', slack_handle |-> handle] \in AccountRow
    BY <2>2, AccountsAssumption DEF AccountRow, Password, Role
  <2>4. account' \in [User -> AccountRow \cup {NULL}]
    BY <1>0, <2>1, <2>3
  <2>5. ASSUME NEW t \in Thread
        PROVE  PasswordOK(t)'
    <3>1. \A v \in User : account[v] \in AccountRow => account'[v] = account[v]
      BY <1>0, <2>1, RowsAssumption
    <3>2. PasswordTracked(t)
      BY <2>2, <3>1 DEF PasswordTracked
    <3> QED
      BY <2>2, <3>2, OthersKeepPasswordOK DEF PasswordInv
  <2>6. RequestsOK'
    BY <1>0, <2>2 DEF RequestsOK
  <2> QED
    BY <2>2, <2>4, <2>5, <2>6 DEF PasswordInv
<1>5. CASE Restart /\ UNCHANGED accountVars
  <2>1. \A t \in Thread : PasswordOK(t)'
    BY <1>0, <1>5, RestartEmpties DEF PasswordOK, WriteOps
  <2> QED
    BY <1>0, <1>5, <2>1, RestartEmpties DEF PasswordInv, accountVars
<1>6. CASE UNCHANGED <<request, changed>> /\ UNCHANGED accountVars
  <2>1. RequestsOK' /\ account' = account /\ passwords' = passwords
    BY <1>0, <1>6 DEF RequestsOK, accountVars
  <2>2. \A t \in Thread : PasswordOK(t)'
    BY <1>6, <2>1 DEF PasswordInv, PasswordOK, Unchanged
  <2> QED
    BY <1>0, <2>1, <2>2 DEF PasswordInv
<1>7. (ReadVersion \/ UNCHANGED vars) => UNCHANGED <<request, changed>>
  BY DEF ReadVersion, requestVars, vars
<1> QED
  BY <1>1, <1>3, <1>4, <1>5, <1>6, <1>7 DEF Next, vars

LEMMA PasswordInitially ==
  ASSUME Init
  PROVE  PasswordInv
<1>1. account \in [User -> AccountRow \cup {NULL}] /\ passwords \in Nat
  BY AccountsAssumption DEF Init, AccountInit, AccountRow, Password
<1>2. \A t \in Thread : PasswordOK(t)
  BY RequestsInitially DEF PasswordOK, WriteOps
<1> QED
  BY <1>1, <1>2, RequestsInitially DEF PasswordInv

\* The password somebody presents to change it is the one the new one replaces,
\* whatever resets and changes of the account overlap.
THEOREM PasswordsAreProved == Spec => PasswordChangeIsProved
<1> DEFINE Proved == \A t \in Thread :
                       CommitOwnPassword(t) =>
                         account[request[t].user].password = request[t].presented
<1>1. PasswordInv => Proved
  BY DEF PasswordInv, PasswordOK, CommitOwnPassword
<1>2. Init => PasswordInv
  BY PasswordInitially
<1>3. PasswordInv /\ [Next]_vars => [Proved]_<<requestVars, accountVars>>
  BY <1>1
<1> QED
  BY <1>2, <1>3, PasswordInvariant, PTL DEF Spec, PasswordChangeIsProved

-----------------------------------------------------------------------------
(* Temporary passwords.  A browser that does one thing at a time goes round *)
(* four phases; passwords are told apart by their numbers, so that no other *)
(* browser, however tangled, ever holds one of its passwords.               *)

BrowserOps == AccountOps \ {"change_password"}

In(t, b) == request[t].op \in BrowserOps /\ request[t].browser = b

\* A response that brings a temporary password to the browser.
Sending(t) == request[t].op = "respond" /\ request[t].redirect # NULL

\* The temporary passwords that a request has and no browser got.
Pending(t) ==
  LET r == request[t] IN
  IF r.op \in {"create_user", "reset_password"}
    THEN {[user |-> r.user, password |-> r.to.password]}
  ELSE IF r.op = "deliver" THEN {r.temporary}
  ELSE IF Sending(t) THEN {r.jar} ELSE {}

Handed(b, temporary) == [browser |-> b, temporary |-> temporary] \in handed

\* Nothing goes on in a browser without a password,
IdlePhase(b) ==
  /\ \A t \in Thread : ~In(t, b)
  /\ following[b] = {} /\ cookie[b] = NULL

\* one request does, which may bring a password,
WorkPhase(b) ==
  /\ following[b] = {} /\ cookie[b] = NULL
  /\ \E t \in Thread :
       /\ In(t, b) /\ \A s \in Thread \ {t} : ~In(s, b)
       /\ Sending(t) \/ request[t].jar = NULL
       /\ request[t].op = "respond" => request[t].page = NULL /\ request[t].displays = NULL

\* the page of its user is about to be opened,
WaitPhase(b) ==
  /\ \A t \in Thread : ~In(t, b)
  /\ cookie[b] # NULL /\ following[b] = {cookie[b].user}

\* or is on its way.
ShowPhase(b) ==
  /\ following[b] = {} /\ cookie[b] # NULL
  /\ \E t \in Thread :
       /\ In(t, b) /\ \A s \in Thread \ {t} : ~In(s, b)
       /\ request[t].op = "respond" /\ request[t].page = cookie[b].user
       /\ request[t].displays = cookie[b]
       /\ request[t].redirect = NULL /\ request[t].jar = NULL

PhaseOK(b) == IdlePhase(b) \/ WorkPhase(b) \/ WaitPhase(b) \/ ShowPhase(b)

\* What a request carries was handed to its browser, or to none yet.
CarriedOK(t) ==
  LET r == request[t] IN
  /\ r.op \in BrowserOps =>
       /\ r.browser \in Browser
       /\ Sending(t) \/ r.jar = NULL \/ Handed(r.browser, r.jar)
  /\ r.op = "respond" =>
       /\ r.page \in User \cup {NULL}
       /\ r.displays = NULL \/ Handed(r.browser, r.displays)
       /\ Sending(t) => r.page = NULL /\ r.displays = NULL /\ r.redirect = r.jar.user
  /\ \A x \in Pending(t) :
       /\ x \in Temporary /\ x.password <= passwords
       /\ \A h \in handed : h.temporary # x

HandedOK ==
  /\ passwords \in Nat
  /\ handed \subseteq [browser : Browser, temporary : Temporary]
  /\ \A h \in handed : h.temporary.password <= passwords
  /\ \A h, k \in handed : h.temporary = k.temporary => h.browser = k.browser
  /\ \A d \in shown : \E h \in handed : h.temporary = d.temporary
  /\ \A x \in lost : \E h \in handed : h.temporary = x
  /\ cookie \in [Browser -> Temporary \cup {NULL}]
  /\ \A b \in Browser : cookie[b] = NULL \/ Handed(b, cookie[b])
  /\ following \in [Browser -> SUBSET User]

CookieInv ==
  /\ RequestsOK
  /\ HandedOK
  /\ \A t \in Thread : CarriedOK(t)
  /\ \A t, s \in Thread : t # s => Pending(t) \cap Pending(s) = {}
  /\ \A b \in Browser \ tangled : PhaseOK(b)
  /\ OneTabShowsEachPasswordOnce

\* Nothing moves in browser b.
Steady(b) ==
  /\ \A s \in Thread : (In(s, b)' <=> In(s, b)) /\ (In(s, b) => request'[s] = request[s])
  /\ cookie'[b] = cookie[b] /\ following'[b] = following[b]

LEMMA SteadyKeeps ==
  ASSUME NEW b, Steady(b), PhaseOK(b)
  PROVE  PhaseOK(b)'
<1>1. CASE IdlePhase(b)
  BY <1>1 DEF IdlePhase, PhaseOK, Steady
<1>2. CASE WaitPhase(b)
  BY <1>2 DEF WaitPhase, PhaseOK, Steady
<1>3. CASE WorkPhase(b)
  <2>1. PICK s \in Thread :
          /\ In(s, b) /\ \A u \in Thread \ {s} : ~In(u, b)
          /\ Sending(s) \/ request[s].jar = NULL
          /\ request[s].op = "respond" => request[s].page = NULL /\ request[s].displays = NULL
    BY <1>3 DEF WorkPhase
  <2>2. request'[s] = request[s] /\ (Sending(s)' <=> Sending(s))
    BY <2>1 DEF Sending, Steady
  <2>3. WorkPhase(b)'
    BY <1>3, <2>1, <2>2 DEF WorkPhase, Steady
  <2> QED
    BY <2>3 DEF PhaseOK
<1>4. CASE ShowPhase(b)
  <2>1. PICK s \in Thread :
          /\ In(s, b) /\ \A u \in Thread \ {s} : ~In(u, b)
          /\ request[s].op = "respond" /\ request[s].page = cookie[b].user
          /\ request[s].displays = cookie[b]
          /\ request[s].redirect = NULL /\ request[s].jar = NULL
    BY <1>4 DEF ShowPhase
  <2>2. request'[s] = request[s]
    BY <2>1 DEF Steady
  <2>3. ShowPhase(b)'
    BY <1>4, <2>1, <2>2 DEF ShowPhase, Steady
  <2> QED
    BY <2>3 DEF PhaseOK
<1> QED
  BY <1>1, <1>2, <1>3, <1>4 DEF PhaseOK

\* A thread has a request in at most one phase; which one, its request tells.
LEMMA PhaseOf ==
  ASSUME NEW t \in Thread, NEW b, In(t, b), PhaseOK(b)
  PROVE  /\ following[b] = {} /\ \A s \in Thread \ {t} : ~In(s, b)
         /\ \/ /\ cookie[b] = NULL
               /\ Sending(t) \/ request[t].jar = NULL
               /\ request[t].op = "respond" =>
                    request[t].page = NULL /\ request[t].displays = NULL
            \/ /\ cookie[b] # NULL
               /\ request[t].op = "respond" /\ request[t].page = cookie[b].user
               /\ request[t].displays = cookie[b]
               /\ request[t].redirect = NULL /\ request[t].jar = NULL
<1>1. WorkPhase(b) \/ ShowPhase(b)
  BY DEF PhaseOK, IdlePhase, WaitPhase
<1>2. CASE WorkPhase(b)
  <2>1. PICK s \in Thread :
          /\ In(s, b) /\ \A u \in Thread \ {s} : ~In(u, b)
          /\ Sending(s) \/ request[s].jar = NULL
          /\ request[s].op = "respond" => request[s].page = NULL /\ request[s].displays = NULL
    BY <1>2 DEF WorkPhase
  <2>2. s = t
    BY <2>1
  <2> QED
    BY <1>2, <2>1, <2>2 DEF WorkPhase
<1>3. CASE ShowPhase(b)
  <2>1. PICK s \in Thread :
          /\ In(s, b) /\ \A u \in Thread \ {s} : ~In(u, b)
          /\ request[s].op = "respond" /\ request[s].page = cookie[b].user
          /\ request[s].displays = cookie[b]
          /\ request[s].redirect = NULL /\ request[s].jar = NULL
    BY <1>3 DEF ShowPhase
  <2>2. s = t
    BY <2>1
  <2> QED
    BY <1>3, <2>1, <2>2 DEF ShowPhase
<1> QED
  BY <1>1, <1>2, <1>3

LEMMA HandedKeeps ==
  ASSUME HandedOK, passwords' \in Nat, passwords' >= passwords,
         UNCHANGED <<cookie, handed, shown, lost>>, following' \in [Browser -> SUBSET User]
  PROVE  HandedOK'
<1>1. ASSUME NEW h \in handed
      PROVE  h.temporary.password <= passwords'
  <2>1. h.temporary \in Temporary /\ h.temporary.password <= passwords
    BY DEF HandedOK
  <2>2. h.temporary.password \in Nat
    BY <2>1 DEF Temporary, Password
  <2> QED
    BY <2>1, <2>2 DEF HandedOK
<1> QED
  BY <1>1 DEF HandedOK, Handed

\* Requests outside the browsers come, go and choose passwords.
LEMMA ElsewhereStep ==
  ASSUME CookieInv, RequestsOK', passwords' \in Nat, passwords' >= passwords,
         UNCHANGED <<cookie, following, handed, shown, lost, tangled>>,
         \A t \in Thread : \/ request'[t] = request[t]
                          \/ /\ request[t].op \notin BrowserOps
                             /\ request'[t].op \notin BrowserOps
  PROVE  CookieInv'
<1>1. HandedOK'
  <2>1. HandedOK /\ following' \in [Browser -> SUBSET User]
    BY DEF CookieInv, HandedOK
  <2> QED
    BY <2>1, HandedKeeps
<1>2. ASSUME NEW t \in Thread
      PROVE  Pending(t)' = Pending(t) /\ CarriedOK(t)'
  <2>1. CASE request'[t] = request[t]
    <3>1. Pending(t)' = Pending(t) /\ (Sending(t)' <=> Sending(t))
      BY <2>1 DEF Pending, Sending
    <3>2. CarriedOK(t)
      BY DEF CookieInv
    <3>3. \A x \in Pending(t) : x \in Temporary /\ x.password <= passwords'
      BY <3>2 DEF CarriedOK, CookieInv, HandedOK, Temporary, Password
    <3> QED
      BY <2>1, <3>1, <3>2, <3>3 DEF CarriedOK, Handed
  <2>2. CASE request[t].op \notin BrowserOps /\ request'[t].op \notin BrowserOps
    <3>1. /\ request'[t].op \notin {"create_user", "reset_password", "deliver", "respond"}
          /\ request[t].op \notin {"create_user", "reset_password", "deliver", "respond"}
      BY <2>2 DEF BrowserOps, AccountOps
    <3>2. Pending(t)' = {} /\ Pending(t) = {}
      BY <3>1 DEF Pending, Sending
    <3> QED
      BY <2>2, <3>1, <3>2 DEF CarriedOK
  <2> QED
    BY <2>1, <2>2
<1>3. \A b \in Browser : Steady(b)
  BY DEF Steady, In
<1>4. \A b \in Browser \ tangled' : PhaseOK(b)'
  BY <1>3, SteadyKeeps DEF CookieInv
<1>5. OneTabShowsEachPasswordOnce'
  BY DEF CookieInv, OneTabShowsEachPasswordOnce
<1> QED
  BY <1>1, <1>2, <1>4, <1>5 DEF CookieInv

\* Thread t moves, in browser c, and hands nothing over.
Moves(t, c) ==
  /\ RequestsOK'
  /\ \A s \in Thread \ {t} : request'[s] = request[s]
  /\ \A b : In(t, b) \/ In(t, b)' => b = c
  /\ cookie' = cookie /\ handed' = handed /\ shown' = shown /\ lost' = lost
  /\ following' \in [Browser -> SUBSET User]
  /\ \A b \in Browser \ {c} : following'[b] = following[b]
  /\ tangled \subseteq tangled'
  /\ passwords' \in Nat /\ passwords' >= passwords

LEMMA MovesKeep ==
  ASSUME CookieInv, NEW t \in Thread, NEW c \in Browser, Moves(t, c), CarriedOK(t)',
         c \notin tangled' => PhaseOK(c)',
         \A x \in Pending(t)' : x \in Pending(t) \/ x.password > passwords
  PROVE  CookieInv'
<1>1. HandedOK'
  BY HandedKeeps DEF CookieInv, Moves
<1>2. ASSUME NEW s \in Thread \ {t}
      PROVE  Pending(s)' = Pending(s) /\ CarriedOK(s)' /\ Pending(s) \cap Pending(t)' = {}
  <2>1. request'[s] = request[s]
    BY DEF Moves
  <2>2. Pending(s)' = Pending(s) /\ (Sending(s)' <=> Sending(s))
    BY <2>1 DEF Pending, Sending
  <2>3. CarriedOK(s) /\ Pending(s) \cap Pending(t) = {}
    BY DEF CookieInv
  <2>4. \A x \in Pending(s) : x \in Temporary /\ x.password <= passwords'
                             /\ ~(x.password > passwords)
    BY <2>3 DEF CarriedOK, CookieInv, HandedOK, Temporary, Password, Moves
  <2>5. CarriedOK(s)'
    BY <2>1, <2>2, <2>3, <2>4 DEF CarriedOK, Handed, Moves
  <2> QED
    BY <2>2, <2>3, <2>4, <2>5
<1>3. ASSUME NEW b \in Browser \ tangled'
      PROVE  PhaseOK(b)'
  <2>1. CASE b = c
    BY <2>1
  <2>2. CASE b # c
    <3>1. Steady(b)
      BY <2>2 DEF Steady, Moves, In
    <3> QED
      BY <3>1, SteadyKeeps DEF CookieInv, Moves
  <2> QED
    BY <2>1, <2>2
<1>4. OneTabShowsEachPasswordOnce'
  BY DEF CookieInv, OneTabShowsEachPasswordOnce, Moves
<1>5. \A s, u \in Thread : s # u => Pending(s)' \cap Pending(u)' = {}
  <2>1. TAKE s, u \in Thread
  <2>2. HAVE s # u
  <2>3. CASE s = t \/ u = t
    BY <1>2, <2>2, <2>3
  <2>4. CASE s # t /\ u # t
    <3>1. Pending(s) \cap Pending(u) = {}
      BY <2>2 DEF CookieInv
    <3> QED
      BY <1>2, <2>4, <3>1
  <2> QED
    BY <2>3, <2>4
<1> QED
  BY <1>1, <1>2, <1>3, <1>4, <1>5 DEF CookieInv, Moves

\* A browser that is not tangled by a request was idle, and works on the request.
LEMMA BeginKeeps ==
  ASSUME CookieInv, NEW t \in Thread, NEW b \in Browser, NEW r, BeginInBrowser(t, b, r),
         r.op \in BrowserOps \ {"deliver"}, r.browser = b, r.jar = cookie[b], "op" \in DOMAIN r,
         r.op = "respond" => r.page = NULL /\ r.displays = NULL /\ r.redirect = NULL,
         passwords' \in Nat, passwords' >= passwords,
         r.op \in {"create_user", "reset_password"} =>
           /\ passwords' = passwords + 1
           /\ r.user \in User /\ r.to.password = passwords'
  PROVE  CookieInv'
<1>1. /\ Begin(t, "accounts", r)
      /\ tangled' = IF Busy(b) THEN tangled \cup {b} ELSE tangled
      /\ UNCHANGED <<cookie, following, handed, shown, lost>>
  BY DEF BeginInBrowser
<1>2. Stepped(t, r, {}) /\ request[t].op = "none"
  BY <1>1, BeginSteps, NoRequestHasOp DEF CookieInv, Idle
<1>3. request'[t] = r /\ RequestsOK'
  BY <1>2 DEF Stepped, RequestsOK, CookieInv
<1>4. Moves(t, b)
  <2>1. \A c : In(t, c) \/ In(t, c)' => c = b
    BY <1>2, <1>3 DEF In, BrowserOps, AccountOps
  <2> QED
    BY <1>1, <1>2, <1>3, <2>1 DEF Moves, Stepped, CookieInv, HandedOK
<1> DEFINE Fresh(y) == /\ y \in Temporary /\ y.password <= passwords'
                       /\ y.password > passwords
                       /\ \A h \in handed' : h.temporary # y
<1>5. ASSUME r.op \in {"create_user", "reset_password"}
      PROVE  \A y \in Pending(t)' : Fresh(y)
  <2> DEFINE x == [user |-> r.user, password |-> r.to.password]
  <2>1. Pending(t)' = {x}
    BY <1>3, <1>5 DEF Pending
  <2>2. x \in Temporary /\ x.password = passwords'
    BY <1>5 DEF Temporary, Password
  <2>3. passwords' > passwords
    BY <1>5 DEF CookieInv, HandedOK
  <2> HIDE DEF x
  <2>4. ASSUME NEW h \in handed
        PROVE  h.temporary # x
    <3>1. h.temporary \in Temporary /\ h.temporary.password <= passwords
      BY DEF CookieInv, HandedOK
    <3>2. h.temporary.password \in Nat /\ passwords \in Nat
      BY <3>1 DEF Temporary, Password, CookieInv, HandedOK
    <3> QED
      BY <2>2, <2>3, <3>1, <3>2
  <2> QED
    BY <1>1, <2>1, <2>2, <2>3, <2>4
<1>6. ASSUME r.op \notin {"create_user", "reset_password"}
      PROVE  \A y \in Pending(t)' : Fresh(y)
  <2>1. r.op \in {"change_account", "respond"}
    BY <1>6 DEF BrowserOps, AccountOps
  <2>2. Pending(t)' = {}
    BY <1>3, <2>1 DEF Pending, Sending
  <2> QED
    BY <2>2
<1>7. \A y \in Pending(t)' : Fresh(y)
  BY <1>5, <1>6
<1>8. CarriedOK(t)'
  <2>1. cookie[b] = NULL \/ Handed(b, cookie[b])
    BY DEF CookieInv, HandedOK
  <2> QED
    BY <1>1, <1>3, <1>7, <2>1 DEF CarriedOK, Sending, Handed
<1>9. ASSUME b \notin tangled'
      PROVE  PhaseOK(b)'
  <2>1. ~Busy(b) /\ PhaseOK(b)
    BY <1>1, <1>9 DEF CookieInv
  <2>2. following[b] = {} /\ \A s \in Thread : ~In(s, b)
    BY <2>1 DEF Busy, In, BrowserOps
  <2>3. cookie[b] = NULL
    BY <2>1, <2>2 DEF PhaseOK, IdlePhase, WorkPhase, WaitPhase, ShowPhase
  <2>4. In(t, b)' /\ \A s \in Thread \ {t} : ~In(s, b)'
    BY <1>3, <1>4, <2>2 DEF In, Moves
  <2>5. WorkPhase(b)'
    BY <1>1, <1>3, <2>2, <2>3, <2>4 DEF WorkPhase
  <2> QED
    BY <2>5 DEF PhaseOK
<1> QED
  BY <1>4, <1>7, <1>8, <1>9, MovesKeep

\* A request goes on, with the jar it has or with the password it has.
LEMMA WorkKeeps ==
  ASSUME CookieInv, NEW t \in Thread, NEW r, NEW columns, Stepped(t, r, columns),
         UNCHANGED <<passwords, cookie, following, handed, shown, lost, tangled>>,
         request[t].op \in BrowserOps \ {"respond"}, "op" \in DOMAIN r,
         r.op \in {"deliver", "respond"}, r.browser = request[t].browser,
         r.op = "respond" => r.page = NULL /\ r.displays = NULL,
         \/ r.jar = request[t].jar /\ r.op = "respond" /\ r.redirect = NULL
         \/ r.jar = request[t].jar /\ r.op = "deliver" /\ {r.temporary} = Pending(t)
         \/ r.op = "respond" /\ {r.jar} = Pending(t) /\ r.redirect = r.jar.user
  PROVE  CookieInv'
<1>0. PICK b : b = request[t].browser
  OBVIOUS
<1>1. request'[t] = r /\ RequestsOK'
  BY DEF Stepped, RequestsOK, CookieInv
<1>2. b \in Browser /\ In(t, b) /\ In(t, b)'
  BY <1>0, <1>1 DEF CookieInv, CarriedOK, In, BrowserOps, AccountOps
<1>3. Moves(t, b)
  BY <1>0, <1>1, <1>2 DEF Moves, Stepped, CookieInv, HandedOK, In
<1>4. ~Sending(t)
  BY DEF Sending
<1>5. Pending(t)' \subseteq Pending(t)
  <2>1. CASE r.op = "deliver"
    BY <1>1, <2>1 DEF Pending
  <2>2. CASE r.op = "respond" /\ r.redirect = NULL
    BY <1>1, <2>2 DEF Pending, Sending
  <2>3. CASE r.op = "respond" /\ {r.jar} = Pending(t)
    BY <1>1, <2>3 DEF Pending, Sending
  <2> QED
    BY <2>1, <2>2, <2>3
<1>6. CarriedOK(t)
  BY DEF CookieInv
<1>7. r.op = "respond" /\ {r.jar} = Pending(t) /\ r.redirect = r.jar.user => r.redirect # NULL
  <2>1. \A x \in Pending(t) : x \in Temporary
    BY <1>6 DEF CarriedOK
  <2>2. \A x \in Temporary : x.user # NULL
    BY AccountsAssumption DEF Temporary
  <2> QED
    BY <2>1, <2>2
<1>8. \/ Sending(t)' /\ r.redirect = r.jar.user
      \/ ~Sending(t)' /\ r.jar = request[t].jar
  BY <1>1, <1>7 DEF Sending
<1>9. CarriedOK(t)'
  <2>1. \A x \in Pending(t)' : x \in Temporary /\ x.password <= passwords'
                              /\ \A h \in handed' : h.temporary # x
    BY <1>5, <1>6 DEF CarriedOK
  <2>2. request[t].jar = NULL \/ Handed(b, request[t].jar)
    BY <1>0, <1>4, <1>6 DEF CarriedOK
  <2> QED
    BY <1>0, <1>1, <1>2, <1>8, <2>1, <2>2 DEF CarriedOK, Handed
<1>10. ASSUME b \notin tangled'
       PROVE  PhaseOK(b)'
  <2>1. PhaseOK(b)
    BY <1>2, <1>10 DEF CookieInv
  <2>2. /\ following[b] = {} /\ \A s \in Thread \ {t} : ~In(s, b)
        /\ cookie[b] = NULL /\ request[t].jar = NULL
    BY <1>2, <1>4, <2>1, PhaseOf
  <2>3. \A s \in Thread \ {t} : ~In(s, b)'
    BY <1>3, <2>2 DEF In, Moves
  <2>4. WorkPhase(b)'
    BY <1>1, <1>2, <1>8, <2>2, <2>3 DEF WorkPhase
  <2> QED
    BY <2>4 DEF PhaseOK
<1> QED
  BY <1>2, <1>3, <1>5, <1>9, <1>10, MovesKeep

\* The page that a redirect leads to takes the password out of the cookie.
LEMMA OpenPageKeeps ==
  ASSUME CookieInv, NEW t \in Thread, OpenUserPage(t)
  PROVE  CookieInv'
<1>0. PICK b \in Browser : \E u \in following[b] :
        /\ Begin(t, "accounts",
             [op |-> "respond", page |-> u, displays |-> cookie[b], redirect |-> NULL,
              browser |-> b, jar |-> NULL])
        /\ following' = [following EXCEPT ![b] = @ \ {u}]
        /\ tangled' = IF \E s \in Thread : In(s, b) THEN tangled \cup {b} ELSE tangled
        /\ UNCHANGED <<account, passwords, cookie, handed, shown, lost>>
  BY DEF OpenUserPage, In, BrowserOps
<1>1. PICK u \in following[b] :
        /\ Begin(t, "accounts",
             [op |-> "respond", page |-> u, displays |-> cookie[b], redirect |-> NULL,
              browser |-> b, jar |-> NULL])
        /\ following' = [following EXCEPT ![b] = @ \ {u}]
        /\ tangled' = IF \E s \in Thread : In(s, b) THEN tangled \cup {b} ELSE tangled
        /\ UNCHANGED <<account, passwords, cookie, handed, shown, lost>>
  BY <1>0
<1> DEFINE r == [op |-> "respond", page |-> u, displays |-> cookie[b], redirect |-> NULL,
                 browser |-> b, jar |-> NULL]
<1>2. Stepped(t, r, {}) /\ request[t].op = "none"
  BY <1>1, BeginSteps, NoRequestHasOp DEF CookieInv, Idle
<1>3. /\ r.op = "respond" /\ r.page = u /\ r.displays = cookie[b] /\ r.redirect = NULL
      /\ r.browser = b /\ r.jar = NULL /\ "op" \in DOMAIN r
  OBVIOUS
<1> HIDE DEF r
<1>4. request'[t] = r /\ RequestsOK'
  BY <1>2, <1>3 DEF Stepped, RequestsOK, CookieInv
<1>5. /\ HandedOK /\ following \in [Browser -> SUBSET User] /\ u \in User
  BY <1>1 DEF CookieInv, HandedOK
<1>6. Moves(t, b)
  <2>1. \A c : In(t, c) \/ In(t, c)' => c = b
    BY <1>2, <1>3, <1>4 DEF In, BrowserOps, AccountOps
  <2>2. following' \in [Browser -> SUBSET User] /\ passwords \in Nat
    BY <1>1, <1>5 DEF HandedOK
  <2> QED
    BY <1>1, <1>2, <1>4, <1>5, <2>1, <2>2 DEF Moves, Stepped
<1>7. Pending(t)' = {} /\ ~Sending(t)' /\ In(t, b)'
  BY <1>3, <1>4 DEF Pending, Sending, In, BrowserOps, AccountOps
<1>8. CarriedOK(t)'
  <2>1. cookie[b] = NULL \/ Handed(b, cookie[b])
    BY DEF CookieInv, HandedOK
  <2> QED
    BY <1>1, <1>3, <1>4, <1>5, <1>7, <2>1 DEF CarriedOK, Handed
<1>9. ASSUME b \notin tangled'
      PROVE  PhaseOK(b)'
  <2>1. PhaseOK(b) /\ \A s \in Thread : ~In(s, b)
    BY <1>1, <1>9 DEF CookieInv
  <2>2. WaitPhase(b)
    BY <1>1, <2>1 DEF PhaseOK, IdlePhase, WorkPhase, ShowPhase
  <2>3. cookie[b] # NULL /\ u = cookie[b].user /\ following'[b] = {}
    BY <1>1, <1>5, <2>2 DEF WaitPhase
  <2>4. \A s \in Thread \ {t} : ~In(s, b)'
    BY <1>6, <2>1 DEF In, Moves
  <2>5. ShowPhase(b)'
    BY <1>1, <1>3, <1>4, <1>7, <2>3, <2>4 DEF ShowPhase
  <2> QED
    BY <2>5 DEF PhaseOK
<1> QED
  BY <1>6, <1>7, <1>8, <1>9, MovesKeep

\* A request that ends without a response: a page that was asked for is asked for again.
LEMMA AbortKeeps ==
  ASSUME CookieInv, NEW t \in Thread, AccountAbort(t), request[t].op \in BrowserOps
  PROVE  CookieInv'
<1>0. PICK b : b = request[t].browser
  OBVIOUS
<1>1. /\ Stepped(t, NoRequest, {})
      /\ UNCHANGED <<passwords, cookie, handed, shown, lost, tangled>>
      /\ following' = IF request[t].op = "respond" /\ request[t].page # NULL
                        THEN [following EXCEPT ![b] = @ \cup {request[t].page}]
                        ELSE following
  BY <1>0, ContinueSteps DEF AccountAbort, CookieInv
<1>2. request'[t].op = "none" /\ RequestsOK'
  BY <1>1, NoRequestHasOp DEF Stepped, RequestsOK, CookieInv
<1>3. /\ b \in Browser /\ In(t, b) /\ CarriedOK(t)
      /\ following \in [Browser -> SUBSET User] /\ passwords \in Nat
      /\ request[t].op = "respond" => request[t].page \in User \cup {NULL}
  BY <1>0 DEF CookieInv, CarriedOK, In, HandedOK
<1>4. following' \in [Browser -> SUBSET User]
      /\ \A c \in Browser \ {b} : following'[c] = following[c]
  <2>1. CASE request[t].op = "respond" /\ request[t].page # NULL
    BY <1>1, <1>3, <2>1
  <2>2. CASE ~(request[t].op = "respond" /\ request[t].page # NULL)
    BY <1>1, <1>3, <2>2
  <2> QED
    BY <2>1, <2>2
<1>5. \A c : In(t, c) \/ In(t, c)' => c = b
  BY <1>0, <1>2 DEF In, BrowserOps, AccountOps
<1>6. Moves(t, b)
  BY <1>1, <1>2, <1>3, <1>4, <1>5 DEF Moves, Stepped
<1>7. Pending(t)' = {} /\ CarriedOK(t)'
  BY <1>2 DEF Pending, Sending, CarriedOK, BrowserOps, AccountOps
<1>8. ASSUME b \notin tangled'
      PROVE  PhaseOK(b)'
  <2>1. PhaseOK(b)
    BY <1>1, <1>3, <1>8 DEF CookieInv
  <2>2. /\ following[b] = {} /\ \A s \in Thread \ {t} : ~In(s, b)
        /\ \/ /\ cookie[b] = NULL
              /\ request[t].op = "respond" => request[t].page = NULL
           \/ /\ cookie[b] # NULL
              /\ request[t].op = "respond" /\ request[t].page = cookie[b].user
    BY <1>3, <2>1, PhaseOf
  <2>3. \A s \in Thread : ~In(s, b)'
    BY <1>2, <1>6, <2>2 DEF In, Moves, BrowserOps, AccountOps
  <2>4. CASE cookie[b] = NULL
    <3>1. IdlePhase(b)'
      BY <1>1, <2>2, <2>3, <2>4 DEF IdlePhase
    <3> QED
      BY <3>1 DEF PhaseOK
  <2>5. CASE cookie[b] # NULL
    <3>1. cookie[b].user \in User /\ cookie[b].user # NULL
      BY <1>3, <2>5, AccountsAssumption DEF CookieInv, HandedOK, Temporary
    <3>2. following'[b] = {cookie[b].user}
      BY <1>1, <1>3, <2>2, <2>5, <3>1
    <3>3. WaitPhase(b)'
      BY <1>1, <2>3, <2>5, <3>2 DEF WaitPhase
    <3> QED
      BY <3>3 DEF PhaseOK
  <2> QED
    BY <2>4, <2>5
<1> QED
  BY <1>3, <1>6, <1>7, <1>8, MovesKeep

\* A response arrives at its browser, the others see nothing of it.
LEMMA RespondSteps ==
  ASSUME CookieInv, NEW t \in Thread, NEW b, b = request[t].browser,
         Respond(t) \/ RespondError(t)
  PROVE  /\ b \in Browser /\ In(t, b) /\ CarriedOK(t) /\ HandedOK
         /\ RequestsOK' /\ Pending(t)' = {} /\ CarriedOK(t)'
         /\ \A c : ~In(t, c)'
         /\ \A s \in Thread \ {t} : request'[s] = request[s]
         /\ \A c \in Browser \ {b} : cookie'[c] = cookie[c] /\ following'[c] = following[c]
         /\ cookie'[b] = request[t].jar
         /\ UNCHANGED <<passwords, tangled>>
<1>1. b \in Browser /\ In(t, b) /\ CarriedOK(t) /\ HandedOK
  BY DEF CookieInv, CarriedOK, In, Respond, RespondError, BrowserOps, AccountOps
<1>2. Stepped(t, NoRequest, {})
  BY ContinueSteps DEF Respond, RespondError, CookieInv
<1>3. request'[t].op = "none" /\ RequestsOK'
  BY <1>2, NoRequestHasOp DEF Stepped, RequestsOK, CookieInv
<1>4. Pending(t)' = {} /\ CarriedOK(t)' /\ \A c : ~In(t, c)'
  BY <1>3 DEF Pending, Sending, CarriedOK, In, BrowserOps, AccountOps
<1>5. /\ cookie' = [cookie EXCEPT ![b] = request[t].jar]
      /\ \/ following' = following
         \/ following' = [following EXCEPT ![b] = @ \cup {request[t].redirect}]
      /\ UNCHANGED <<passwords, tangled>>
  BY DEF Respond, RespondError
<1>6. \A c \in Browser \ {b} : cookie'[c] = cookie[c] /\ following'[c] = following[c]
  BY <1>1, <1>5 DEF HandedOK
<1>7. cookie'[b] = request[t].jar
  BY <1>1, <1>5 DEF HandedOK
<1> QED
  BY <1>1, <1>2, <1>3, <1>4, <1>5, <1>6, <1>7 DEF Stepped

\* What is left to check after a response.
LEMMA RespondKeeps ==
  ASSUME CookieInv, NEW t \in Thread, NEW b, b = request[t].browser,
         Respond(t) \/ RespondError(t),
         HandedOK', OneTabShowsEachPasswordOnce', b \notin tangled => PhaseOK(b)',
         handed \subseteq handed',
         \A h \in handed' \ handed : h.temporary \in Pending(t)
  PROVE  CookieInv'
<1>1. ASSUME NEW s \in Thread \ {t}
      PROVE  CarriedOK(s)' /\ Pending(s)' = Pending(s)
  <2>1. request'[s] = request[s]
    BY RespondSteps
  <2>2. Pending(s)' = Pending(s) /\ (Sending(s)' <=> Sending(s))
    BY <2>1 DEF Pending, Sending
  <2>3. CarriedOK(s) /\ Pending(s) \cap Pending(t) = {}
    BY DEF CookieInv
  <2>4. \A x \in Pending(s) : /\ x \in Temporary /\ x.password <= passwords'
                             /\ \A h \in handed' : h.temporary # x
    BY <2>3, RespondSteps DEF CarriedOK
  <2> QED
    BY <2>1, <2>2, <2>3, <2>4 DEF CarriedOK, Handed
<1>2. ASSUME NEW c \in Browser \ tangled'
      PROVE  PhaseOK(c)'
  <2>1. CASE c = b
    BY <1>2, <2>1, RespondSteps
  <2>2. CASE c # b
    <3>1. Steady(c)
      BY <2>2, RespondSteps DEF Steady, In
    <3> QED
      BY <3>1, SteadyKeeps, RespondSteps DEF CookieInv
  <2> QED
    BY <2>1, <2>2
<1>3. Pending(t)' = {} /\ CarriedOK(t)' /\ RequestsOK'
  BY RespondSteps
<1>4. \A s, u \in Thread : s # u => Pending(s)' \cap Pending(u)' = {}
  <2>1. TAKE s, u \in Thread
  <2>2. HAVE s # u
  <2>3. CASE s = t \/ u = t
    BY <1>3, <2>3
  <2>4. CASE s # t /\ u # t
    <3>1. Pending(s) \cap Pending(u) = {}
      BY <2>2 DEF CookieInv
    <3> QED
      BY <1>1, <2>4, <3>1
  <2> QED
    BY <2>3, <2>4
<1> QED
  BY <1>1, <1>2, <1>3, <1>4 DEF CookieInv

\* The pages that showed a temporary password.
Pages(x) == {s.page : s \in {d \in shown : d.temporary = x}}

\* A temporary password waits, was shown, or was lost.
TabOK(h) ==
  LET waits == cookie[h.browser] = h.temporary
      fails == h.temporary \in lost
  IN  \/ waits /\ ~fails /\ Pages(h.temporary) = {}
      \/ ~waits /\ ~fails /\ Pages(h.temporary) = {h.temporary.user}
      \/ ~waits /\ fails /\ Pages(h.temporary) = {}

\* A temporary password reaches the browser; nobody had it.
LEMMA RespondSending ==
  ASSUME CookieInv, NEW t \in Thread, Respond(t), Sending(t)
  PROVE  CookieInv'
<1>0. PICK b, x : b = request[t].browser /\ x = request[t].jar
  OBVIOUS
<1>1. /\ b \in Browser /\ In(t, b) /\ CarriedOK(t) /\ HandedOK
      /\ \A c : ~In(t, c)'
      /\ \A s \in Thread \ {t} : request'[s] = request[s]
      /\ \A c \in Browser \ {b} : cookie'[c] = cookie[c] /\ following'[c] = following[c]
      /\ cookie'[b] = x
      /\ UNCHANGED <<passwords, tangled>>
  BY <1>0, RespondSteps
<1>2. Pending(t) = {x}
  BY <1>0 DEF Pending, Sending
<1>3. /\ x \in Temporary /\ x.password <= passwords
      /\ \A h \in handed : h.temporary # x
      /\ request[t].redirect = x.user /\ request[t].displays = NULL
  BY <1>0, <1>1, <1>2 DEF CarriedOK, Sending
<1>4. x # NULL /\ x.user \in User /\ x.user # NULL
  BY <1>3, RowsAssumption, AccountsAssumption DEF Temporary
<1>5. /\ handed' = handed \cup {[browser |-> b, temporary |-> x]}
      /\ shown' = shown /\ lost' = lost
      /\ following' = [following EXCEPT ![b] = @ \cup {x.user}]
      /\ cookie' = [cookie EXCEPT ![b] = x]
  BY <1>0, <1>3, <1>4 DEF Respond
<1>6. HandedOK'
  <2> DEFINE new == [browser |-> b, temporary |-> x]
  <2>1. new \in [browser : Browser, temporary : Temporary]
        /\ new.browser = b /\ new.temporary = x /\ handed' = handed \cup {new}
    BY <1>1, <1>3, <1>5
  <2> HIDE DEF new
  <2>2. cookie' \in [Browser -> Temporary \cup {NULL}]
        /\ following' \in [Browser -> SUBSET User]
    BY <1>1, <1>3, <1>4, <1>5 DEF HandedOK
  <2>3. \A h, k \in handed' : h.temporary = k.temporary => h.browser = k.browser
    BY <1>1, <1>3, <2>1 DEF HandedOK
  <2>4. \A h \in handed' : h.temporary.password <= passwords'
    BY <1>1, <1>3, <2>1 DEF HandedOK
  <2>5. /\ \A d \in shown' : \E h \in handed' : h.temporary = d.temporary
        /\ \A y \in lost' : \E h \in handed' : h.temporary = y
    BY <1>1, <1>5 DEF HandedOK
  <2>6. \A c \in Browser : (cookie[c] = NULL \/ Handed(c, cookie[c]))'
    BY <1>1, <1>5 DEF HandedOK, Handed
  <2> QED
    BY <1>1, <2>1, <2>2, <2>3, <2>4, <2>5, <2>6 DEF HandedOK, Handed
<1>7. b \notin tangled =>
        /\ cookie[b] = NULL /\ following[b] = {}
        /\ \A s \in Thread \ {t} : ~In(s, b)
  <2>1. b \notin tangled => PhaseOK(b)
    BY <1>1 DEF CookieInv
  <2> QED
    BY <1>1, <2>1, PhaseOf DEF Sending
<1>8. ASSUME b \notin tangled
      PROVE  PhaseOK(b)'
  <2>1. \A s \in Thread : ~In(s, b)'
    BY <1>1, <1>7, <1>8 DEF In
  <2>2. following'[b] = {x.user}
    BY <1>1, <1>5, <1>7, <1>8 DEF HandedOK
  <2>3. WaitPhase(b)'
    BY <1>1, <1>4, <2>1, <2>2 DEF WaitPhase
  <2> QED
    BY <2>3 DEF PhaseOK
<1>9. OneTabShowsEachPasswordOnce'
  <2>1. ASSUME NEW h \in handed', h.browser \notin tangled
        PROVE  TabOK(h)'
    <3>1. CASE h \notin handed
      <4>1. h.browser = b /\ h.temporary = x
        BY <1>5, <3>1
      <4>2. Pages(x) = {} /\ x \notin lost
        BY <1>1, <1>3 DEF HandedOK, Pages
      <4>3. Pages(x)' = Pages(x)
        BY <1>5 DEF Pages
      <4> QED
        BY <1>1, <1>5, <4>1, <4>2, <4>3 DEF TabOK
    <3>2. CASE h \in handed
      <4>1. TabOK(h)
        BY <2>1, <3>2 DEF CookieInv, OneTabShowsEachPasswordOnce, Pages, TabOK
      <4>2. h.browser \in Browser /\ h.temporary # NULL /\ h.temporary # x
        BY <1>1, <1>3, <3>2, RowsAssumption DEF HandedOK
      <4>3. cookie'[h.browser] = h.temporary <=> cookie[h.browser] = h.temporary
        BY <1>1, <1>7, <2>1, <4>2
      <4>4. Pages(h.temporary)' = Pages(h.temporary)
        BY <1>5 DEF Pages
      <4> QED
        BY <1>5, <4>1, <4>3, <4>4 DEF TabOK
    <3> QED
      BY <3>1, <3>2
  <2> QED
    BY <1>1, <2>1 DEF OneTabShowsEachPasswordOnce, Pages, TabOK
<1>10. handed \subseteq handed' /\ \A h \in handed' \ handed : h.temporary \in Pending(t)
  BY <1>2, <1>5
<1> QED
  BY <1>0, <1>6, <1>8, <1>9, <1>10, RespondKeeps

\* A response without one: the cookie keeps what it had, or its page shows it, or
\* fails and has taken it.
LEMMA RespondPlain ==
  ASSUME CookieInv, NEW t \in Thread,
         (Respond(t) /\ ~Sending(t)) \/ RespondError(t)
  PROVE  CookieInv'
<1>0. PICK b, x, page :
        /\ b = request[t].browser /\ page = request[t].page
        /\ x = IF request[t].op = "respond" THEN request[t].displays ELSE NULL
  OBVIOUS
<1>1. /\ b \in Browser /\ In(t, b) /\ CarriedOK(t) /\ HandedOK
      /\ \A c : ~In(t, c)'
      /\ \A s \in Thread \ {t} : request'[s] = request[s]
      /\ \A c \in Browser \ {b} : cookie'[c] = cookie[c]
      /\ cookie'[b] = request[t].jar
      /\ UNCHANGED <<passwords, tangled>>
  BY <1>0, RespondSteps
<1>2. ~Sending(t) /\ (request[t].op = "respond" => request[t].redirect = NULL)
  BY DEF Respond, RespondError, Sending
<1>3. /\ handed' = handed /\ following' = following
      /\ cookie' = [cookie EXCEPT ![b] = request[t].jar]
      /\ \/ /\ lost' = lost
            /\ shown' = IF x = NULL THEN shown
                        ELSE shown \cup {[page |-> page, temporary |-> x]}
         \/ /\ lost' = IF x = NULL THEN lost ELSE lost \cup {x}
            /\ shown' = shown
  <2>1. CASE Respond(t)
    BY <1>0, <1>2, <2>1 DEF Respond
  <2>2. CASE RespondError(t)
    BY <1>0, <2>2 DEF RespondError
  <2> QED
    BY <2>1, <2>2
<1>4. /\ request[t].jar = NULL \/ Handed(b, request[t].jar)
      /\ x = NULL \/ Handed(b, x)
  BY <1>0, <1>1, <1>2 DEF CarriedOK, In
<1>5. \A y : Handed(b, y) => y \in Temporary /\ y # NULL
  BY <1>1, RowsAssumption DEF HandedOK, Handed
<1>6. HandedOK'
  <2>1. cookie' \in [Browser -> Temporary \cup {NULL}]
    BY <1>1, <1>3, <1>4, <1>5 DEF HandedOK
  <2>2. \A c \in Browser : (cookie[c] = NULL \/ Handed(c, cookie[c]))'
    BY <1>1, <1>3, <1>4 DEF HandedOK, Handed
  <2>3. /\ \A d \in shown' : \E h \in handed : h.temporary = d.temporary
        /\ \A y \in lost' : \E h \in handed : h.temporary = y
    <3>1. x # NULL => \E h \in handed : h.temporary = x
      BY <1>4 DEF Handed
    <3> QED
      BY <1>1, <1>3, <3>1 DEF HandedOK
  <2> QED
    BY <1>1, <1>3, <2>1, <2>2, <2>3 DEF HandedOK, Handed
<1>7. ASSUME b \notin tangled
      PROVE  /\ following[b] = {} /\ \A s \in Thread \ {t} : ~In(s, b)
             /\ request[t].jar = NULL
             /\ \/ cookie[b] = NULL /\ x = NULL
                \/ cookie[b] # NULL /\ x = cookie[b] /\ page = cookie[b].user
  <2>1. PhaseOK(b)
    BY <1>1, <1>7 DEF CookieInv
  <2>2. cookie[b] # NULL => cookie[b] \in Temporary
    BY <1>1 DEF HandedOK
  <2> QED
    BY <1>0, <1>1, <1>2, <2>1, <2>2, PhaseOf
<1>8. ASSUME b \notin tangled
      PROVE  PhaseOK(b)'
  <2>1. \A s \in Thread : ~In(s, b)'
    BY <1>1, <1>7, <1>8 DEF In
  <2>2. IdlePhase(b)'
    BY <1>1, <1>3, <1>7, <1>8, <2>1 DEF IdlePhase
  <2> QED
    BY <2>2 DEF PhaseOK
<1>9. OneTabShowsEachPasswordOnce'
  <2>1. ASSUME NEW h \in handed, h.browser \notin tangled
        PROVE  TabOK(h)'
    <3>1. TabOK(h)
      BY <2>1 DEF CookieInv, OneTabShowsEachPasswordOnce, Pages, TabOK
    <3>2. h.browser \in Browser /\ h.temporary # NULL
      BY <1>1, RowsAssumption DEF HandedOK
    <3>3. ASSUME x # h.temporary
          PROVE  /\ Pages(h.temporary)' = Pages(h.temporary)
                 /\ h.temporary \in lost' <=> h.temporary \in lost
      BY <1>3, <3>3 DEF Pages
    <3>4. CASE h.browser # b
      <4>1. x # h.temporary
        BY <1>1, <1>4, <3>2, <3>4 DEF HandedOK, Handed
      <4>2. cookie'[h.browser] = cookie[h.browser]
        BY <1>1, <3>2, <3>4
      <4> QED
        BY <3>1, <3>3, <4>1, <4>2 DEF TabOK
    <3>5. CASE h.browser = b
      <4>1. /\ cookie'[b] = NULL
            /\ \/ cookie[b] = NULL /\ x = NULL
               \/ cookie[b] # NULL /\ x = cookie[b] /\ page = cookie[b].user
        BY <1>1, <1>7, <2>1, <3>5
      <4>2. CASE x # h.temporary
        BY <3>1, <3>2, <3>3, <3>5, <4>1, <4>2 DEF TabOK
      <4>3. CASE x = h.temporary
        <5>1. /\ cookie[b] = x /\ x # NULL /\ page = x.user
              /\ Pages(x) = {} /\ x \notin lost
          BY <3>1, <3>2, <3>5, <4>1, <4>3 DEF TabOK
        <5>2. \/ Pages(x)' = {page} /\ x \notin lost'
              \/ Pages(x)' = {} /\ x \in lost'
          <6> DEFINE d == [page |-> page, temporary |-> x]
          <6>1. /\ d.page = page /\ d.temporary = x
                /\ \/ shown' = shown \cup {d} /\ lost' = lost
                   \/ shown' = shown /\ lost' = lost \cup {x}
            BY <1>3, <5>1
          <6> HIDE DEF d
          <6> QED
            BY <5>1, <6>1 DEF Pages
        <5> QED
          BY <3>2, <3>5, <4>1, <4>3, <5>1, <5>2 DEF TabOK
      <4> QED
        BY <4>2, <4>3
    <3> QED
      BY <3>4, <3>5
  <2> QED
    BY <1>1, <1>3, <2>1 DEF OneTabShowsEachPasswordOnce, Pages, TabOK
<1> QED
  BY <1>0, <1>3, <1>6, <1>8, <1>9, RespondKeeps

AtAccounts == \A t \in Thread : request[t].op \in BrowserOps => desk = "accounts"

LEMMA ElsewhereOpsApart ==
  /\ (RegistryOps \cup None) \cap BrowserOps = {}
  /\ (AttachmentOps \cup None) \cap BrowserOps = {}
  /\ (SettingsOps \cup None) \cap BrowserOps = {}
  BY DEF RegistryOps, AttachmentOps, SettingsOps, AccountOps, BrowserOps, None

LEMMA AtAccountsKept ==
  ASSUME RequestsOK, AtAccounts, [Next]_vars
  PROVE  AtAccounts'
<1>1. ASSUME NEW t \in Thread, RegistryStep(t) \/ AttachmentStep(t) \/ SettingsStep(t)
      PROVE  AtAccounts'
  BY <1>1, ElsewhereOpsApart, RegistryStepMoves, AttachmentStepMoves, SettingsStepMoves
  DEF Moved, AtAccounts
<1>2. ASSUME NEW t \in Thread, AccountStep(t)
      PROVE  AtAccounts'
  <2>1. Moved(t, AccountOps \cup None)
    BY <1>2, AccountStepMoves
  <2>2. desk = "accounts" \/ request[t].op \in AccountOps
    BY <1>2 DEF AccountStep, CreateUser, ResetPassword, ChangeRole, EditSlackHandle,
      BeginChange, OpenUserPage, OpenAnotherPage, ChangePassword, BeginInBrowser, Begin,
      CommitPassword, CommitChange, CommitOwnPassword, Deliver, Respond, RespondError,
      AccountAbort, AccountOps
  <2>3. request[t].op = "change_password" => request'[t].op \notin BrowserOps
    <3>1. ASSUME request[t].op = "change_password"
          PROVE  \E columns : Stepped(t, NoRequest, columns)
      <4>1. CommitOwnPassword(t) \/ AccountAbort(t)
        BY <1>2, <3>1, NoRequestHasOp
        DEF AccountStep, CreateUser, ResetPassword, ChangeRole, EditSlackHandle,
            BeginChange, OpenUserPage, OpenAnotherPage, ChangePassword, BeginInBrowser,
            Begin, Idle, CommitPassword, CommitChange, Deliver, Respond, RespondError
      <4> QED
        BY <4>1, CommitSteps, ContinueSteps
        DEF CommitOwnPassword, WriteOwnPassword, AccountAbort
    <3> QED
      BY <3>1, NoRequestHasOp DEF Stepped, BrowserOps, AccountOps
  <2> QED
    BY <2>1, <2>2, <2>3 DEF Moved, AtAccounts, BrowserOps
<1>3. CASE Restart
  BY <1>3, RestartEmpties DEF AtAccounts, BrowserOps, AccountOps
<1>4. CASE SeedAdmin \/ ReadVersion \/ UNCHANGED vars
  BY <1>4 DEF SeedAdmin, ReadVersion, vars, requestVars, AtAccounts
<1> QED
  BY <1>1, <1>2, <1>3, <1>4 DEF Next

LEMMA CreateKeepsCookies ==
  ASSUME CookieInv, PasswordInv, NEW t \in Thread, CreateUser(t) \/ ResetPassword(t)
  PROVE  CookieInv'
<1>1. PICK b, u, op, row :
        /\ b \in Browser /\ u \in User /\ op \in {"create_user", "reset_password"}
        /\ passwords' = passwords + 1
        /\ row.password = passwords'
        /\ BeginInBrowser(t, b,
             [op |-> op, user |-> u, browser |-> b, jar |-> cookie[b], to |-> row])
  <2>1. CASE CreateUser(t)
    BY <2>1 DEF CreateUser
  <2>2. CASE ResetPassword(t)
    <3>1. PICK b \in Browser, u \in User :
            /\ account[u] # NULL
            /\ passwords' = passwords + 1
            /\ BeginInBrowser(t, b,
                 [op |-> "reset_password", user |-> u, browser |-> b, jar |-> cookie[b],
                  to |-> [account[u] EXCEPT !.password = passwords']])
      BY <2>2 DEF ResetPassword
    <3>2. "password" \in DOMAIN account[u]
      BY <3>1 DEF PasswordInv, AccountRow
    <3>3. [account[u] EXCEPT !.password = passwords'].password = passwords'
      BY <3>2
    <3> QED
      BY <3>1, <3>3
  <2> QED
    BY <2>1, <2>2
<1> DEFINE r == [op |-> op, user |-> u, browser |-> b, jar |-> cookie[b], to |-> row]
<1>2. /\ r.op = op /\ r.user = u /\ r.browser = b /\ r.jar = cookie[b] /\ r.to = row
      /\ "op" \in DOMAIN r /\ BeginInBrowser(t, b, r)
  BY <1>1
<1> HIDE DEF r
<1>3. passwords' \in Nat /\ passwords' >= passwords
  BY <1>1 DEF PasswordInv
<1>4. r.op \in BrowserOps \ {"deliver"} /\ r.op # "respond"
  BY <1>1, <1>2 DEF BrowserOps, AccountOps
<1> QED
  BY <1>1, <1>2, <1>3, <1>4, BeginKeeps

LEMMA PageKeepsCookies ==
  ASSUME CookieInv, NEW t \in Thread,
         ChangeRole(t) \/ EditSlackHandle(t) \/ OpenAnotherPage(t)
  PROVE  CookieInv'
<1>1. PICK b, r :
        /\ b \in Browser /\ BeginInBrowser(t, b, r) /\ UNCHANGED passwords
        /\ r.op \in {"change_account", "respond"} /\ "op" \in DOMAIN r
        /\ r.browser = b /\ r.jar = cookie[b]
        /\ r.op = "respond" => r.page = NULL /\ r.displays = NULL /\ r.redirect = NULL
  <2>1. CASE ChangeRole(t) \/ EditSlackHandle(t)
    <3>1. PICK b, u, row : b \in Browser /\ BeginChange(t, b, u, row)
      BY <2>1 DEF ChangeRole, EditSlackHandle
    <3> DEFINE r == [op |-> "change_account", user |-> u, browser |-> b, jar |-> cookie[b],
                     to |-> row]
    <3>2. /\ BeginInBrowser(t, b, r) /\ UNCHANGED passwords
          /\ r.op = "change_account" /\ "op" \in DOMAIN r
          /\ r.browser = b /\ r.jar = cookie[b]
      BY <3>1 DEF BeginChange
    <3> HIDE DEF r
    <3> QED
      BY <3>1, <3>2
  <2>2. CASE OpenAnotherPage(t)
    <3>1. PICK b \in Browser :
            /\ BeginInBrowser(t, b,
                 [op |-> "respond", page |-> NULL, displays |-> NULL, redirect |-> NULL,
                  browser |-> b, jar |-> cookie[b]])
            /\ UNCHANGED passwords
      BY <2>2 DEF OpenAnotherPage
    <3> QED
      BY <3>1
  <2> QED
    BY <2>1, <2>2
<1>2. passwords \in Nat /\ r.op \in BrowserOps \ {"deliver"}
  BY <1>1 DEF CookieInv, HandedOK, BrowserOps, AccountOps
<1> QED
  BY <1>1, <1>2, BeginKeeps

LEMMA CommitKeepsCookies ==
  ASSUME CookieInv, NEW t \in Thread, CommitPassword(t) \/ CommitChange(t) \/ Deliver(t)
  PROVE  CookieInv'
<1>1. UNCHANGED <<passwords, cookie, following, handed, shown, lost, tangled>>
  BY DEF CommitPassword, CommitChange, Deliver, accountVars
<1>2. CASE CommitPassword(t)
  <2> DEFINE x == [user |-> request[t].user, password |-> request[t].to.password]
             r == [op |-> "deliver", browser |-> request[t].browser,
                   jar |-> request[t].jar, temporary |-> x]
  <2>1. /\ request[t].op \in {"create_user", "reset_password"}
        /\ \E columns : Commit(t, r, columns)
    BY <1>2 DEF CommitPassword
  <2>2. Pending(t) = {x}
    BY <2>1 DEF Pending
  <2>3. /\ r.op = "deliver" /\ "op" \in DOMAIN r /\ {r.temporary} = Pending(t)
        /\ r.browser = request[t].browser /\ r.jar = request[t].jar
    BY <2>2
  <2> HIDE DEF r
  <2>4. PICK columns : Stepped(t, r, columns)
    BY <2>1, CommitSteps DEF CookieInv
  <2>5. request[t].op \in BrowserOps \ {"respond"}
    BY <2>1 DEF BrowserOps, AccountOps
  <2> QED
    BY <1>1, <2>3, <2>4, <2>5, WorkKeeps
<1>3. ASSUME NEW jar, NEW redirect, NEW columns,
             Stepped(t, Response(request[t], jar, redirect), columns),
             request[t].op \in BrowserOps \ {"respond"},
             \/ jar = request[t].jar /\ redirect = NULL
             \/ {jar} = Pending(t) /\ redirect = jar.user
      PROVE  CookieInv'
  <2> DEFINE r == Response(request[t], jar, redirect)
  <2>1. /\ r.op = "respond" /\ "op" \in DOMAIN r /\ r.browser = request[t].browser
        /\ r.page = NULL /\ r.displays = NULL /\ r.jar = jar /\ r.redirect = redirect
        /\ Stepped(t, r, columns)
    BY <1>3 DEF Response
  <2> HIDE DEF r
  <2> QED
    BY <1>1, <1>3, <2>1, WorkKeeps
<1>4. CASE CommitChange(t)
  <2>1. /\ request[t].op = "change_account"
        /\ \E columns : Commit(t, Response(request[t], request[t].jar, NULL), columns)
    BY <1>4 DEF CommitChange
  <2>2. \E columns : Stepped(t, Response(request[t], request[t].jar, NULL), columns)
    BY <2>1, CommitSteps DEF CookieInv
  <2> QED
    BY <1>3, <2>1, <2>2 DEF BrowserOps, AccountOps
<1>5. CASE Deliver(t)
  <2>1. /\ request[t].op = "deliver"
        /\ \/ Continue(t, Response(request[t], request[t].jar, NULL))
           \/ Continue(t, Response(request[t], request[t].temporary,
                                   request[t].temporary.user))
    BY <1>5 DEF Deliver
  <2>2. \/ Stepped(t, Response(request[t], request[t].jar, NULL), {})
        \/ Stepped(t, Response(request[t], request[t].temporary,
                               request[t].temporary.user), {})
    BY <2>1, ContinueSteps DEF CookieInv
  <2>3. Pending(t) = {request[t].temporary} /\ request[t].op \in BrowserOps \ {"respond"}
    BY <2>1 DEF Pending, BrowserOps, AccountOps
  <2> QED
    BY <1>3, <2>2, <2>3
<1> QED
  BY <1>2, <1>4, <1>5

LEMMA OwnPasswordKeepsCookies ==
  ASSUME CookieInv, NEW t \in Thread,
         \/ ChangePassword(t) \/ CommitOwnPassword(t)
         \/ AccountAbort(t) /\ request[t].op = "change_password"
  PROVE  CookieInv'
<1>1. PICK r, columns : Stepped(t, r, columns) /\ r.op \in {"change_password", "none"}
                        /\ "op" \in DOMAIN r
  <2>1. CASE ChangePassword(t)
    <3>1. PICK u : Begin(t, "accounts",
            [op |-> "change_password", user |-> u, presented |-> account[u].password,
             to |-> [account[u] EXCEPT !.password = passwords']])
      BY <2>1 DEF ChangePassword
    <3> DEFINE r == [op |-> "change_password", user |-> u,
                     presented |-> account[u].password,
                     to |-> [account[u] EXCEPT !.password = passwords']]
    <3>2. Stepped(t, r, {}) /\ r.op = "change_password" /\ "op" \in DOMAIN r
      BY <3>1, BeginSteps DEF CookieInv
    <3> HIDE DEF r
    <3> QED
      BY <3>2
  <2>2. CASE CommitOwnPassword(t)
    BY <2>2, CommitSteps, NoRequestHasOp
    DEF CommitOwnPassword, WriteOwnPassword, CookieInv
  <2>3. CASE AccountAbort(t)
    BY <2>3, ContinueSteps, NoRequestHasOp DEF AccountAbort, CookieInv
  <2> QED
    BY <2>1, <2>2, <2>3
<1>2. request[t].op \in {"change_password", "none"}
  BY NoRequestHasOp
  DEF ChangePassword, CommitOwnPassword, WriteOwnPassword, Begin, Idle
<1>3. /\ UNCHANGED <<cookie, following, handed, shown, lost, tangled>>
      /\ passwords' = passwords \/ passwords' = passwords + 1
  BY DEF ChangePassword, CommitOwnPassword, WriteOwnPassword, AccountAbort
<1>4. passwords' \in Nat /\ passwords' >= passwords
  BY <1>3 DEF CookieInv, HandedOK
<1>5. RequestsOK' /\ \A s \in Thread : \/ request'[s] = request[s]
                                      \/ /\ request[s].op \notin BrowserOps
                                         /\ request'[s].op \notin BrowserOps
  BY <1>1, <1>2 DEF Stepped, RequestsOK, CookieInv, BrowserOps, AccountOps
<1> QED
  BY <1>3, <1>4, <1>5, ElsewhereStep

LEMMA CookieInvariant ==
  CookieInv /\ PasswordInv /\ AtAccounts /\ [Next]_vars => (CookieInv /\ AtAccounts)'
<1> SUFFICES ASSUME CookieInv, PasswordInv, AtAccounts, [Next]_vars
             PROVE  CookieInv'
  BY AtAccountsKept DEF CookieInv
<1>1. ASSUME NEW t \in Thread, AccountStep(t)
      PROVE  CookieInv'
  <2>1. AccountAbort(t) => request[t].op \in BrowserOps \/ request[t].op = "change_password"
    BY DEF AccountAbort, BrowserOps
  <2> QED
    BY <1>1, <2>1, CreateKeepsCookies, PageKeepsCookies, CommitKeepsCookies,
       OwnPasswordKeepsCookies, OpenPageKeeps, AbortKeeps, RespondSending, RespondPlain
    DEF AccountStep
<1>2. passwords \in Nat /\ RequestsOK
  BY DEF PasswordInv
<1>3. ASSUME NEW t \in Thread, RegistryStep(t) \/ AttachmentStep(t) \/ SettingsStep(t),
             UNCHANGED accountVars
      PROVE  CookieInv'
  <2>1. PICK ops : Moved(t, ops) /\ ops \cap BrowserOps = {}
    BY <1>2, <1>3, ElsewhereOpsApart, RegistryStepMoves, AttachmentStepMoves,
       SettingsStepMoves
  <2>2. RequestsOK' /\ \A s \in Thread : \/ request'[s] = request[s]
                                        \/ /\ request[s].op \notin BrowserOps
                                           /\ request'[s].op \notin BrowserOps
    BY <2>1 DEF Moved
  <2> QED
    BY <1>2, <1>3, <2>2, ElsewhereStep DEF accountVars
<1>4. CASE SeedAdmin
  <2>1. /\ UNCHANGED <<cookie, following, handed, shown, lost, tangled, request, changed>>
        /\ passwords' \in Nat /\ passwords' >= passwords
    BY <1>2, <1>4 DEF SeedAdmin, requestVars
  <2> QED
    BY <1>2, <2>1, ElsewhereStep DEF RequestsOK
<1>5. CASE Restart /\ UNCHANGED accountVars
  <2>1. \A t \in Thread : request[t].op \notin BrowserOps /\ request'[t].op \notin BrowserOps
    BY <1>2, <1>5, RestartEmpties DEF AtAccounts, Restart, BrowserOps, AccountOps
  <2> QED
    BY <1>2, <1>5, <2>1, RestartEmpties, ElsewhereStep DEF accountVars
<1>6. CASE UNCHANGED <<request, changed>> /\ UNCHANGED accountVars
  BY <1>2, <1>6, ElsewhereStep DEF accountVars, RequestsOK
<1>7. (ReadVersion \/ UNCHANGED vars) => UNCHANGED <<request, changed>>
  BY DEF ReadVersion, requestVars, vars
<1> QED
  BY <1>1, <1>3, <1>4, <1>5, <1>6, <1>7 DEF Next, vars

LEMMA CookiesInitially ==
  ASSUME Init
  PROVE  CookieInv /\ AtAccounts
<1>1. RequestsOK /\ \A t \in Thread : request[t].op = "none"
  BY RequestsInitially
<1>2. /\ passwords = 0 /\ handed = {} /\ shown = {} /\ lost = {} /\ tangled = {}
      /\ cookie = [b \in Browser |-> NULL] /\ following = [b \in Browser |-> {}]
  BY DEF Init, AccountInit
<1>3. HandedOK
  BY <1>2 DEF HandedOK
<1>4. \A t \in Thread : Pending(t) = {} /\ CarriedOK(t)
  BY <1>1 DEF Pending, Sending, CarriedOK, BrowserOps, AccountOps
<1>5. \A b \in Browser : PhaseOK(b)
  BY <1>1, <1>2 DEF PhaseOK, IdlePhase, In, BrowserOps, AccountOps
<1>6. OneTabShowsEachPasswordOnce
  BY <1>2 DEF OneTabShowsEachPasswordOnce
<1> QED
  BY <1>1, <1>3, <1>4, <1>5, <1>6 DEF CookieInv, AtAccounts, BrowserOps, AccountOps

\* In a browser that does one thing at a time, a temporary password that went into the
\* cookie waits there for its page, was shown there, once, or was lost with that page when
\* it failed, whatever other browsers, tangled ones too, other requests and failures do.
THEOREM PasswordsAreShownOnce == Spec => []OneTabShowsEachPasswordOnce
<1> DEFINE Inv == CookieInv /\ PasswordInv /\ AtAccounts
<1>1. Init => Inv
  BY CookiesInitially, PasswordInitially
<1>2. Inv /\ [Next]_vars => Inv'
  BY CookieInvariant, PasswordInvariant
<1>3. Inv => OneTabShowsEachPasswordOnce
  BY DEF CookieInv
<1> QED
  BY <1>1, <1>2, <1>3, PTL DEF Spec

-----------------------------------------------------------------------------
(* The settings and the guide, for any number of threads, keys, values and *)
(* restarts.  The invariant relates three places a setting is in: the      *)
(* table, what a request has read of it, and the page of the guide, in the *)
(* cache or on its way there.                                              *)

\* There is a next key, or the place after the last.
LEMMA NextKeyExists ==
  ASSUME NEW form, NEW table, NEW from \in Nat, from <= Len(ConfigKey) + 1
  PROVE  NextKey(form, table, from) \in from .. Len(ConfigKey) + 1
<1>0. Len(ConfigKey) \in Nat
  BY SettingsAssumption
<1> DEFINE T == {i \in from .. Len(ConfigKey) + 1 :
                   i <= Len(ConfigKey)
                     => form[ConfigKey[i]] # Setting(table, ConfigKey[i])}
<1>1. T \subseteq Nat /\ Len(ConfigKey) + 1 \in T
  BY <1>0
<1>2. PICK i \in T : \A j \in T : <<j, i>> \notin OpToRel(<, Nat)
  BY <1>1, NatLessThanWellFounded, WFMin
<1>3. \A j \in T : ~(j < i)
  BY <1>1, <1>2 DEF OpToRel
<1>4. /\ i \in from .. Len(ConfigKey) + 1
      /\ i <= Len(ConfigKey) => form[ConfigKey[i]] # Setting(table, ConfigKey[i])
      /\ \A j \in from .. i - 1 : form[ConfigKey[j]] = Setting(table, ConfigKey[j])
  BY <1>0, <1>1, <1>3
<1> QED
  BY <1>4 DEF NextKey

-----------------------------------------------------------------------------
(* The table, and what those who save have read of it.                     *)

\* What a request that saves holds agrees with the table, as long as nobody wrote the
\* row since its snapshot; and the view has read the same of the key in hand, or no row
\* before the insert that was refused.
SaverOK(t) ==
  LET r == request[t] IN
  r.op = "save_settings" =>
    /\ r \in SaveRequest
    /\ \A key \in Keys : Unchanged(t, key) => config[key] = r.seen[key]
    /\ r.at <= Len(ConfigKey) =>
         r.viewed[ConfigKey[r.at]] \in {r.seen[ConfigKey[r.at]], NULL}

SaversInv ==
  /\ RequestsOK
  /\ config \in Table
  /\ \A t \in Thread : SaverOK(t)

\* Who writes a key leaves its mark in changed[u].
ValuesTracked(u) ==
  /\ changed[u] \subseteq changed'[u]
  /\ \A key \in Keys : config'[key] = config[key] \/ <<key, "value">> \in changed'[u]

LEMMA OthersKeepSaverOK ==
  ASSUME NEW u \in Thread, SaverOK(u), request'[u] = request[u],
         ValuesTracked(u) \/ Idle(u)
  PROVE  SaverOK(u)'
<1>1. CASE Idle(u)
  BY <1>1, NoRequestHasOp DEF Idle, SaverOK
<1>2. CASE request[u].op = "save_settings" /\ ValuesTracked(u)
  <2>1. ASSUME NEW key \in Keys, Unchanged(u, key)'
        PROVE  config'[key] = request[u].seen[key]
    <3>1. \A c \in changed'[u] : c[1] # key
      BY <2>1 DEF Unchanged
    <3>2. <<key, "value">> \notin changed'[u]
      BY <3>1
    <3>3. Unchanged(u, key)
      BY <1>2, <3>1 DEF Unchanged, ValuesTracked
    <3> QED
      BY <1>2, <3>2, <3>3 DEF ValuesTracked, SaverOK
  <2> QED
    BY <1>2, <2>1 DEF SaverOK
<1> QED
  BY <1>1, <1>2 DEF SaverOK

LEMMA SaversStep ==
  ASSUME SaversInv, NEW t \in Thread, NEW ops, Moved(t, ops), SaverOK(t)',
         config' \in Table, \A u \in Thread \ {t} : Idle(u) \/ ValuesTracked(u)
  PROVE  SaversInv'
<1>1. \A u \in Thread \ {t} : SaverOK(u)'
  BY OthersKeepSaverOK DEF SaversInv, Moved
<1> QED
  BY <1>1 DEF SaversInv, Moved

LEMMA ValuesKeptTracked ==
  ASSUME NEW t \in Thread, NEW ops, Moved(t, ops), UNCHANGED config
  PROVE  \A u \in Thread \ {t} : Idle(u) \/ ValuesTracked(u)
  BY DEF Moved, ValuesTracked

LEMMA SaveSettingsKeeps ==
  ASSUME SaversInv, NEW t \in Thread, SaveSettings(t)
  PROVE  SaverOK(t)' /\ UNCHANGED config
<1>1. PICK form \in [Keys -> Value] :
        Begin(t, "settings",
          [op |-> "save_settings", form |-> form, viewed |-> config, seen |-> config,
           at |-> NextKey(form, config, 1), saved |-> FALSE])
  BY DEF SaveSettings
<1> DEFINE at == NextKey(form, config, 1)
           r == [op |-> "save_settings", form |-> form, viewed |-> config, seen |-> config,
                 at |-> at, saved |-> FALSE]
<1>2. at \in 1 .. Len(ConfigKey) + 1
  <2>1. 1 <= Len(ConfigKey) + 1
    BY SettingsAssumption
  <2> QED
    BY <2>1, NextKeyExists
<1>3. request'[t] = r /\ UNCHANGED config
  BY <1>1, BeginSteps DEF SaversInv, Stepped, SaveSettings, settingsVars
<1> HIDE DEF at
<1>4. r \in SaveRequest /\ r.viewed = config /\ r.seen = config
  BY <1>2 DEF SaversInv, SaveRequest
<1> HIDE DEF r
<1> QED
  BY <1>3, <1>4 DEF SaverOK

\* The request goes on with what it has read of a new snapshot.
LEMMA NextFromHolds ==
  ASSUME NEW r \in SaveRequest, r.at <= Len(ConfigKey), NEW table \in Table
  PROVE  LET next == NextFrom(r, table) IN
         /\ next \in SaveRequest
         /\ next.viewed = table /\ next.seen = table /\ next.saved = r.saved
<1> DEFINE at == NextKey(r.form, table, r.at + 1)
<1>1. r.at + 1 \in Nat /\ r.at + 1 <= Len(ConfigKey) + 1 /\ 1 <= r.at + 1
  BY SettingsAssumption DEF SaveRequest
<1>2. at \in r.at + 1 .. Len(ConfigKey) + 1
  BY <1>1, NextKeyExists
<1>3. NextFrom(r, table) = [r EXCEPT !.viewed = table, !.seen = table, !.at = at]
  BY DEF NextFrom
<1> HIDE DEF at
<1>4. at \in 1 .. Len(ConfigKey) + 1
  BY <1>1, <1>2, SettingsAssumption
<1> QED
  BY <1>3, <1>4 DEF SaveRequest

\* CommitKey, KeepKey and InsertRefused: the key is written, or not; a new snapshot is
\* read.
LEMMA SavedKeyKeeps ==
  ASSUME SaversInv, NEW t \in Thread, CommitKey(t) \/ KeepKey(t) \/ InsertRefused(t)
  PROVE  /\ SaverOK(t)' /\ config' \in Table
         /\ \A u \in Thread \ {t} : Idle(u) \/ ValuesTracked(u)
<1> DEFINE r == request[t]
           key == ConfigKey[r.at]
<1>1. /\ r.op = "save_settings" /\ r.at <= Len(ConfigKey) /\ r \in SaveRequest
      /\ RequestsOK /\ config \in Table
  BY DEF CommitKey, KeepKey, InsertRefused, SavingKey, SaversInv, SaverOK
<1>2. r.at \in DOMAIN ConfigKey /\ key \in Keys
  BY <1>1, SettingsAssumption DEF SaveRequest, Keys
<1>3. CASE CommitKey(t)
  <2> DEFINE next == NextFrom(r, config')
             new == [next EXCEPT !.saved = @ \/ key = "wifi_ssid"]
  <2>1. /\ config' = [config EXCEPT ![key] = r.form[key]]
        /\ Commit(t, new, {<<key, "value">>})
    BY <1>3 DEF CommitKey, WriteKey
  <2>2. config' \in Table
    BY <1>1, <1>2, <2>1 DEF SaveRequest, Table
  <2>3. next \in SaveRequest /\ next.viewed = config' /\ next.seen = config'
    BY <1>1, <2>2, NextFromHolds
  <2>4. request'[t] = new /\ \A u \in Thread \ {t} : Idle(u)
                               \/ changed'[u] = changed[u] \cup {<<key, "value">>}
    BY <1>1, <2>1, CommitSteps DEF Stepped
  <2> HIDE DEF next
  <2>5. new \in SaveRequest /\ new.viewed = config' /\ new.seen = config'
    BY <2>3 DEF SaveRequest
  <2>6. \A k \in Keys \ {key} : config'[k] = config[k]
    BY <1>1, <1>2, <2>1 DEF Table
  <2>7. \A u \in Thread \ {t} : Idle(u) \/ ValuesTracked(u)
    BY <2>4, <2>6 DEF ValuesTracked
  <2>8. SaverOK(t)'
    BY <2>4, <2>5 DEF SaverOK
  <2> QED
    BY <2>2, <2>7, <2>8
<1>4. ASSUME NEW new \in SaveRequest, Commit(t, new, {}), UNCHANGED config,
             new.seen = config,
             new.at <= Len(ConfigKey) =>
               new.viewed[ConfigKey[new.at]] \in {config[ConfigKey[new.at]], NULL}
      PROVE  /\ SaverOK(t)' /\ config' \in Table
             /\ \A u \in Thread \ {t} : Idle(u) \/ ValuesTracked(u)
  <2>1. /\ request'[t] = new
        /\ \A u \in Thread \ {t} : Idle(u) \/ changed'[u] = changed[u] \cup {}
    <3>1. Stepped(t, new, {})
      BY <1>1, <1>4, CommitSteps
    <3> QED
      BY <3>1 DEF Stepped
  <2>2. SaverOK(t)'
    BY <1>4, <2>1 DEF SaverOK
  <2> QED
    BY <1>1, <1>4, <2>1, <2>2 DEF ValuesTracked
<1>5. CASE KeepKey(t)
  <2> DEFINE new == NextFrom(r, config)
  <2>1. Commit(t, new, {}) /\ UNCHANGED config
    BY <1>5 DEF KeepKey, settingsVars
  <2>2. new \in SaveRequest /\ new.viewed = config /\ new.seen = config
    BY <1>1, NextFromHolds
  <2> HIDE DEF new
  <2> QED
    BY <1>4, <2>1, <2>2
<1>6. CASE InsertRefused(t)
  <2> DEFINE new == [r EXCEPT !.seen = config]
  <2>1. Commit(t, new, {}) /\ UNCHANGED config /\ r.seen[key] = NULL
    BY <1>6 DEF InsertRefused, settingsVars
  <2>2. r.viewed[key] = NULL
    BY <1>1, <2>1 DEF SaversInv, SaverOK
  <2>3. /\ new \in SaveRequest /\ new.seen = config
        /\ new.at = r.at /\ new.viewed = r.viewed
    BY <1>1 DEF SaveRequest
  <2> HIDE DEF new
  <2> QED
    BY <1>4, <2>1, <2>2, <2>3
<1> QED
  BY <1>3, <1>5, <1>6

LEMMA OtherSettingsStepKeeps ==
  ASSUME SaversInv, NEW t \in Thread,
         FinishSave(t) \/ RenderPage(t) \/ ReadSetting(t) \/ StorePage(t) \/ SettingsAbort(t)
  PROVE  request'[t].op # "save_settings" /\ UNCHANGED config
<1>1. PICK r : (Continue(t, r) \/ Begin(t, "settings", r)) /\ r.op # "save_settings"
  <2>1. CASE FinishSave(t) \/ StorePage(t) \/ SettingsAbort(t)
    BY <2>1, NoRequestHasOp DEF FinishSave, StorePage, SettingsAbort
  <2>2. CASE RenderPage(t)
    BY <2>2 DEF RenderPage
  <2>3. CASE ReadSetting(t)
    BY <2>3 DEF ReadSetting
  <2> QED
    BY <2>1, <2>2, <2>3
<1>2. request'[t] = r
  BY <1>1, BeginSteps, ContinueSteps DEF SaversInv, Stepped
<1> QED
  BY <1>1, <1>2
  DEF FinishSave, RenderPage, ReadSetting, StorePage, SettingsAbort, settingsVars

\* Steps of other desks: t saves no settings, before or after.
LEMMA ElsewhereOps ==
  ASSUME RequestsOK, NEW t \in Thread, RegistryStep(t) \/ AttachmentStep(t) \/ AccountStep(t)
  PROVE  \E ops : Moved(t, ops) /\ ops \cap SettingsOps = {}
<1>1. /\ (RegistryOps \cup None) \cap SettingsOps = {}
      /\ (AttachmentOps \cup None) \cap SettingsOps = {}
      /\ (AccountOps \cup None) \cap SettingsOps = {}
  BY DEF RegistryOps, AttachmentOps, AccountOps, SettingsOps, None
<1> QED
  BY <1>1, RegistryStepMoves, AttachmentStepMoves, AccountStepMoves

LEMMA SaversInvariant == SaversInv /\ [Next]_vars => SaversInv'
<1> SUFFICES ASSUME SaversInv, [Next]_vars PROVE SaversInv'
  OBVIOUS
<1>0. RequestsOK /\ config \in Table
  BY DEF SaversInv
<1>1. ASSUME NEW t \in Thread, SettingsStep(t)
      PROVE  SaversInv'
  <2>1. Moved(t, SettingsOps \cup None)
    BY <1>0, <1>1, SettingsStepMoves
  <2>2. UNCHANGED config => \A u \in Thread \ {t} : Idle(u) \/ ValuesTracked(u)
    BY <2>1, ValuesKeptTracked
  <2>3. CASE CommitKey(t) \/ KeepKey(t) \/ InsertRefused(t)
    BY <2>1, <2>3, SavedKeyKeeps, SaversStep
  <2>4. CASE SaveSettings(t)
    BY <1>0, <2>1, <2>2, <2>4, SaveSettingsKeeps, SaversStep
  <2>5. CASE FinishSave(t) \/ RenderPage(t) \/ ReadSetting(t) \/ StorePage(t)
             \/ SettingsAbort(t)
    <3>1. SaverOK(t)' /\ UNCHANGED config
      BY <2>5, OtherSettingsStepKeeps DEF SaverOK
    <3> QED
      BY <1>0, <2>1, <2>2, <3>1, SaversStep
  <2> QED
    BY <1>1, <2>3, <2>4, <2>5 DEF SettingsStep
<1>2. ASSUME NEW t \in Thread, RegistryStep(t) \/ AttachmentStep(t) \/ AccountStep(t),
             UNCHANGED config
      PROVE  SaversInv'
  <2>1. PICK ops : Moved(t, ops) /\ ops \cap SettingsOps = {}
    BY <1>0, <1>2, ElsewhereOps
  <2>2. request'[t].op # "save_settings"
    BY <2>1 DEF Moved, SettingsOps
  <2>3. SaverOK(t)'
    BY <2>2 DEF SaverOK
  <2> QED
    BY <1>0, <1>2, <2>1, <2>3, ValuesKeptTracked, SaversStep
<1>3. CASE Restart
  <2>1. RequestsOK' /\ \A t \in Thread : request'[t].op # "save_settings"
    BY <1>0, <1>3, RestartEmpties
  <2> QED
    BY <1>0, <1>3, <2>1 DEF SaversInv, SaverOK, Restart
<1>4. CASE UNCHANGED <<request, changed, config>>
  BY <1>4 DEF SaversInv, RequestsOK, SaverOK, Unchanged
<1>5. (SeedAdmin /\ UNCHANGED settingsVars) \/ ReadVersion \/ UNCHANGED vars
        => UNCHANGED <<request, changed, config>>
  BY DEF SeedAdmin, ReadVersion, requestVars, settingsVars, vars
<1> QED
  BY <1>1, <1>2, <1>3, <1>4, <1>5 DEF Next, settingsVars

\* The old value in the log of settings is the one the commit replaces, whatever saves
\* overlap and whoever inserts a key first; of a secret, whether there was one, and "none"
\* after a lost insert.
THEOREM LogIsTrue == Spec => SettingsLogTellsOldValue
<1> DEFINE TellsOld(t) ==
             LET r == request[t]
                 key == ConfigKey[r.at]
                 insertLost == r.viewed[key] # r.seen[key]
             IN  LoggedOld(r) =
                   IF key \in Secrets THEN Setting(config, key) # Default /\ ~insertLost
                                     ELSE config[key]
           True == \A t \in Thread : CommitKey(t) => TellsOld(t)
<1>1. SaversInv => True
  <2> SUFFICES ASSUME SaversInv, NEW t \in Thread, CommitKey(t)
               PROVE  TellsOld(t)
    OBVIOUS
  <2> DEFINE r == request[t]
             key == ConfigKey[r.at]
  <2>1. /\ r.op = "save_settings" /\ r.at <= Len(ConfigKey) /\ r \in SaveRequest
        /\ r.viewed[key] \in {r.seen[key], NULL}
        /\ IF r.seen[key] # NULL THEN Unchanged(t, key) ELSE config[key] = NULL
    BY DEF CommitKey, SavingKey, SaversInv, SaverOK
  <2>2. key \in Keys
    BY <2>1, SettingsAssumption DEF SaveRequest, Keys
  <2>3. \A k \in Keys : Unchanged(t, k) => config[k] = r.seen[k]
    BY <2>1 DEF SaversInv, SaverOK
  <2>4. r.seen[key] = config[key]
    BY <2>1, <2>2, <2>3
  <2>5. /\ r.viewed[key] = r.seen[key] => Setting(r.viewed, key) = Setting(config, key)
        /\ r.viewed[key] = NULL => Setting(r.viewed, key) = Default
    BY <2>4 DEF Setting
  <2>6. LoggedOld(r) = IF key \in Secrets THEN Setting(r.viewed, key) # Default
                                          ELSE r.seen[key]
    BY DEF LoggedOld
  <2> HIDE DEF key
  <2>7. CASE key \in Secrets
    BY <2>1, <2>5, <2>6, <2>7 DEF key
  <2>8. CASE key \notin Secrets
    BY <2>4, <2>6, <2>8 DEF key
  <2> QED
    BY <2>7, <2>8
<1>2. Init => SaversInv
  <2>1. Init => config \in Table
    BY DEF Init, SettingsInit
  <2> QED
    BY <2>1, RequestsInitially DEF SaversInv, SaverOK
<1>3. SaversInv /\ [Next]_vars => [True]_<<requestVars, settingsVars>>
  BY <1>1
<1> QED
  BY <1>2, <1>3, SaversInvariant, PTL DEF Spec, SettingsLogTellsOldValue

-----------------------------------------------------------------------------
(* The guide.                                                              *)

NetworkName == Setting(config, "wifi_ssid")

\* A request is about to drop the page, or there is an excuse.
Saver(t) == request[t].op = "save_settings" /\ request[t].saved

Excused == excuses # {} \/ \E t \in Thread : Saver(t)

\* A page on its way to the cache shows the name that holds, or is excused.
RenderOK(t) ==
  /\ request[t].op \in {"render", "store"} =>
       request[t].dictionary \in 0 .. guide.dictionary
  /\ LateRender(t) => request[t].failed \/ Excused

GuideInv ==
  /\ DOMAIN guide = {"dictionary", "version", "page"} /\ guide.dictionary \in Nat
  /\ \A t \in Thread : RenderOK(t)
  /\ guide.page \in {NULL, NetworkName} \/ Excused

\* A step that leaves the guide alone, and may change the name, but then is excused.
LEMMA GuideStep ==
  ASSUME GuideInv, NEW t \in Thread, NEW ops, Moved(t, ops), UNCHANGED guide, RenderOK(t)',
         Excused' \/ (NetworkName' = NetworkName /\ ~Excused)
  PROVE  GuideInv'
<1>1. DOMAIN guide' = {"dictionary", "version", "page"} /\ guide'.dictionary \in Nat
  BY DEF GuideInv
<1>2. NetworkName' = NetworkName \/ Excused'
  OBVIOUS
<1>3. ASSUME NEW u \in Thread \ {t}
      PROVE  RenderOK(u)'
  <2>1. request'[u] = request[u] /\ RenderOK(u)
    BY DEF Moved, GuideInv
  <2>2. request'[u].op \in {"render", "store"} =>
          request'[u].dictionary \in 0 .. guide'.dictionary
    BY <2>1 DEF RenderOK
  <2>3. CASE Excused'
    BY <2>2, <2>3 DEF RenderOK
  <2>4. CASE NetworkName' = NetworkName /\ ~Excused
    <3>1. LateRender(u)' => LateRender(u)
      BY <2>1, <2>4 DEF LateRender, NetworkName
    <3> QED
      BY <2>1, <2>2, <2>4, <3>1 DEF RenderOK
  <2> QED
    BY <2>3, <2>4
<1>4. guide'.page \in {NULL, NetworkName'} \/ Excused'
  BY <1>2 DEF GuideInv
<1> QED
  BY <1>1, <1>3, <1>4 DEF GuideInv

\* Requests that save nothing, and no step but those of SiteSettings, end an excuse.
LEMMA ExcuseStays ==
  ASSUME NEW t \in Thread, NEW ops, Moved(t, ops), NetworkName' = NetworkName,
         excuses \subseteq excuses', Saver(t) => Saver(t)' \/ excuses' # {}
  PROVE  Excused' \/ (NetworkName' = NetworkName /\ ~Excused)
<1>1. ASSUME NEW u \in Thread, Saver(u)
      PROVE  Excused'
  <2>1. CASE u = t
    BY <1>1, <2>1 DEF Excused
  <2>2. CASE u # t
    <3>1. Saver(u)'
      BY <1>1, <2>2 DEF Moved, Saver
    <3> QED
      BY <3>1 DEF Excused
  <2> QED
    BY <2>1, <2>2
<1>2. excuses # {} => Excused'
  BY DEF Excused
<1> QED
  BY <1>1, <1>2 DEF Excused

LEMMA SavingKeepsGuide ==
  ASSUME SaversInv, GuideInv, NEW t \in Thread, NEW ops, Moved(t, ops),
         SaveSettings(t) \/ CommitKey(t) \/ KeepKey(t) \/ InsertRefused(t)
  PROVE  GuideInv'
<1>0. UNCHANGED guide /\ UNCHANGED excuses
  BY DEF SaveSettings, CommitKey, WriteKey, KeepKey, InsertRefused, settingsVars
<1>1. ASSUME request'[t].op = "save_settings"
      PROVE  RenderOK(t)'
  BY <1>1 DEF RenderOK, LateRender
<1>2. UNCHANGED config => NetworkName' = NetworkName
  BY DEF NetworkName, Setting
<1>3. CASE SaveSettings(t)
  <2>1. Idle(t)
    BY <1>3 DEF SaveSettings, Begin
  <2>2. ~Saver(t) /\ UNCHANGED config
    BY <1>3, <2>1, NoRequestHasOp, SaveSettingsKeeps DEF Idle, Saver
  <2>3. request'[t].op = "save_settings"
    <3>1. PICK form, at :
            Begin(t, "settings", [op |-> "save_settings", form |-> form,
                                  viewed |-> config, seen |-> config, at |-> at, saved |-> FALSE])
      BY <1>3 DEF SaveSettings
    <3> QED
      BY <3>1, BeginSteps DEF SaversInv, Stepped
  <2> QED
    BY <1>0, <1>1, <1>2, <2>2, <2>3, ExcuseStays, GuideStep
<1>4. CASE KeepKey(t) \/ InsertRefused(t)
  <2>1. /\ request[t] \in SaveRequest /\ request[t].at <= Len(ConfigKey)
        /\ config \in Table /\ UNCHANGED config
    BY <1>4 DEF KeepKey, InsertRefused, SavingKey, SaversInv, SaverOK, settingsVars
  <2>2. PICK new \in SaveRequest : Commit(t, new, {}) /\ new.saved = request[t].saved
    <3>1. CASE KeepKey(t)
      BY <2>1, <3>1, NextFromHolds DEF KeepKey
    <3>2. CASE InsertRefused(t)
      <4>1. Commit(t, [request[t] EXCEPT !.seen = config], {})
        BY <3>2 DEF InsertRefused
      <4> QED
        BY <2>1, <4>1 DEF SaveRequest
    <3> QED
      BY <1>4, <3>1, <3>2
  <2>3. request'[t] = new
    BY <2>2, CommitSteps DEF SaversInv, Stepped
  <2>4. request'[t].saved = request[t].saved /\ request'[t].op = "save_settings"
    BY <2>2, <2>3 DEF SaveRequest
  <2>5. Saver(t) => Saver(t)'
    BY <2>4 DEF Saver
  <2> QED
    BY <1>0, <1>1, <1>2, <2>1, <2>4, <2>5, ExcuseStays, GuideStep
<1>5. CASE CommitKey(t)
  <2> DEFINE key == ConfigKey[request[t].at]
             next == NextFrom(request[t], config')
             new == [next EXCEPT !.saved = @ \/ key = "wifi_ssid"]
  <2>1. /\ request[t] \in SaveRequest /\ request[t].at <= Len(ConfigKey)
        /\ config' = [config EXCEPT ![key] = request[t].form[key]]
        /\ Commit(t, new, {<<key, "value">>})
    BY <1>5 DEF CommitKey, WriteKey, SavingKey, SaversInv, SaverOK
  <2>2. next \in SaveRequest /\ next.saved = request[t].saved
    <3>1. config' \in Table
      BY <1>5, SavedKeyKeeps
    <3> QED
      BY <2>1, <3>1, NextFromHolds
  <2>3. request'[t] = new
    BY <2>1, CommitSteps DEF SaversInv, Stepped
  <2> HIDE DEF next
  <2>4. /\ request'[t].saved = (request[t].saved \/ key = "wifi_ssid")
        /\ request'[t].op = "save_settings"
    BY <2>2, <2>3 DEF SaveRequest
  <2>5. Saver(t) => Saver(t)'
    BY <2>4 DEF Saver
  <2>6. key = "wifi_ssid" => Excused'
    <3>1. key = "wifi_ssid" => Saver(t)'
      BY <2>4 DEF Saver
    <3> QED
      BY <3>1 DEF Excused
  <2> HIDE DEF key
  <2>7. key # "wifi_ssid" => NetworkName' = NetworkName
    BY <2>1, SettingsAssumption DEF NetworkName, Setting, SaversInv, Table
  <2> QED
    BY <1>0, <1>1, <2>4, <2>5, <2>6, <2>7, ExcuseStays, GuideStep
<1> QED
  BY <1>3, <1>4, <1>5

LEMMA RenderingKeepsGuide ==
  ASSUME SaversInv, GuideInv, NEW t \in Thread, NEW ops, Moved(t, ops),
         RenderPage(t) \/ ReadSetting(t) \/ SettingsAbort(t)
  PROVE  GuideInv'
<1>0. UNCHANGED guide /\ NetworkName' = NetworkName /\ excuses \subseteq excuses'
  BY DEF RenderPage, ReadSetting, SettingsAbort, settingsVars, NetworkName, Setting
<1>1. CASE RenderPage(t)
  <2>1. Idle(t) /\ request'[t] = [op |-> "render", dictionary |-> guide.dictionary]
    BY <1>1, BeginSteps DEF RenderPage, SaversInv, Stepped
  <2>2. RenderOK(t)'
    BY <1>0, <2>1 DEF RenderOK, LateRender, GuideInv
  <2>3. ~Saver(t)
    BY <2>1, NoRequestHasOp DEF Saver, Idle
  <2> QED
    BY <1>0, <2>2, <2>3, ExcuseStays, GuideStep
<1>2. CASE ReadSetting(t)
  <2>1. PICK failed \in BOOLEAN :
          Continue(t, [op |-> "store", dictionary |-> request[t].dictionary,
                       page |-> IF failed THEN Default ELSE NetworkName,
                       failed |-> failed])
    BY <1>2 DEF ReadSetting, NetworkName
  <2>2. request'[t] = [op |-> "store", dictionary |-> request[t].dictionary,
                       page |-> IF failed THEN Default ELSE NetworkName,
                       failed |-> failed]
    BY <2>1, ContinueSteps DEF SaversInv, Stepped
  <2>3. /\ request'[t].dictionary \in 0 .. guide'.dictionary
        /\ ~request'[t].failed => request'[t].page = NetworkName
    BY <1>0, <1>2, <2>2 DEF ReadSetting, GuideInv, RenderOK
  <2>4. LateRender(t)' => request'[t].failed
    BY <1>0, <2>3 DEF LateRender, NetworkName
  <2>5. RenderOK(t)'
    BY <2>3, <2>4 DEF RenderOK
  <2>6. ~Saver(t)
    BY <1>2 DEF Saver, ReadSetting
  <2> QED
    BY <1>0, <2>5, <2>6, ExcuseStays, GuideStep
<1>3. CASE SettingsAbort(t)
  <2>1. request'[t].op = "none"
    BY <1>3, ContinueSteps, NoRequestHasOp DEF SettingsAbort, SaversInv, Stepped
  <2>2. RenderOK(t)'
    BY <2>1 DEF RenderOK, LateRender
  <2>3. Saver(t) => excuses' # {}
    BY <1>3 DEF Saver, SettingsAbort
  <2> QED
    BY <1>0, <2>2, <2>3, ExcuseStays, GuideStep
<1> QED
  BY <1>1, <1>2, <1>3

LEMMA StorePageKeepsGuide ==
  ASSUME SaversInv, GuideInv, NEW t \in Thread, NEW ops, Moved(t, ops), StorePage(t)
  PROVE  GuideInv'
<1> DEFINE r == request[t]
<1>1. /\ r.op = "store" /\ Continue(t, NoRequest) /\ NetworkName' = NetworkName
      /\ excuses \subseteq excuses'
  BY DEF StorePage, NetworkName, Setting
<1>2. request'[t].op = "none"
  BY <1>1, ContinueSteps, NoRequestHasOp DEF SaversInv, Stepped
<1>3. RenderOK(t)' /\ ~Saver(t)
  BY <1>1, <1>2 DEF RenderOK, LateRender, Saver
<1>4. CASE r.dictionary # guide.dictionary
  BY <1>1, <1>3, <1>4, ExcuseStays, GuideStep DEF StorePage
<1>5. CASE r.dictionary = guide.dictionary
  <2>1. /\ guide' = [guide EXCEPT !.page = r.page]
        /\ excuses' = excuses \cup {x \in {"setting was not read"} : r.failed}
    BY <1>5 DEF StorePage
  <2>2. /\ DOMAIN guide' = {"dictionary", "version", "page"} /\ guide'.page = r.page
        /\ guide'.dictionary = guide.dictionary /\ guide'.dictionary \in Nat
    BY <2>1 DEF GuideInv
  <2>3. Excused' \/ (NetworkName' = NetworkName /\ ~Excused)
    BY <1>1, <1>3, ExcuseStays
  <2>4. r.failed => Excused'
    BY <2>1 DEF Excused
  <2>5. guide'.page \in {NULL, NetworkName'} \/ Excused'
    <3>1. r.page = NetworkName \/ r.failed \/ Excused
      BY <1>1, <1>5 DEF GuideInv, RenderOK, LateRender, NetworkName
    <3> QED
      BY <1>1, <2>2, <2>3, <2>4, <3>1
  <2>6. ASSUME NEW u \in Thread \ {t}
        PROVE  RenderOK(u)'
    <3>1. request'[u] = request[u] /\ RenderOK(u)
      BY DEF Moved, GuideInv
    <3>2. LateRender(u)' => LateRender(u)
      BY <1>1, <2>2, <3>1 DEF LateRender, NetworkName
    <3> QED
      BY <2>2, <2>3, <3>1, <3>2 DEF RenderOK
  <2> QED
    BY <1>3, <2>2, <2>5, <2>6 DEF GuideInv
<1> QED
  BY <1>4, <1>5

\* Either the dictionary is a new one, which nobody holds, or it holds no page, and the
\* excuse is there just when a request is about to put an old one into it.
LEMMA FinishSaveKeepsGuide ==
  ASSUME SaversInv, GuideInv, NEW t \in Thread, NEW ops, Moved(t, ops), FinishSave(t)
  PROVE  GuideInv'
<1>1. /\ request[t].op = "save_settings" /\ Continue(t, NoRequest)
      /\ NetworkName' = NetworkName
  BY DEF FinishSave, NetworkName, Setting
<1>2. request'[t].op = "none"
  BY <1>1, ContinueSteps, NoRequestHasOp DEF SaversInv, Stepped
<1>3. RenderOK(t)'
  BY <1>2 DEF RenderOK, LateRender
<1>4. CASE guide.page = NULL /\ ~guide.version
  <2>1. UNCHANGED guide
        /\ excuses' = {x \in {"dictionary was empty"} : \E s \in Thread : LateRender(s)}
    BY <1>4 DEF FinishSave
  <2>2. ASSUME NEW u \in Thread \ {t}
        PROVE  RenderOK(u)'
    <3>1. request'[u] = request[u] /\ RenderOK(u)
      BY DEF Moved, GuideInv
    <3>2. LateRender(u)' => LateRender(u)
      BY <1>1, <2>1, <3>1 DEF LateRender, NetworkName
    <3>3. LateRender(u) => excuses' # {}
      BY <2>1
    <3> QED
      BY <2>1, <3>1, <3>2, <3>3 DEF RenderOK, Excused
  <2> QED
    BY <1>3, <1>4, <2>1, <2>2 DEF GuideInv
<1>5. CASE ~(guide.page = NULL /\ ~guide.version)
  <2>1. guide' = [guide EXCEPT !.dictionary = @ + 1, !.page = NULL]
    BY <1>5 DEF FinishSave
  <2>2. /\ DOMAIN guide' = {"dictionary", "version", "page"} /\ guide'.page = NULL
        /\ guide'.dictionary = guide.dictionary + 1 /\ guide'.dictionary \in Nat
    BY <2>1 DEF GuideInv
  <2>3. ASSUME NEW u \in Thread \ {t}
        PROVE  RenderOK(u)'
    <3>1. request'[u] = request[u] /\ RenderOK(u)
      BY DEF Moved, GuideInv
    <3>2. request[u].op \in {"render", "store"} =>
            /\ request[u].dictionary \in 0 .. guide'.dictionary
            /\ request[u].dictionary # guide'.dictionary
      BY <2>2, <3>1 DEF RenderOK, GuideInv
    <3> QED
      BY <3>1, <3>2 DEF RenderOK, LateRender
  <2> QED
    BY <1>3, <2>2, <2>3 DEF GuideInv
<1> QED
  BY <1>4, <1>5

LEMMA GuideInvariant == SaversInv /\ GuideInv /\ [Next]_vars => GuideInv'
<1> SUFFICES ASSUME SaversInv, GuideInv, [Next]_vars PROVE GuideInv'
  OBVIOUS
<1>0. RequestsOK
  BY DEF SaversInv
<1>1. ASSUME NEW t \in Thread, SettingsStep(t)
      PROVE  GuideInv'
  BY <1>0, <1>1, SettingsStepMoves, SavingKeepsGuide, RenderingKeepsGuide,
     StorePageKeepsGuide, FinishSaveKeepsGuide
  DEF SettingsStep
<1>2. ASSUME NEW t \in Thread, RegistryStep(t) \/ AttachmentStep(t) \/ AccountStep(t),
             UNCHANGED settingsVars
      PROVE  GuideInv'
  <2>1. PICK ops : Moved(t, ops) /\ ops \cap SettingsOps = {}
    BY <1>0, <1>2, ElsewhereOps
  <2>2. request[t].op \notin SettingsOps /\ request'[t].op \notin SettingsOps
    BY <2>1 DEF Moved
  <2>3. RenderOK(t)' /\ ~Saver(t)
    BY <2>2 DEF RenderOK, LateRender, Saver, SettingsOps
  <2>4. UNCHANGED guide /\ excuses \subseteq excuses' /\ NetworkName' = NetworkName
    BY <1>2 DEF settingsVars, NetworkName, Setting
  <2> QED
    BY <2>1, <2>3, <2>4, ExcuseStays, GuideStep
<1>3. CASE Restart
  <2>1. \A t \in Thread : RenderOK(t)'
    BY <1>0, <1>3, RestartEmpties DEF RenderOK, LateRender
  <2>2. guide' = [dictionary |-> 0, version |-> FALSE, page |-> NULL]
    BY <1>3 DEF Restart
  <2> QED
    BY <2>1, <2>2 DEF GuideInv
<1>4. CASE ReadVersion
  <2>1. /\ guide' = [guide EXCEPT !.version = TRUE]
        /\ UNCHANGED <<request, config, excuses>>
    BY <1>4 DEF ReadVersion, requestVars
  <2>2. /\ DOMAIN guide' = {"dictionary", "version", "page"} /\ guide'.page = guide.page
        /\ guide'.dictionary = guide.dictionary
    BY <2>1 DEF GuideInv
  <2> QED
    BY <2>1, <2>2
    DEF GuideInv, RenderOK, LateRender, Excused, Saver, NetworkName, Setting
<1>5. CASE UNCHANGED <<request, config, excuses, guide>>
  BY <1>5 DEF GuideInv, RenderOK, LateRender, Excused, Saver, NetworkName, Setting
<1>6. (SeedAdmin /\ UNCHANGED settingsVars) \/ UNCHANGED vars
        => UNCHANGED <<request, config, excuses, guide>>
  BY DEF SeedAdmin, requestVars, settingsVars, vars
<1> QED
  BY <1>1, <1>2, <1>3, <1>4, <1>5, <1>6 DEF Next

\* A cached page of the guide that shows an old network name is about to be dropped by
\* the request that changed the name, or one of the three excuses was met.
THEOREM GuideShowsTheSetting == Spec => []GuideOutOfDateOnlyExcused
<1>1. GuideInv => GuideOutOfDateOnlyExcused
  BY DEF GuideInv, Excused, Saver, NetworkName, GuideOutOfDateOnlyExcused
<1>2. Init => SaversInv /\ GuideInv
  <2>1. ASSUME Init PROVE SaversInv
    BY <2>1, RequestsInitially DEF SaversInv, SaverOK, Init, SettingsInit
  <2>2. ASSUME Init PROVE GuideInv
    <3>1. guide = [dictionary |-> 0, version |-> FALSE, page |-> NULL]
      BY <2>2 DEF Init, SettingsInit
    <3>2. \A t \in Thread : RenderOK(t)
      BY <2>2, RequestsInitially DEF RenderOK, LateRender
    <3> QED
      BY <3>1, <3>2 DEF GuideInv
  <2> QED
    BY <2>1, <2>2
<1>3. SaversInv /\ GuideInv /\ [Next]_vars => (SaversInv /\ GuideInv)'
  BY SaversInvariant, GuideInvariant
<1> QED
  BY <1>1, <1>2, <1>3, PTL DEF Spec


-----------------------------------------------------------------------------
(* Types.  What the parts keep of each other says most of it; left are the  *)
(* shapes of the requests, and a response that displays something says on   *)
(* whose page.                                                              *)

AnyRequest ==
  {NoRequest} \cup RegistryRequest \cup AttachmentRequest
    \cup AccountRequest \cup SettingsRequest

PageOK(t) ==
  request[t].op = "respond" /\ request[t].displays # NULL => request[t].page \in User

TypedInv ==
  /\ AttachmentInv /\ PasswordInv /\ CookieInv /\ SaversInv /\ GuideInv
  /\ AtRegistry /\ AtAccounts
  /\ desk \in Desk /\ begun \in Nat
  /\ request \in [Thread -> AnyRequest]
  /\ \A t \in Thread : PageOK(t)
  /\ shown \subseteq [page : User, temporary : Temporary] /\ tangled \subseteq Browser
  /\ SettingsTypeOK

\* Thread t goes on as r, in whatever way.
GoesOnAs(t, r) ==
  \/ \E d : Begin(t, d, r)
  \/ Continue(t, r)
  \/ \E columns : Commit(t, r, columns)

LEMMA GoesOn ==
  ASSUME TypedInv, NEW t \in Thread, NEW r, GoesOnAs(t, r)
  PROVE  /\ request' = [request EXCEPT ![t] = r] /\ request'[t] = r
         /\ desk' \in Desk /\ begun' \in Nat
BY DEF GoesOnAs, Begin, Continue, Commit, TypedInv

LEMMA RegistryTyped ==
  ASSUME TypedInv, NEW t \in Thread, RegistryStep(t)
  PROVE  \E r \in RegistryRequest \cup {NoRequest} : GoesOnAs(t, r)
<1>1. /\ \A a \in DOMAIN area : a \in Area /\ area[a] \in AreaRow
      /\ \A e \in DOMAIN equipment : e \in Equipment /\ equipment[e] \in EquipmentRow
  BY DEF TypedInv, AttachmentInv, RegistryInv, RegistryTypeOK
<1>2. ASSUME NEW r \in RegistryRequest, BeginRegistry(t, r)
      PROVE  \E s \in RegistryRequest \cup {NoRequest} : GoesOnAs(t, s)
  BY <1>2 DEF BeginRegistry, GoesOnAs
<1>3. CASE CreateArea(t)
  <2>1. PICK name \in AreaName :
          BeginRegistry(t, [op |-> "create_area",
                            to |-> [name |-> name, is_archived |-> FALSE]])
    BY <1>3 DEF CreateArea
  <2>2. [op |-> "create_area", to |-> [name |-> name, is_archived |-> FALSE]]
          \in RegistryRequest
    BY DEF RegistryRequest, AreaRow
  <2> QED
    BY <1>2, <2>1, <2>2
<1>4. CASE EditArea(t) \/ ArchiveArea(t)
  <2>1. PICK a \in DOMAIN area, row \in AreaRow :
          BeginRegistry(t, [op |-> "save_area", row |-> a, to |-> row])
    <3>1. CASE EditArea(t)
      <4>1. PICK a \in DOMAIN area, name \in AreaName :
              BeginRegistry(t, [op |-> "save_area", row |-> a,
                                to |-> [area[a] EXCEPT !.name = name]])
        BY <3>1 DEF EditArea
      <4>2. [area[a] EXCEPT !.name = name] \in AreaRow
        BY <1>1 DEF AreaRow
      <4> QED
        BY <4>1, <4>2
    <3>2. CASE ArchiveArea(t)
      <4>1. PICK a \in DOMAIN area :
              BeginRegistry(t, [op |-> "save_area", row |-> a,
                                to |-> [area[a] EXCEPT !.is_archived = TRUE]])
        BY <3>2 DEF ArchiveArea
      <4>2. [area[a] EXCEPT !.is_archived = TRUE] \in AreaRow
        BY <1>1 DEF AreaRow
      <4> QED
        BY <4>1, <4>2
    <3> QED
      BY <1>4, <3>1, <3>2
  <2>2. [op |-> "save_area", row |-> a, to |-> row] \in RegistryRequest
    BY <1>1 DEF RegistryRequest
  <2> QED
    BY <1>2, <2>1, <2>2
<1>5. CASE CreateEquipment(t)
  <2>1. PICK a \in DOMAIN area, name \in MachineName \cup {NULL} :
          BeginRegistry(t, [op |-> "create_equipment",
                            to |-> [area_id |-> a, mac_machine_name |-> name,
                                    is_archived |-> FALSE]])
    BY <1>5 DEF CreateEquipment
  <2>2. [area_id |-> a, mac_machine_name |-> name, is_archived |-> FALSE] \in EquipmentRow
    BY <1>1 DEF EquipmentRow
  <2>3. [op |-> "create_equipment",
         to |-> [area_id |-> a, mac_machine_name |-> name, is_archived |-> FALSE]]
          \in RegistryRequest
    BY <2>2 DEF RegistryRequest
  <2> QED
    BY <1>2, <2>1, <2>3
<1>6. CASE EditEquipment(t) \/ ArchiveEquipment(t)
  <2>1. PICK e \in DOMAIN equipment, row \in EquipmentRow :
          BeginRegistry(t, [op |-> "save_equipment", row |-> e, to |-> row])
    <3>1. CASE EditEquipment(t)
      BY <3>1 DEF EditEquipment, Edited
    <3>2. CASE ArchiveEquipment(t)
      <4>1. PICK e \in DOMAIN equipment :
              BeginRegistry(t, [op |-> "save_equipment", row |-> e,
                                to |-> [equipment[e] EXCEPT !.is_archived = TRUE]])
        BY <3>2 DEF ArchiveEquipment
      <4>2. [equipment[e] EXCEPT !.is_archived = TRUE] \in EquipmentRow
        BY <1>1 DEF EquipmentRow
      <4> QED
        BY <4>1, <4>2
    <3> QED
      BY <1>6, <3>1, <3>2
  <2>2. [op |-> "save_equipment", row |-> e, to |-> row] \in RegistryRequest
    BY <1>1 DEF RegistryRequest
  <2> QED
    BY <1>2, <2>1, <2>2
<1>7. CASE CommitCreateArea(t) \/ CommitArea(t) \/ CommitCreateEquipment(t)
           \/ CommitEquipment(t) \/ RegistryAbort(t)
  <2>1. GoesOnAs(t, NoRequest)
    BY <1>7 DEF CommitCreateArea, CommitArea, CommitCreateEquipment, CommitEquipment,
      RegistryAbort, GoesOnAs
  <2> QED
    BY <2>1
<1> QED
  BY <1>3, <1>4, <1>5, <1>6, <1>7 DEF RegistryStep

LEMMA AttachmentTyped ==
  ASSUME TypedInv, NEW t \in Thread, AttachmentStep(t)
  PROVE  \E r \in AttachmentRequest \cup {NoRequest} : GoesOnAs(t, r)
<1>1. /\ \A e \in DOMAIN equipment : e \in Equipment
      /\ request[t].op = "upload" => request[t].to \in ItemRow
      /\ request[t].op = "remove_file" => request[t].row \in Item
      /\ unused \subseteq Item
  BY DEF TypedInv, AttachmentInv, AttachmentOK, RowOps, RegistryInv, RegistryTypeOK,
    ItemsOK, AttachmentTypeOK
<1>2. ASSUME NEW r \in AttachmentRequest, (\E e : BeginAttachment(t, e, r)) \/ Continue(t, r)
      PROVE  \E s \in AttachmentRequest \cup {NoRequest} : GoesOnAs(t, s)
  BY <1>2 DEF BeginAttachment, GoesOnAs
<1>3. CASE AddLink(t) \/ AddNote(t) \/ UploadDocument(t) \/ UploadPhoto(t)
  <2>1. PICK e \in DOMAIN equipment, kind \in Kinds, op \in {"attach", "upload"} :
          BeginAttachment(t, e, [op |-> op, to |-> [kind |-> kind, equipment_id |-> e]])
    BY <1>3 DEF AddLink, AddNote, UploadDocument, UploadPhoto, Kinds, UploadKinds
  <2>2. [kind |-> kind, equipment_id |-> e] \in ItemRow
    BY <1>1 DEF ItemRow
  <2>3. [op |-> op, to |-> [kind |-> kind, equipment_id |-> e]] \in AttachmentRequest
    BY <2>2 DEF AttachmentRequest
  <2> QED
    BY <1>2, <2>1, <2>3
<1>4. CASE DeleteLink(t) \/ DeleteDocument(t) \/ DeletePhoto(t)
  <2>1. PICK e : \E i \in Item : \E op \in {"remove_file", "delete"} :
          BeginAttachment(t, e, [op |-> op, row |-> i])
    BY <1>4 DEF DeleteLink, DeleteDocument, DeletePhoto
  <2>2. PICK i \in Item, op \in {"remove_file", "delete"} :
          BeginAttachment(t, e, [op |-> op, row |-> i])
    BY <2>1
  <2>3. [op |-> op, row |-> i] \in AttachmentRequest
    BY DEF AttachmentRequest
  <2> QED
    BY <1>2, <2>2, <2>3
<1>5. CASE SaveFile(t)
  <2>1. PICK i \in unused :
          Continue(t, [op |-> "insert_document", row |-> i, to |-> request[t].to])
    BY <1>5 DEF SaveFile
  <2>2. [op |-> "insert_document", row |-> i, to |-> request[t].to] \in AttachmentRequest
    BY <1>1, <1>5 DEF SaveFile, AttachmentRequest
  <2> QED
    BY <1>2, <2>1, <2>2
<1>6. CASE RemoveFile(t)
  <2>1. Continue(t, [op |-> "delete", row |-> request[t].row])
    BY <1>6 DEF RemoveFile
  <2>2. [op |-> "delete", row |-> request[t].row] \in AttachmentRequest
    BY <1>1, <1>6 DEF RemoveFile, AttachmentRequest
  <2> QED
    BY <1>2, <2>1, <2>2
<1>7. CASE CommitLink(t) \/ CommitNote(t) \/ InsertDocument(t) \/ DeleteDocumentRow(t)
           \/ DeleteLinkRow(t) \/ AttachmentAbort(t)
  <2>1. GoesOnAs(t, NoRequest)
    BY <1>7 DEF CommitLink, CommitNote, Attach, InsertDocument, DeleteDocumentRow,
      DeleteLinkRow, DeleteRow, AttachmentAbort, GoesOnAs
  <2> QED
    BY <2>1
<1> QED
  BY <1>3, <1>4, <1>5, <1>6, <1>7 DEF AttachmentStep
\* What a request of a browser carries.
LEMMA CarriedTyped ==
  ASSUME TypedInv, NEW t \in Thread, request[t].op \in BrowserOps
  PROVE  /\ request[t].browser \in Browser
         /\ request[t].op # "respond" => request[t].jar \in Temporary \cup {NULL}
         /\ request[t].op = "respond" => request[t].displays \in Temporary \cup {NULL}
<1>1. CarriedOK(t) /\ handed \subseteq [browser : Browser, temporary : Temporary]
  BY DEF TypedInv, CookieInv, HandedOK
<1>2. \A b, x : Handed(b, x) => x \in Temporary
  <2> SUFFICES ASSUME NEW b, NEW x, Handed(b, x) PROVE x \in Temporary
    OBVIOUS
  <2>1. [browser |-> b, temporary |-> x] \in [browser : Browser, temporary : Temporary]
    BY <1>1 DEF Handed
  <2> QED
    BY <2>1
<1> QED
  BY <1>1, <1>2 DEF CarriedOK, Sending

\* The shape of a request of the accounts, and what is displayed where.
LEMMA AccountTyped ==
  ASSUME TypedInv, NEW t \in Thread, AccountStep(t)
  PROVE  /\ \E r \in AccountRequest \cup {NoRequest} : GoesOnAs(t, r)
         /\ PageOK(t)'
         /\ shown' \subseteq [page : User, temporary : Temporary]
         /\ tangled' \subseteq Browser
<1> DEFINE Typed == /\ \E r \in AccountRequest \cup {NoRequest} : GoesOnAs(t, r)
                    /\ PageOK(t)'
                    /\ shown' \subseteq [page : User, temporary : Temporary]
                    /\ tangled' \subseteq Browser
<1>1. /\ account \in [User -> AccountRow \cup {NULL}] /\ passwords \in Nat
      /\ cookie \in [Browser -> Temporary \cup {NULL}]
      /\ following \in [Browser -> SUBSET User]
      /\ shown \subseteq [page : User, temporary : Temporary] /\ tangled \subseteq Browser
  BY DEF TypedInv, PasswordInv, CookieInv, HandedOK
<1>2. ASSUME NEW r \in AccountRequest \cup {NoRequest}, GoesOnAs(t, r),
             r.op = "respond" /\ r.displays # NULL => r.page \in User
      PROVE  (\E s \in AccountRequest \cup {NoRequest} : GoesOnAs(t, s)) /\ PageOK(t)'
  <2>1. request'[t] = r
    BY <1>2, GoesOn
  <2> QED
    BY <1>2, <2>1 DEF PageOK
<1>3. ASSUME NEW b \in Browser, NEW r \in AccountRequest, BeginInBrowser(t, b, r),
             r.op = "respond" => r.displays = NULL
      PROVE  Typed
  <2>1. GoesOnAs(t, r)
    BY <1>3 DEF BeginInBrowser, GoesOnAs
  <2>2. shown' = shown /\ tangled' \subseteq Browser
    BY <1>1, <1>3 DEF BeginInBrowser
  <2> QED
    BY <1>1, <1>2, <1>3, <2>1, <2>2
<1> SUFFICES Typed
  OBVIOUS
<1> HIDE DEF Typed
<1>4. CASE CreateUser(t) \/ ResetPassword(t)
  <2>1. PICK b \in Browser, u \in User, row \in AccountRow,
             op \in {"create_user", "reset_password"} :
          BeginInBrowser(t, b, [op |-> op, user |-> u, browser |-> b, jar |-> cookie[b],
                                to |-> row])
    <3>1. CASE CreateUser(t)
      <4>1. PICK b \in Browser, u \in User, role \in RoleInput, handle \in HandleInput :
              /\ passwords' = passwords + 1
              /\ BeginInBrowser(t, b,
                   [op |-> "create_user", user |-> u, browser |-> b, jar |-> cookie[b],
                    to |-> [role |-> role, password |-> passwords',
                            slack_handle |-> handle]])
        BY <3>1 DEF CreateUser
      <4>2. [role |-> role, password |-> passwords', slack_handle |-> handle] \in AccountRow
        BY <1>1, <4>1, AccountsAssumption DEF AccountRow, Password
      <4> QED
        BY <4>1, <4>2
    <3>2. CASE ResetPassword(t)
      <4>1. PICK b \in Browser, u \in User :
              /\ account[u] # NULL
              /\ passwords' = passwords + 1
              /\ BeginInBrowser(t, b,
                   [op |-> "reset_password", user |-> u, browser |-> b, jar |-> cookie[b],
                    to |-> [account[u] EXCEPT !.password = passwords']])
        BY <3>2 DEF ResetPassword
      <4>2. [account[u] EXCEPT !.password = passwords'] \in AccountRow
        BY <1>1, <4>1 DEF AccountRow, Password
      <4> QED
        BY <4>1, <4>2
    <3> QED
      BY <1>4, <3>1, <3>2
  <2> DEFINE r == [op |-> op, user |-> u, browser |-> b, jar |-> cookie[b], to |-> row]
  <2>2. r \in AccountRequest /\ r.op # "respond"
    BY <1>1 DEF AccountRequest
  <2>3. BeginInBrowser(t, b, r)
    BY <2>1
  <2> HIDE DEF r
  <2> QED
    BY <1>3, <2>2, <2>3
<1>5. CASE ChangeRole(t) \/ EditSlackHandle(t)
  <2>1. PICK b \in Browser, u \in User, row \in AccountRow : BeginChange(t, b, u, row)
    <3>1. CASE ChangeRole(t)
      <4>1. PICK b \in Browser, u \in User, role \in RoleInput :
              account[u] # NULL /\ BeginChange(t, b, u, [account[u] EXCEPT !.role = role])
        BY <3>1 DEF ChangeRole
      <4>2. [account[u] EXCEPT !.role = role] \in AccountRow
        BY <1>1, <4>1, AccountsAssumption DEF AccountRow
      <4> QED
        BY <4>1, <4>2
    <3>2. CASE EditSlackHandle(t)
      <4>1. PICK b \in Browser, u \in User, handle \in HandleInput :
              /\ account[u] # NULL
              /\ BeginChange(t, b, u, [account[u] EXCEPT !.slack_handle = handle])
        BY <3>2 DEF EditSlackHandle
      <4>2. [account[u] EXCEPT !.slack_handle = handle] \in AccountRow
        BY <1>1, <4>1, AccountsAssumption DEF AccountRow
      <4> QED
        BY <4>1, <4>2
    <3> QED
      BY <1>5, <3>1, <3>2
  <2>2. BeginInBrowser(t, b, [op |-> "change_account", user |-> u, browser |-> b,
                              jar |-> cookie[b], to |-> row])
    BY <2>1 DEF BeginChange
  <2>3. [op |-> "change_account", user |-> u, browser |-> b, jar |-> cookie[b], to |-> row]
          \in AccountRequest
    BY <1>1 DEF AccountRequest
  <2> QED
    BY <1>3, <2>2, <2>3
<1>6. CASE OpenUserPage(t)
  <2>1. PICK b \in Browser, u \in User :
          /\ Begin(t, "accounts",
               [op |-> "respond", page |-> u, displays |-> cookie[b], redirect |-> NULL,
                browser |-> b, jar |-> NULL])
          /\ shown' = shown /\ tangled' \subseteq Browser
    BY <1>1, <1>6 DEF OpenUserPage
  <2> DEFINE r == [op |-> "respond", page |-> u, displays |-> cookie[b], redirect |-> NULL,
                   browser |-> b, jar |-> NULL]
  <2>2. r \in AccountRequest /\ r.page = u
    BY <1>1 DEF AccountRequest
  <2>3. GoesOnAs(t, r)
    BY <2>1 DEF GoesOnAs
  <2> HIDE DEF r
  <2> QED
    BY <1>1, <1>2, <2>1, <2>2, <2>3 DEF Typed
<1>7. CASE OpenAnotherPage(t)
  <2>1. PICK b \in Browser :
          BeginInBrowser(t, b,
            [op |-> "respond", page |-> NULL, displays |-> NULL, redirect |-> NULL,
             browser |-> b, jar |-> cookie[b]])
    BY <1>7 DEF OpenAnotherPage
  <2>2. [op |-> "respond", page |-> NULL, displays |-> NULL, redirect |-> NULL,
         browser |-> b, jar |-> cookie[b]] \in AccountRequest
    BY <1>1 DEF AccountRequest
  <2> QED
    BY <1>3, <2>1, <2>2
<1>8. ASSUME NEW r \in AccountRequest \cup {NoRequest},
             (\E columns : Commit(t, r, columns)) \/ Continue(t, r) \/ Begin(t, "accounts", r),
             r.op = "respond" => r.displays = NULL, UNCHANGED <<shown, tangled>>
      PROVE  Typed
  <2>1. GoesOnAs(t, r)
    BY <1>8 DEF GoesOnAs
  <2> QED
    BY <1>1, <1>2, <1>8, <2>1 DEF Typed
<1>9. CASE ChangePassword(t)
  <2>1. PICK u \in User :
          /\ account[u] # NULL
          /\ passwords' = passwords + 1
          /\ Begin(t, "accounts",
               [op |-> "change_password", user |-> u, presented |-> account[u].password,
                to |-> [account[u] EXCEPT !.password = passwords']])
          /\ UNCHANGED <<shown, tangled>>
    BY <1>9 DEF ChangePassword
  <2>2. /\ account[u].password \in Password
        /\ [account[u] EXCEPT !.password = passwords'] \in AccountRow
    BY <1>1, <2>1 DEF AccountRow, Password
  <2>3. [op |-> "change_password", user |-> u, presented |-> account[u].password,
         to |-> [account[u] EXCEPT !.password = passwords']] \in AccountRequest
    BY <2>2 DEF AccountRequest
  <2> QED
    BY <1>8, <2>1, <2>3
<1>10. /\ request[t].op \in WriteOps => request[t].user \in User /\ request[t].to \in AccountRow
       /\ request[t].op = "deliver" => request[t].temporary \in Temporary
  BY DEF TypedInv, PasswordInv, PasswordOK, CookieInv, CarriedOK, Pending
<1>11. CASE CommitPassword(t)
  <2> DEFINE r == [op |-> "deliver", browser |-> request[t].browser, jar |-> request[t].jar,
                   temporary |-> [user |-> request[t].user,
                                  password |-> request[t].to.password]]
  <2>1. /\ request[t].op \in {"create_user", "reset_password"}
        /\ \E columns : Commit(t, r, columns)
        /\ UNCHANGED <<shown, tangled>>
    BY <1>11 DEF CommitPassword
  <2>2. /\ request[t].browser \in Browser /\ request[t].jar \in Temporary \cup {NULL}
        /\ request[t].user \in User /\ request[t].to \in AccountRow
    BY <1>10, <2>1, CarriedTyped DEF WriteOps, BrowserOps, AccountOps
  <2>3. [user |-> request[t].user, password |-> request[t].to.password] \in Temporary
    BY <2>2 DEF AccountRow, Temporary
  <2>4. r \in AccountRequest /\ r.op # "respond"
    BY <2>2, <2>3 DEF AccountRequest
  <2> HIDE DEF r
  <2> QED
    BY <1>8, <2>1, <2>4
<1>12. CASE CommitChange(t) \/ Deliver(t)
  <2>1. PICK jar \in Temporary \cup {NULL}, user \in User \cup {NULL} :
          /\ request[t].op \in {"change_account", "deliver"}
          /\ \/ \E columns : Commit(t, Response(request[t], jar, user), columns)
             \/ Continue(t, Response(request[t], jar, user))
          /\ UNCHANGED <<shown, tangled>>
    <3>1. request[t].op \in {"change_account", "deliver"}
      BY <1>12 DEF CommitChange, Deliver
    <3>2. request[t].jar \in Temporary \cup {NULL}
      BY <3>1, CarriedTyped DEF BrowserOps, AccountOps
    <3>3. CASE CommitChange(t)
      <4>1. /\ \E columns : Commit(t, Response(request[t], request[t].jar, NULL), columns)
            /\ UNCHANGED <<shown, tangled>>
        BY <3>3 DEF CommitChange
      <4> QED
        BY <3>1, <3>2, <4>1
    <3>4. CASE Deliver(t)
      <4>1. /\ \/ Continue(t, Response(request[t], request[t].jar, NULL))
               \/ Continue(t, Response(request[t], request[t].temporary,
                                       request[t].temporary.user))
            /\ request[t].op = "deliver" /\ UNCHANGED <<shown, tangled>>
        BY <3>4 DEF Deliver, accountVars
      <4>2. request[t].temporary \in Temporary /\ request[t].temporary.user \in User
        BY <1>10, <4>1 DEF Temporary
      <4> QED
        BY <3>1, <3>2, <4>1, <4>2
    <3> QED
      BY <1>12, <3>3, <3>4
  <2>2. request[t].browser \in Browser
    BY <2>1, CarriedTyped DEF BrowserOps, AccountOps
  <2> DEFINE r == Response(request[t], jar, user)
  <2>3. r \in AccountRequest /\ r.displays = NULL
    BY <2>2 DEF Response, AccountRequest
  <2> HIDE DEF r
  <2>4. /\ (\E columns : Commit(t, r, columns)) \/ Continue(t, r)
        /\ UNCHANGED <<shown, tangled>>
    BY <2>1 DEF r
  <2> QED
    BY <1>8, <2>3, <2>4
<1>13. CASE CommitOwnPassword(t) \/ RespondError(t) \/ AccountAbort(t)
  <2>1. /\ (\E columns : Commit(t, NoRequest, columns)) \/ Continue(t, NoRequest)
        /\ UNCHANGED <<shown, tangled>>
    BY <1>13 DEF CommitOwnPassword, WriteOwnPassword, RespondError, AccountAbort
  <2>2. NoRequest.op # "respond"
    BY NoRequestHasOp
  <2> QED
    BY <1>8, <2>1, <2>2
<1>14. CASE Respond(t)
  <2>1. /\ Continue(t, NoRequest) /\ tangled' = tangled /\ request[t].op = "respond"
        /\ shown' = IF request[t].displays = NULL THEN shown
                    ELSE shown \cup {[page |-> request[t].page,
                                      temporary |-> request[t].displays]}
    BY <1>14 DEF Respond
  <2>2. request[t].displays # NULL
          => request[t].page \in User /\ request[t].displays \in Temporary
    BY <2>1, CarriedTyped DEF TypedInv, PageOK, BrowserOps, AccountOps
  <2>3. shown' \subseteq [page : User, temporary : Temporary]
    BY <1>1, <2>1, <2>2
  <2>4. GoesOnAs(t, NoRequest) /\ NoRequest.op # "respond"
    BY <2>1, NoRequestHasOp DEF GoesOnAs
  <2> QED
    BY <1>1, <1>2, <2>1, <2>3, <2>4 DEF Typed
<1> QED
  BY <1>4, <1>5, <1>6, <1>7, <1>9, <1>11, <1>12, <1>13, <1>14 DEF AccountStep

LEMMA StoreTyped ==
  ASSUME NEW r \in AnyRequest, r.op = "store"
  PROVE  r.page \in Value
<1>1. r \notin RegistryRequest /\ r \notin AttachmentRequest /\ r \notin AccountRequest
  BY DEF RegistryRequest, AttachmentRequest, AccountRequest
<1>2. r \in SettingsRequest
  BY <1>1, NoRequestHasOp DEF AnyRequest
<1> QED
  BY <1>2 DEF SettingsRequest, SaveRequest

LEMMA SettingTyped ==
  ASSUME TypedInv
  PROVE  Setting(config, "wifi_ssid") \in Value
BY SettingsAssumption DEF TypedInv, SettingsTypeOK, Table, Setting

LEMMA SettingsTyped ==
  ASSUME TypedInv, SaversInv', NEW t \in Thread, SettingsStep(t)
  PROVE  (\E r \in SettingsRequest \cup {NoRequest} : GoesOnAs(t, r)) /\ SettingsTypeOK'
<1>1. /\ config \in Table /\ config' \in Table
      /\ guide \in [dictionary : Nat, version : BOOLEAN, page : Value \cup {NULL}]
      /\ restarts \in 0 .. MaxRestarts /\ excuses \subseteq Excuse
  BY DEF TypedInv, SettingsTypeOK, SaversInv
<1>2. CASE SaveSettings(t) \/ CommitKey(t) \/ KeepKey(t) \/ InsertRefused(t)
  <2>1. PICK r : GoesOnAs(t, r) /\ r.op = "save_settings"
    <3>1. CASE SaveSettings(t)
      <4>1. PICK form, at :
              Begin(t, "settings", [op |-> "save_settings", form |-> form,
                                    viewed |-> config, seen |-> config, at |-> at, saved |-> FALSE])
        BY <3>1 DEF SaveSettings
      <4> DEFINE r == [op |-> "save_settings", form |-> form,
                       viewed |-> config, seen |-> config, at |-> at, saved |-> FALSE]
      <4>2. r.op = "save_settings" /\ GoesOnAs(t, r)
        BY <4>1 DEF GoesOnAs
      <4> HIDE DEF r
      <4> QED
        BY <4>2
    <3>2. "op" \in DOMAIN request[t]
      BY DEF TypedInv, SaversInv, RequestsOK
    <3>3. CASE CommitKey(t)
      <4> DEFINE r == [NextFrom(request[t], config') EXCEPT
                         !.saved = @ \/ ConfigKey[request[t].at] = "wifi_ssid"]
      <4>1. /\ request[t].op = "save_settings"
            /\ Commit(t, r, {<<ConfigKey[request[t].at], "value">>})
        BY <3>3 DEF CommitKey, WriteKey, SavingKey
      <4>2. r.op = request[t].op
        BY <3>2 DEF NextFrom
      <4> HIDE DEF r
      <4> QED
        BY <4>1, <4>2 DEF GoesOnAs
    <3>4. CASE KeepKey(t)
      <4> DEFINE r == NextFrom(request[t], config)
      <4>1. request[t].op = "save_settings" /\ Commit(t, r, {})
        BY <3>4 DEF KeepKey, SavingKey
      <4>2. r.op = request[t].op
        BY <3>2 DEF NextFrom
      <4> HIDE DEF r
      <4> QED
        BY <4>1, <4>2 DEF GoesOnAs
    <3>5. CASE InsertRefused(t)
      <4> DEFINE r == [request[t] EXCEPT !.seen = config]
      <4>1. request[t].op = "save_settings" /\ Commit(t, r, {})
        BY <3>5 DEF InsertRefused, SavingKey
      <4>2. r.op = request[t].op
        BY <3>2
      <4> HIDE DEF r
      <4> QED
        BY <4>1, <4>2 DEF GoesOnAs
    <3> QED
      BY <1>2, <3>1, <3>3, <3>4, <3>5
  <2>2. request'[t] = r
    BY <2>1, GoesOn
  <2>3. r \in SettingsRequest
    BY <2>1, <2>2 DEF SaversInv, SaverOK, SettingsRequest
  <2>4. UNCHANGED <<guide, restarts, excuses>>
    BY <1>2 DEF SaveSettings, CommitKey, WriteKey, KeepKey, InsertRefused, settingsVars
  <2> QED
    BY <1>1, <2>1, <2>3, <2>4 DEF SettingsTypeOK
<1>3. CASE RenderPage(t)
  <2>1. GoesOnAs(t, [op |-> "render", dictionary |-> guide.dictionary])
    BY <1>3 DEF RenderPage, GoesOnAs
  <2>2. [op |-> "render", dictionary |-> guide.dictionary] \in SettingsRequest
    BY <1>1 DEF SettingsRequest
  <2> QED
    BY <1>1, <1>3, <2>1, <2>2 DEF RenderPage, settingsVars, SettingsTypeOK
<1>4. CASE ReadSetting(t)
  <2>1. PICK page \in Value, failed \in BOOLEAN :
          Continue(t, [op |-> "store", dictionary |-> request[t].dictionary,
                       page |-> page, failed |-> failed])
    BY <1>4, SettingTyped, SettingsAssumption DEF ReadSetting
  <2>2. request[t].dictionary \in Nat
    BY <1>4 DEF ReadSetting, TypedInv, GuideInv, RenderOK
  <2>3. [op |-> "store", dictionary |-> request[t].dictionary, page |-> page,
         failed |-> failed] \in SettingsRequest
    BY <2>2 DEF SettingsRequest
  <2>4. GoesOnAs(t, [op |-> "store", dictionary |-> request[t].dictionary,
                     page |-> page, failed |-> failed])
    BY <2>1 DEF GoesOnAs
  <2> QED
    BY <1>1, <1>4, <2>3, <2>4 DEF ReadSetting, settingsVars, SettingsTypeOK
<1>5. CASE FinishSave(t) \/ StorePage(t) \/ SettingsAbort(t)
  <2>1. GoesOnAs(t, NoRequest)
    BY <1>5 DEF FinishSave, StorePage, SettingsAbort, GoesOnAs
  <2>2. restarts' = restarts
    BY <1>5 DEF FinishSave, StorePage, SettingsAbort
  <2>3. excuses' \subseteq Excuse
    BY <1>1, <1>5 DEF FinishSave, StorePage, SettingsAbort, Excuse
  <2>4. guide' \in [dictionary : Nat, version : BOOLEAN, page : Value \cup {NULL}]
    <3>1. CASE StorePage(t)
      <4>1. request[t].page \in Value
        BY <3>1, StoreTyped DEF StorePage, TypedInv
      <4> QED
        BY <1>1, <3>1, <4>1 DEF StorePage
    <3>2. CASE FinishSave(t)
      <4>1. guide.dictionary + 1 \in Nat
        BY <1>1
      <4>2. CASE guide' = guide
        BY <1>1, <4>2
      <4>3. CASE guide' = [guide EXCEPT !.dictionary = guide.dictionary + 1, !.page = NULL]
        BY <1>1, <4>1, <4>3
      <4> QED
        BY <3>2, <4>2, <4>3 DEF FinishSave
    <3>3. CASE SettingsAbort(t)
      BY <1>1, <3>3 DEF SettingsAbort
    <3> QED
      BY <1>5, <3>1, <3>2, <3>3
  <2> QED
    BY <1>1, <2>1, <2>2, <2>3, <2>4 DEF SettingsTypeOK
<1> QED
  BY <1>2, <1>3, <1>4, <1>5 DEF SettingsStep

LEMMA TypedInitially == Init => TypedInv
<1> SUFFICES ASSUME Init PROVE TypedInv
  OBVIOUS
<1>1. /\ RequestsOK /\ request = [t \in Thread |-> NoRequest]
      /\ \A t \in Thread : request[t].op = "none"
  BY RequestsInitially, NoRequestHasOp DEF Init, RequestsInit
<1>2. AttachmentInv /\ AtRegistry
  BY <1>1, AttachmentInitially DEF AtRegistry, AttachmentOps
<1>3. PasswordInv /\ CookieInv /\ AtAccounts
  BY PasswordInitially, CookiesInitially
<1>4. guide = [dictionary |-> 0, version |-> FALSE, page |-> NULL]
  BY DEF Init, SettingsInit
<1>5. SaversInv /\ GuideInv
  BY <1>1, <1>4 DEF SaversInv, SaverOK, GuideInv, RenderOK, LateRender, Init, SettingsInit
<1>6. SettingsTypeOK
  BY <1>4, SettingsAssumption DEF Init, SettingsInit, SettingsTypeOK
<1>7. /\ desk \in Desk /\ begun \in Nat /\ shown = {} /\ tangled = {}
  BY DEF Init, RequestsInit, AccountInit
<1> QED
  BY <1>1, <1>2, <1>3, <1>5, <1>6, <1>7 DEF TypedInv, AnyRequest, PageOK

LEMMA TypedInvariant == TypedInv /\ [Next]_vars => TypedInv'
<1> SUFFICES ASSUME TypedInv, [Next]_vars PROVE TypedInv'
  OBVIOUS
<1> DEFINE Kept == /\ AttachmentInv /\ PasswordInv /\ CookieInv /\ SaversInv /\ GuideInv
                   /\ AtRegistry /\ AtAccounts
<1>1. Kept'
  <2>1. RequestsOK /\ Kept
    BY DEF TypedInv, PasswordInv
  <2>2. (AttachmentInv /\ AtRegistry)'
    BY <2>1, AttachmentInvariant, AtRegistryKept
  <2>3. (PasswordInv /\ CookieInv /\ AtAccounts)'
    BY <2>1, PasswordInvariant, CookieInvariant
  <2>4. (SaversInv /\ GuideInv)'
    BY <2>1, SaversInvariant, GuideInvariant
  <2> QED
    BY <2>2, <2>3, <2>4
<1> HIDE DEF Kept
<1> DEFINE Rest == /\ shown \subseteq [page : User, temporary : Temporary]
                   /\ tangled \subseteq Browser
                   /\ SettingsTypeOK
<1>2. ASSUME NEW t \in Thread, NEW r \in AnyRequest, GoesOnAs(t, r), PageOK(t)', Rest'
      PROVE  TypedInv'
  <2>1. /\ request' = [request EXCEPT ![t] = r] /\ desk' \in Desk /\ begun' \in Nat
    BY <1>2, GoesOn
  <2>2. request' \in [Thread -> AnyRequest] /\ \A u \in Thread : PageOK(u)'
    BY <1>2, <2>1 DEF TypedInv, PageOK
  <2> QED
    BY <1>1, <1>2, <2>1, <2>2 DEF TypedInv, Kept
<1>3. Rest
  BY DEF TypedInv
<1>4. ASSUME NEW t \in Thread, AccountStep(t), UNCHANGED settingsVars
      PROVE  TypedInv'
  <2>1. Rest' /\ PageOK(t)'
    BY <1>3, <1>4, AccountTyped DEF settingsVars, SettingsTypeOK
  <2>2. PICK r \in AccountRequest \cup {NoRequest} : GoesOnAs(t, r)
    BY <1>4, AccountTyped
  <2>3. r \in AnyRequest
    BY DEF AnyRequest
  <2> QED
    BY <1>2, <2>1, <2>2, <2>3
<1>5. ASSUME NEW t \in Thread, NEW r \in RegistryRequest \cup AttachmentRequest
                                            \cup SettingsRequest \cup {NoRequest},
             GoesOnAs(t, r), Rest'
      PROVE  TypedInv'
  <2>1. r \in AnyRequest
    BY DEF AnyRequest
  <2>2. r.op # "respond"
    BY NoRequestHasOp
    DEF RegistryRequest, AttachmentRequest, SettingsRequest, SaveRequest
  <2>3. PageOK(t)'
    BY <1>5, <2>2, GoesOn DEF PageOK
  <2> QED
    BY <1>2, <1>5, <2>1, <2>3
<1>6. ASSUME NEW t \in Thread, RegistryStep(t) \/ AttachmentStep(t),
             UNCHANGED <<accountVars, settingsVars>>
      PROVE  TypedInv'
  <2>1. Rest'
    BY <1>3, <1>6 DEF accountVars, settingsVars, SettingsTypeOK
  <2>2. \E r \in RegistryRequest \cup AttachmentRequest \cup {NoRequest} : GoesOnAs(t, r)
    BY <1>6, RegistryTyped, AttachmentTyped
  <2> QED
    BY <1>5, <2>1, <2>2
<1>7. ASSUME NEW t \in Thread, SettingsStep(t), UNCHANGED accountVars
      PROVE  TypedInv'
  <2>0. SaversInv'
    BY <1>1 DEF Kept
  <2>1. Rest'
    BY <1>3, <1>7, <2>0, SettingsTyped DEF accountVars
  <2>2. \E r \in SettingsRequest \cup {NoRequest} : GoesOnAs(t, r)
    BY <1>7, <2>0, SettingsTyped
  <2> QED
    BY <1>5, <2>1, <2>2
<1>8. ASSUME UNCHANGED request, desk' = desk, begun' = begun, Rest'
      PROVE  TypedInv'
  BY <1>1, <1>8 DEF TypedInv, PageOK, Kept
<1>9. CASE SeedAdmin /\ UNCHANGED settingsVars
  BY <1>3, <1>8, <1>9 DEF SeedAdmin, requestVars, settingsVars, SettingsTypeOK
<1>10. CASE ReadVersion /\ UNCHANGED accountVars
  <2>1. SettingsTypeOK'
    BY <1>3, <1>10 DEF ReadVersion, SettingsTypeOK
  <2> QED
    BY <1>3, <1>8, <1>10, <2>1 DEF ReadVersion, requestVars, accountVars
<1>11. CASE Restart /\ UNCHANGED accountVars
  <2>1. request' = [t \in Thread |-> NoRequest] /\ desk' = desk /\ begun' = begun
    BY <1>11 DEF Restart
  <2>2. request' \in [Thread -> AnyRequest] /\ \A t \in Thread : PageOK(t)'
    BY <2>1, NoRequestHasOp DEF AnyRequest, PageOK
  <2>3. SettingsTypeOK'
    BY <1>3, <1>11, SettingsAssumption DEF Restart, SettingsTypeOK
  <2> QED
    BY <1>1, <1>3, <1>11, <2>1, <2>2, <2>3 DEF TypedInv, Kept, accountVars
<1>12. CASE UNCHANGED vars
  BY <1>3, <1>8, <1>12 DEF vars, requestVars, accountVars, settingsVars, SettingsTypeOK
<1> QED
  BY <1>4, <1>6, <1>7, <1>9, <1>10, <1>11, <1>12 DEF Next

\* The requests of the four desks have their shapes, and the tables, the cookies and the
\* cache of the guide their types.
THEOREM TypeCorrect == Spec => []TypeOK
<1>1. TypedInv => TypeOK
  <2> SUFFICES ASSUME TypedInv PROVE TypeOK
    OBVIOUS
  <2>1. RegistryTypeOK /\ AttachmentTypeOK /\ SettingsTypeOK
    BY DEF TypedInv, AttachmentInv, RegistryInv, ItemsOK
  <2>2. AccountTypeOK
    <3>1. lost \subseteq Temporary
      BY DEF TypedInv, CookieInv, HandedOK
    <3> QED
      BY <3>1 DEF TypedInv, PasswordInv, CookieInv, HandedOK, AccountTypeOK
  <2> QED
    BY <2>1, <2>2 DEF TypedInv, TypeOK, AnyRequest
<1> QED
  BY <1>1, TypedInitially, TypedInvariant, PTL DEF Spec
=============================================================================
