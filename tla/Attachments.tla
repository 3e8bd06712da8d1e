----------------------------- MODULE Attachments -----------------------------
(***************************************************************************)
(* What hangs on a piece of equipment (views/equipment.py,                 *)
(* equipment_service.py, upload_service.py): links and notes are rows;     *)
(* documents and photos are a row and a file, written apart.  The view     *)
(* alone refuses archived equipment; the services do not look again, and   *)
(* nothing in the database holds the equipment while they write.           *)
(*                                                                         *)
(* Who may edit (staff, or technicians while tech_doc_edit_enabled) is     *)
(* decided with the same snapshot as the rest, and left out; so is what    *)
(* makes a form or a file acceptable.                                      *)
(***************************************************************************)
EXTENDS EquipmentRegistry

CONSTANT Item    \* ids of rows; the name of a file stands for the row it is for

VARIABLES
  item,    \* the tables external_links, equipment_notes and documents: row or NULL
  unused,  \* ids not given out yet: neither a row id nor a uuid4 comes again
  files,   \* the files under UPLOAD_PATH
  cutOff   \* history: items whose request died between file and row

attachmentVars == <<item, unused, files, cutOff>>

UploadKinds == {"equipment_doc", "equipment_photo"}
Kinds == UploadKinds \cup {"link", "note"}

ItemRow == [kind : Kinds, equipment_id : Equipment]

ASSUME AttachmentsAssumption == NULL \notin ItemRow

AttachmentRequest ==
  [op : {"attach", "upload"}, to : ItemRow]
    \cup [op : {"insert_document"}, row : Item, to : ItemRow]
    \cup [op : {"remove_file", "delete"}, row : Item]

AttachmentOps == {"attach", "upload", "insert_document", "remove_file", "delete"}

-----------------------------------------------------------------------------
(* The views.                                                              *)

\* Mutant: the view forgets to look whether the equipment is archived.
BeginAttachmentAnyway(t, e, r) ==
  /\ Begin(t, "registry", r)
  /\ UNCHANGED <<registryVars, attachmentVars>>

BeginAttachment(t, e, r) ==
  /\ LiveEquipment(e)
  /\ Begin(t, "registry", r)
  /\ UNCHANGED <<registryVars, attachmentVars>>

AddLink(t) ==
  \E e \in DOMAIN equipment :
    BeginAttachment(t, e, [op |-> "attach", to |-> [kind |-> "link", equipment_id |-> e]])

AddNote(t) ==
  \E e \in DOMAIN equipment :
    BeginAttachment(t, e, [op |-> "attach", to |-> [kind |-> "note", equipment_id |-> e]])

UploadDocument(t) ==
  \E e \in DOMAIN equipment :
    BeginAttachment(t, e, [op |-> "upload",
                           to |-> [kind |-> "equipment_doc", equipment_id |-> e]])

UploadPhoto(t) ==
  \E e \in DOMAIN equipment :
    BeginAttachment(t, e, [op |-> "upload",
                           to |-> [kind |-> "equipment_photo", equipment_id |-> e]])

\* The row must be of the kind and the equipment the page names.
DeleteLink(t) ==
  \E i \in Item :
    /\ item[i] # NULL /\ item[i].kind = "link"
    /\ BeginAttachment(t, item[i].equipment_id, [op |-> "delete", row |-> i])

DeleteDocument(t) ==
  \E i \in Item :
    /\ item[i] # NULL /\ item[i].kind = "equipment_doc"
    /\ BeginAttachment(t, item[i].equipment_id, [op |-> "remove_file", row |-> i])

DeletePhoto(t) ==
  \E i \in Item :
    /\ item[i] # NULL /\ item[i].kind = "equipment_photo"
    /\ BeginAttachment(t, item[i].equipment_id, [op |-> "remove_file", row |-> i])

-----------------------------------------------------------------------------
(* The services.                                                           *)

\* The commit of a row that has no file.
Attach(t, kind) ==
  /\ request[t].op = "attach" /\ request[t].to.kind = kind
  /\ \E i \in unused :
       /\ item' = [item EXCEPT ![i] = request[t].to]
       /\ unused' = unused \ {i}
  /\ Commit(t, NoRequest, {})
  /\ UNCHANGED <<registryVars, files, cutOff>>

CommitLink(t) == Attach(t, "link")

CommitNote(t) == Attach(t, "note")

\* save_upload writes the file under a name of its own,
SaveFile(t) ==
  /\ request[t].op = "upload"
  /\ \E i \in unused :
       /\ files' = files \cup {i}
       /\ unused' = unused \ {i}
       /\ Continue(t, [op |-> "insert_document", row |-> i, to |-> request[t].to])
  /\ UNCHANGED <<registryVars, item, cutOff>>

\* then its row.
InsertDocument(t) ==
  /\ request[t].op = "insert_document"
  /\ item' = [item EXCEPT ![request[t].row] = request[t].to]
  /\ Commit(t, NoRequest, {})
  /\ UNCHANGED <<registryVars, unused, files, cutOff>>

\* Mutant: the path is built from another directory, where the file does not exist.
RemoveFileElsewhere(t) ==
  /\ request[t].op = "remove_file"
  /\ Continue(t, [op |-> "delete", row |-> request[t].row])
  /\ UNCHANGED <<registryVars, attachmentVars>>

\* delete_upload removes the file if it is there,
RemoveFile(t) ==
  /\ request[t].op = "remove_file"
  /\ files' = files \ {request[t].row}
  /\ Continue(t, [op |-> "delete", row |-> request[t].row])
  /\ UNCHANGED <<registryVars, item, unused, cutOff>>

\* The row goes, unless another request deleted it: then nothing is left to do.
DeleteRow(t, kinds) ==
  /\ request[t].op = "delete"
  /\ item[request[t].row] # NULL
  /\ item[request[t].row].kind \in kinds
  /\ item' = [item EXCEPT ![request[t].row] = NULL]
  /\ Commit(t, NoRequest, {})
  /\ UNCHANGED <<registryVars, unused, files, cutOff>>

\* then the row.
DeleteDocumentRow(t) == DeleteRow(t, UploadKinds)

\* delete_equipment_link
DeleteLinkRow(t) == DeleteRow(t, {"link"})

\* The database or the file system refuses, or the process dies.
AttachmentAbort(t) ==
  /\ request[t].op \in AttachmentOps
  /\ cutOff' = IF request[t].op \in {"insert_document", "delete"}
                 THEN cutOff \cup {request[t].row} ELSE cutOff
  /\ Continue(t, NoRequest)
  /\ UNCHANGED <<registryVars, item, unused, files>>

AttachmentInit ==
  /\ item = [i \in Item |-> NULL]
  /\ unused = Item
  /\ files = {}
  /\ cutOff = {}

AttachmentStep(t) ==
  \/ AddLink(t) \/ AddNote(t) \/ UploadDocument(t) \/ UploadPhoto(t)
  \/ DeleteLink(t) \/ DeleteDocument(t) \/ DeletePhoto(t)
  \/ CommitLink(t) \/ CommitNote(t) \/ SaveFile(t) \/ InsertDocument(t)
  \/ RemoveFile(t) \/ DeleteDocumentRow(t) \/ DeleteLinkRow(t)
  \/ AttachmentAbort(t)

-----------------------------------------------------------------------------
AttachmentTypeOK ==
  /\ item \in [Item -> ItemRow \cup {NULL}]
  /\ unused \subseteq Item
  /\ files \subseteq Item
  /\ cutOff \subseteq Item

\* Every row of a document or photo has its file, and every file its row, unless a
\* request is between the two or died there: whatever saves, deletes and repeated
\* deletes overlap.
FilesMatchRows ==
  \A i \in Item :
    \/ i \in cutOff
    \/ \E t \in Thread :
         request[t].op \in {"insert_document", "delete"} /\ request[t].row = i
    \/ (i \in files) <=> (item[i] # NULL /\ item[i].kind \in UploadKinds)

\* Some request finishes that began before `row' was archived.
LateRequest(row) ==
  \E t \in Thread : request'[t] # request[t] /\ Overtaken(t, row, "is_archived")

\* Archiving is for good: the row of archived equipment never changes again.  The
\* checks are made before the write, so links, notes, documents and photos of archived
\* equipment, and the equipment of an archived area, change only by a request that was
\* under way when it was archived.
ArchivedStaysAsItIs ==
  [][/\ \A e \in DOMAIN equipment :
          equipment[e].is_archived => equipment'[e] = equipment[e]
     /\ \A i \in Item : item'[i] # item[i] =>
          LET e == (IF item[i] = NULL THEN item'[i] ELSE item[i]).equipment_id
          IN  equipment[e].is_archived => LateRequest(e)
     /\ \A e \in DOMAIN equipment' :
          LET a == equipment'[e].area_id IN
          /\ area[a].is_archived
          /\ e \notin DOMAIN equipment \/ equipment[e].area_id # a
          => LateRequest(a)]_<<registryVars, attachmentVars>>
=============================================================================
