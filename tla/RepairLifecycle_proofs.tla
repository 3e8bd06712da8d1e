----------------------- MODULE RepairLifecycle_proofs -----------------------
(***************************************************************************)
(* The safety of RepairLifecycle for any records, equipment, people,       *)
(* dates, forms and number of overlapping requests.                        *)
(***************************************************************************)
EXTENDS RepairLifecycle, TLAPS

-----------------------------------------------------------------------------
(* What the rules of RepairRules give, for one record.                     *)

\* Changes as requests ask for them: values of their types, and a link only with
\* the duplicate status.
IsChanges(row, changes) ==
  /\ IsWrite(changes)
  /\ "duplicated_repair_id" \in DOMAIN changes
       => \/ changes["duplicated_repair_id"] = NULL
          \/ Effective(row, changes, "status") = "Closed - Duplicate"

\* The silent clear changes no other field, and keeps the types.
LEMMA ClearedIsWrite ==
  ASSUME NEW row, NEW changes, IsWrite(changes)
  PROVE  LET asked == WithLinkCleared(row, changes) IN
         /\ IsWrite(asked)
         /\ \A f \in DOMAIN asked :
              f # "duplicated_repair_id" => f \in DOMAIN changes /\ asked[f] = changes[f]
         /\ DOMAIN changes \subseteq DOMAIN asked
  BY DEF WithLinkCleared, IsWrite, UpdatableFields

\* Only what differs is written, with the values asked for.
LEMMA WrittenIsWrite ==
  ASSUME NEW row, NEW changes, IsWrite(changes)
  PROVE  IsWrite(Written(row, changes))
<1> DEFINE asked == WithLinkCleared(row, changes)
<1>1. IsWrite(asked)
  BY ClearedIsWrite
<1>2. /\ DOMAIN Written(row, changes) \subseteq DOMAIN asked
      /\ \A f \in DOMAIN Written(row, changes) : Written(row, changes)[f] = asked[f]
  BY DEF Written
<1> HIDE DEF asked
<1> QED
  BY <1>1, <1>2 DEF IsWrite

\* Writing only what differs has the effect of writing all that was asked.
LEMMA WrittenEffect ==
  ASSUME NEW row, NEW changes, NEW f
  PROVE  Effective(row, Written(row, changes), f)
           = Effective(row, WithLinkCleared(row, changes), f)
  BY DEF Effective, Written

\* An update keeps the type of a row.
LEMMA UpdatedType ==
  ASSUME NEW row \in RowType, NEW w, IsWrite(w)
  PROVE  /\ Updated(row, w) \in RowType
         /\ Updated(row, w).equipment_id = row.equipment_id
  BY DEF RowType, IsWrite, Updated, Effective

\* What an accepted update leaves in the row, as long as nothing else writes it: a
\* duplicate link only with the duplicate status, to another record of the equipment.
LinkedAs(table, r, row) ==
  row.duplicated_repair_id # NULL =>
    /\ row.status = "Closed - Duplicate"
    /\ row.duplicated_repair_id \in DOMAIN table \ {r}
    /\ table[row.duplicated_repair_id].equipment_id = table[r].equipment_id

\* A settled table, row by row.
LEMMA SettledRows ==
  ASSUME NEW table
  PROVE  SettledTable(table) <=> \A r \in DOMAIN table : LinkedAs(table, r, table[r])
  BY DEF SettledTable, SoundLink, LinkedAs

\* An accepted request leaves such a row.
LEMMA AcceptedLinks ==
  ASSUME NEW table, NEW r \in DOMAIN table, SettledTable(table),
         table[r] \in RowType,
         NEW changes, IsChanges(table[r], changes), Accepted(table, r, changes)
  PROVE  LinkedAs(table, r, Updated(table[r], Written(table[r], changes)))
<1> DEFINE row == table[r]
           new == Updated(row, Written(row, changes))
           target == Effective(row, changes, "duplicated_repair_id")
           status == Effective(row, changes, "status")
<1>1. new.status = status
  BY WrittenEffect DEF Updated, Effective, WithLinkCleared
<1>2. new.duplicated_repair_id
        = Effective(row, WithLinkCleared(row, changes), "duplicated_repair_id")
  BY WrittenEffect DEF Updated
<1> SUFFICES ASSUME new.duplicated_repair_id # NULL
             PROVE  /\ status = "Closed - Duplicate"
                    /\ target \in DOMAIN table \ {r}
                    /\ table[target].equipment_id = table[r].equipment_id
                    /\ new.duplicated_repair_id = target
  BY <1>1 DEF LinkedAs
<1>3. /\ new.duplicated_repair_id = target
      /\ ~(/\ LeavesDuplicate(row, changes)
           /\ row.duplicated_repair_id # NULL
           /\ "duplicated_repair_id" \notin DOMAIN changes)
  BY <1>2 DEF WithLinkCleared, Effective
<1>4. CASE SetsDuplicate(row, changes)
  BY <1>3, <1>4 DEF Accepted, LinkAllowed
<1>5. CASE ~SetsDuplicate(row, changes)
  <2>1. target = row.duplicated_repair_id
    BY <1>3, <1>5 DEF SetsDuplicate
  <2>2. /\ row.status = "Closed - Duplicate"
        /\ target \in DOMAIN table \ {r}
        /\ table[target].equipment_id = row.equipment_id
    BY <1>3, <2>1 DEF SettledTable, SoundLink
  <2>3. status = "Closed - Duplicate"
    BY <1>3, <2>1, <2>2 DEF LeavesDuplicate, IsChanges, Effective
  <2> QED
    BY <1>3, <2>2, <2>3
<1> QED
  BY <1>4, <1>5

-----------------------------------------------------------------------------
(* The inductive invariant.                                                *)

\* A request that has decided: it knows its record, and what it writes has the types
\* of the columns.
PlanTyped(t) ==
  LET p == plan[t] IN
  /\ pc[t] = "commit" /\ p.kind = "create" =>
       /\ p.equipment_id \in Equipment
       /\ p.write["severity"] \in REPAIR_SEVERITIES \cup {NULL}
       /\ p.write["assignee_id"] \in User \cup {NULL}
  /\ pc[t] = "commit" /\ p.kind # "create" => IsWrite(p.write)
  /\ pc[t] \in {"queue", "then"} \/ (pc[t] = "commit" /\ p.kind # "create") =>
       /\ p.record \in DOMAIN repair
       /\ p.equipment_id = repair[p.record].equipment_id
  /\ p.then \in (StatusInput \ {"New", "Closed - Duplicate"}) \cup {NULL}
  /\ pc[t] = "then" => p.then # NULL
  /\ pc[t] # "queue" => todo[t] = {}

\* While nobody changes the record a request has read, what it decided stays right:
\* the link it leaves, the old values it reports, and that the record is open.
DecisionSound(t) ==
  LET p == plan[t] IN
  pc[t] = "commit" /\ p.kind # "create" /\ t \notin stale =>
    /\ LinkedAs(repair, p.record, Updated(repair[p.record], p.write))
    /\ \A f \in DOMAIN p.write : p.old[f] = repair[p.record][f]
    /\ p.kind \in {"set", "claim", "resolve"} => IsOpen(repair[p.record])

\* The machine due to be unlocked has no open repair, so the check will find none.
DueHaveNoOpenRepair == \A e \in unlockDue : OpenRepairs(repair, e, {}) = {}

PlansTyped == DOMAIN plan = Thread /\ \A t \in Thread : PlanTyped(t)
DecisionsSound == \A t \in Thread : DecisionSound(t)

IInv ==
  /\ TypeOK
  /\ PlansTyped
  /\ DecisionsSound
  /\ LinksStaySettled
  /\ DueHaveNoOpenRepair
  /\ UnlockNeverForgotten

\* The table may grow and its rows change, as long as they stay on their equipment.
Kept(table, new) ==
  /\ DOMAIN table \subseteq DOMAIN new
  /\ \A r \in DOMAIN table : new[r].equipment_id = table[r].equipment_id

\* Links survive such changes of the table.
LEMMA LinkedKept ==
  ASSUME NEW table, NEW new, Kept(table, new), NEW r \in DOMAIN table, NEW row,
         LinkedAs(table, r, row)
  PROVE  LinkedAs(new, r, row)
  BY DEF Kept, LinkedAs

\* A decision stays sound while the row it was made on is unchanged.
LEMMA DecisionKept ==
  ASSUME NEW u \in Thread, DecisionSound(u), PlanTyped(u), Kept(repair, repair'),
         plan'[u] = plan[u], pc'[u] = pc[u],
         pc[u] = "commit" /\ plan[u].kind # "create" /\ u \notin stale'
           => u \notin stale /\ repair'[plan[u].record] = repair[plan[u].record]
  PROVE  DecisionSound(u)'
<1> SUFFICES ASSUME pc[u] = "commit", plan[u].kind # "create", u \notin stale'
             PROVE  LET p == plan[u] IN
                    /\ LinkedAs(repair', p.record, Updated(repair'[p.record], p.write))
                    /\ \A f \in DOMAIN p.write : p.old[f] = repair'[p.record][f]
                    /\ p.kind \in {"set", "claim", "resolve"} => IsOpen(repair'[p.record])
  BY DEF DecisionSound
<1> DEFINE p == plan[u]
<1>1. /\ p.record \in DOMAIN repair
      /\ repair'[p.record] = repair[p.record]
  BY DEF PlanTyped
<1>2. /\ LinkedAs(repair, p.record, Updated(repair[p.record], p.write))
      /\ \A f \in DOMAIN p.write : p.old[f] = repair[p.record][f]
      /\ p.kind \in {"set", "claim", "resolve"} => IsOpen(repair[p.record])
  BY DEF DecisionSound
<1>3. LinkedAs(repair', p.record, Updated(repair[p.record], p.write))
  BY <1>1, <1>2, LinkedKept
<1> QED
  BY <1>1, <1>2, <1>3

-----------------------------------------------------------------------------
(* Beginning a request.                                                    *)

\* A plan as PlanTyped and DecisionSound want it of the thread that makes it.
GoodCreate(p) ==
  /\ p.kind = "create"
  /\ p.equipment_id \in Equipment
  /\ p.write["severity"] \in REPAIR_SEVERITIES \cup {NULL}
  /\ p.write["assignee_id"] \in User \cup {NULL}
  /\ p.then \in (StatusInput \ {"New", "Closed - Duplicate"}) \cup {NULL}

GoodUpdate(p) ==
  /\ p.kind # "create"
  /\ IsWrite(p.write)
  /\ p.record \in DOMAIN repair
  /\ p.equipment_id = repair[p.record].equipment_id
  /\ p.then = NULL
  /\ LinkedAs(repair, p.record, Updated(repair[p.record], p.write))
  /\ \A f \in DOMAIN p.write : p.old[f] = repair[p.record][f]
  /\ p.kind \in {"set", "claim", "resolve"} => IsOpen(repair[p.record])

\* An accepted request makes a good plan.
LEMMA UpdatePlanIsGood ==
  ASSUME IInv, NEW r \in DOMAIN repair, NEW kind, kind # "create",
         kind \in {"set", "claim", "resolve"} => IsOpen(repair[r]),
         NEW changes, IsChanges(repair[r], changes), Accepted(repair, r, changes)
  PROVE  GoodUpdate(UpdatePlan(kind, r, changes))
<1>1. SettledTable(repair) /\ repair[r] \in RowType
  BY DEF IInv, LinksStaySettled, TypeOK
<1>2. IsWrite(Written(repair[r], changes))
  BY WrittenIsWrite DEF IsChanges
<1>3. LinkedAs(repair, r, Updated(repair[r], Written(repair[r], changes)))
  BY <1>1, AcceptedLinks
<1> QED
  BY <1>2, <1>3 DEF GoodUpdate, UpdatePlan

\* A thread that takes a snapshot and makes a good plan keeps the invariant.
LEMMA PlanningStep ==
  ASSUME IInv, NEW t \in Thread, NEW p, GoodCreate(p) \/ GoodUpdate(p),
         pc[t] # "queue",
         pc' = [pc EXCEPT ![t] = "commit"], plan' = [plan EXCEPT ![t] = p],
         UNCHANGED <<repair, outbox, todo, stale, unlockDue, cutOff>>
  PROVE  IInv'
<1>1. TypeOK'
  BY DEF IInv, TypeOK
<1>2. /\ DOMAIN plan' = Thread /\ plan'[t] = p /\ pc'[t] = "commit"
      /\ todo[t] = {}
      /\ \A u \in Thread \ {t} : plan'[u] = plan[u] /\ pc'[u] = pc[u]
  BY DEF IInv, PlansTyped, PlanTyped, TypeOK
<1>3. PlansTyped'
  BY <1>2 DEF IInv, PlansTyped, PlanTyped, GoodCreate, GoodUpdate
<1>4. DecisionsSound'
  <2>1. DecisionSound(t)'
    BY <1>2 DEF DecisionSound, GoodCreate, GoodUpdate, LinkedAs, IsOpen
  <2>2. ASSUME NEW u \in Thread \ {t} PROVE DecisionSound(u)'
    BY <1>2, <2>2, DecisionKept DEF IInv, PlansTyped, DecisionsSound, Kept
  <2> QED
    BY <2>1, <2>2 DEF DecisionsSound
<1>5. UnlockNeverForgotten'
  BY <1>2 DEF IInv, UnlockNeverForgotten
<1> QED
  BY <1>1, <1>3, <1>4, <1>5
     DEF IInv, LinksStaySettled, SettledTable, SoundLink, DueHaveNoOpenRepair,
         OpenRepairs, IsOpen

\* The forms ask for changes of the right types, and for a link only with a duplicate.
LEMMA FormsAreChanges ==
  ASSUME NEW row \in RowType
  PROVE  /\ \A form \in EditForms : IsChanges(row, form)
         /\ \A form \in SetForms : IsChanges(row, form)
         /\ \A u \in User : IsChanges(row, ClaimChanges(row, u))
         /\ IsChanges(row, ResolveChanges)
         /\ \A s \in StatusInput : IsChanges(row, [status |-> s])
<1> USE LifecycleAssumption DEF IsChanges, IsWrite, UpdatableFields, Effective
<1>1. \A form \in EditForms : IsChanges(row, form)
  BY DEF EditForms
<1>2. \A form \in SetForms : IsChanges(row, form)
  BY DEF SetForms
<1>3. \A u \in User : IsChanges(row, ClaimChanges(row, u))
  BY DEF ClaimChanges, REPAIR_STATUSES
<1>4. IsChanges(row, ResolveChanges)
  BY DEF ResolveChanges, REPAIR_STATUSES
<1>5. \A s \in StatusInput : IsChanges(row, [status |-> s])
  OBVIOUS
<1> QED
  BY <1>1, <1>2, <1>3, <1>4, <1>5

\* A creation plans a row of the right types, and no write to an existing one.
LEMMA BeginCreateStep ==
  ASSUME IInv, NEW t \in Thread, BeginCreate(t) PROVE IInv'
<1>1. PICK e \in Equipment \ Archived, severity \in SeverityInput,
           assignee \in AssigneeInput,
           then \in (StatusInput \ {"New", "Closed - Duplicate"}) \cup {NULL} :
        Begin(t, [kind |-> "create", record |-> NULL, equipment_id |-> e,
                  write |-> [severity |-> severity, assignee_id |-> assignee],
                  old |-> NoWrite, then |-> then])
  BY DEF BeginCreate
<1> DEFINE p == [kind |-> "create", record |-> NULL, equipment_id |-> e,
                 write |-> [severity |-> severity, assignee_id |-> assignee],
                 old |-> NoWrite, then |-> then]
<1>2. GoodCreate(p)
  BY LifecycleAssumption DEF GoodCreate
<1>3. Begin(t, p)
  BY <1>1
<1> HIDE DEF p
<1>4. /\ pc[t] # "queue"
      /\ pc' = [pc EXCEPT ![t] = "commit"] /\ plan' = [plan EXCEPT ![t] = p]
      /\ UNCHANGED <<repair, outbox, todo, stale, unlockDue, cutOff>>
  BY <1>3 DEF Begin
<1> QED
  BY <1>2, <1>4, PlanningStep

\* Edit, Set, Claim and Resolve.
LEMMA BeginUpdateStep ==
  ASSUME IInv, NEW t \in Thread, NEW kind, NEW r \in DOMAIN repair, NEW changes,
         kind # "create", kind \in {"set", "claim", "resolve"} => IsOpen(repair[r]),
         IsChanges(repair[r], changes), BeginUpdate(t, kind, r, changes)
  PROVE  IInv'
<1>1. GoodUpdate(UpdatePlan(kind, r, changes))
  BY UpdatePlanIsGood DEF BeginUpdate
<1> QED
  BY <1>1, PlanningStep DEF BeginUpdate, Begin

\* The four kinds of update ask for changes of the right types.
LEMMA BeginUpdateSteps ==
  ASSUME IInv, NEW t \in Thread,
         BeginEdit(t) \/ BeginSet(t) \/ BeginClaim(t) \/ BeginResolve(t)
  PROVE  IInv'
<1>1. \A r \in DOMAIN repair : repair[r] \in RowType
  BY DEF IInv, TypeOK
<1>2. CASE BeginEdit(t)
  BY <1>1, <1>2, FormsAreChanges, BeginUpdateStep DEF BeginEdit
<1>3. CASE BeginSet(t)
  BY <1>1, <1>3, FormsAreChanges, BeginUpdateStep DEF BeginSet
<1>4. CASE BeginClaim(t)
  <2>1. AssigneeInput \ {NULL} \subseteq User
    BY LifecycleAssumption
  <2> QED
    BY <1>1, <1>4, <2>1, FormsAreChanges, BeginUpdateStep DEF BeginClaim
<1>5. CASE BeginResolve(t)
  BY <1>1, <1>5, FormsAreChanges, BeginUpdateStep DEF BeginResolve
<1> QED
  BY <1>2, <1>3, <1>4, <1>5

-----------------------------------------------------------------------------
(* Going on with what is left to do.                                       *)

\* What GoOn makes of the thread; the others stay as they are.
LEMMA GoingOn ==
  ASSUME IInv, NEW t \in Thread, NEW p, NEW items, items \subseteq FollowUpItems,
         GoOn(t, p, items)
  PROVE  /\ DOMAIN plan' = Thread
         /\ pc' \in [Thread -> {"idle", "commit", "queue", "then"}]
         /\ todo' \in [Thread -> SUBSET FollowUpItems]
         /\ todo'[t] = items
         /\ \/ items # {} /\ pc'[t] = "queue" /\ plan'[t] = p
            \/ items = {} /\ p.then # NULL /\ pc'[t] = "then" /\ plan'[t] = p
            \/ items = {} /\ pc'[t] = "idle" /\ plan'[t] = NoPlan
         /\ \A u \in Thread \ {t} :
              plan'[u] = plan[u] /\ pc'[u] = pc[u] /\ todo'[u] = todo[u]
<1>1. DOMAIN plan = Thread /\ pc \in [Thread -> {"idle", "commit", "queue", "then"}]
  BY DEF IInv, PlansTyped, TypeOK
<1>2. todo' = [todo EXCEPT ![t] = items]
  BY DEF GoOn
<1>3. /\ todo' \in [Thread -> SUBSET FollowUpItems] /\ todo'[t] = items
      /\ \A u \in Thread \ {t} : todo'[u] = todo[u]
  BY <1>2 DEF IInv, TypeOK
<1>4. CASE items # {}
  BY <1>1, <1>3, <1>4 DEF GoOn
<1>5. CASE items = {} /\ p.then # NULL
  BY <1>1, <1>3, <1>5 DEF GoOn
<1>6. CASE items = {} /\ p.then = NULL
  BY <1>1, <1>3, <1>6 DEF GoOn
<1> QED
  BY <1>4, <1>5, <1>6

\* A thread that goes on with its own record keeps the plans typed.
LEMMA GoingOnTyped ==
  ASSUME IInv, NEW t \in Thread, NEW p, NEW items, items \subseteq FollowUpItems,
         GoOn(t, p, items), Kept(repair, repair'),
         p.record \in DOMAIN repair', p.equipment_id = repair'[p.record].equipment_id,
         p.then \in (StatusInput \ {"New", "Closed - Duplicate"}) \cup {NULL}
  PROVE  PlansTyped'
<1>1. ASSUME NEW u \in Thread \ {t} PROVE PlanTyped(u)'
  <2>1. plan'[u] = plan[u] /\ pc'[u] = pc[u] /\ todo'[u] = todo[u] /\ PlanTyped(u)
    BY GoingOn DEF IInv, PlansTyped
  <2> QED
    BY <2>1 DEF PlanTyped, Kept
<1>2. PlanTyped(t)'
  <2>1. CASE plan'[t] = p /\ pc'[t] \in {"queue", "then"}
    <3>1. /\ pc'[t] = "then" => p.then # NULL
          /\ pc'[t] # "queue" => todo'[t] = {}
      BY <2>1, GoingOn
    <3> QED
      BY <2>1, <3>1 DEF PlanTyped
  <2>2. CASE plan'[t] = NoPlan /\ pc'[t] = "idle"
    <3>1. todo'[t] = {}
      BY <2>2, GoingOn
    <3>2. NoPlan.then = NULL
      BY DEF NoPlan
    <3> QED
      BY <2>2, <3>1, <3>2 DEF PlanTyped
  <2> QED
    BY <2>1, <2>2, GoingOn
<1> QED
  BY <1>1, <1>2, GoingOn DEF PlansTyped

\* A thread that leaves the table alone and is not about to commit disturbs no decision
\* and no link.
LEMMA TableKept ==
  ASSUME IInv, NEW t \in Thread, repair' = repair, stale \ {t} \subseteq stale',
         pc'[t] # "commit",
         \A u \in Thread \ {t} : plan'[u] = plan[u] /\ pc'[u] = pc[u],
         unlockDue' \subseteq unlockDue
  PROVE  DecisionsSound' /\ LinksStaySettled' /\ DueHaveNoOpenRepair'
<1>1. ASSUME NEW u \in Thread \ {t} PROVE DecisionSound(u)'
  BY DecisionKept DEF IInv, PlansTyped, DecisionsSound, Kept
<1>2. DecisionSound(t)'
  BY DEF DecisionSound
<1> QED
  BY <1>1, <1>2 DEF IInv, DecisionsSound, LinksStaySettled, SettledTable, SoundLink,
                    DueHaveNoOpenRepair, OpenRepairs, IsOpen

-----------------------------------------------------------------------------
(* Committing.                                                             *)

\* The work after a commit is made of items, and contains the check when the write
\* unlocks.
LEMMA FollowUpsAreItems ==
  ASSUME NEW w
  PROVE  /\ FollowUps(w, NotifyOn) \subseteq FollowUpItems
         /\ CreateFollowUps(NotifyOn) \subseteq FollowUpItems
         /\ Unlocks(w) => "mac_check" \in FollowUps(w, NotifyOn)
<1>1. CreateFollowUps(NotifyOn) \subseteq FollowUpItems
  BY LifecycleAssumption DEF CreateFollowUps, FollowUpItems, SlackEvents
<1>2. FollowUps(w, NotifyOn) \subseteq FollowUpItems
  BY DEF FollowUps, FollowUpItems
<1>3. Unlocks(w) => "mac_check" \in FollowUps(w, NotifyOn)
  BY DEF FollowUps
<1> QED
  BY <1>1, <1>2, <1>3

\* A commit on equipment e by thread t, which then has the items to queue, keeps every
\* due machine without an open repair and with somebody to unlock it.
LEMMA CommitKeepsDue ==
  ASSUME IInv, NEW t \in Thread, pc[t] = "commit", NEW e, NEW w, NEW p, NEW items,
         GoOn(t, p, items), items \subseteq FollowUpItems, p.equipment_id = e,
         Unlocks(w) => "mac_check" \in items,
         DOMAIN repair \subseteq DOMAIN repair',
         \A r \in DOMAIN repair' :
           \/ repair'[r].equipment_id = e
           \/ r \in DOMAIN repair /\ repair'[r] = repair[r],
         unlockDue' = UnlockDueAfter(repair', e, w), cutOff' = cutOff
  PROVE  DueHaveNoOpenRepair' /\ UnlockNeverForgotten' /\ unlockDue' \subseteq Linked
<1>1. unlockDue \subseteq Linked /\ todo[t] = {}
  BY DEF IInv, TypeOK, PlansTyped, PlanTyped
<1>2. unlockDue' \subseteq Linked
  BY <1>1 DEF UnlockDueAfter
<1>3. ASSUME NEW d \in unlockDue' PROVE OpenRepairs(repair', d, {}) = {}
  <2>1. CASE d = e
    BY <1>3, <2>1 DEF UnlockDueAfter
  <2>2. CASE d # e
    <3>1. d \in unlockDue
      BY <1>3, <2>2 DEF UnlockDueAfter
    <3>2. OpenRepairs(repair', d, {}) \subseteq OpenRepairs(repair, d, {})
      BY <2>2 DEF OpenRepairs
    <3> QED
      BY <3>1, <3>2 DEF IInv, DueHaveNoOpenRepair
  <2> QED
    BY <2>1, <2>2
<1>4. ASSUME NEW d \in unlockDue', d \notin cutOff
      PROVE  \E u \in Thread : /\ plan'[u].equipment_id = d
                               /\ todo'[u] \cap {"mac_check", "mac_clear"} # {}
  <2>1. CASE d \in unlockDue
    <3>1. PICK u \in Thread : /\ plan[u].equipment_id = d
                              /\ todo[u] \cap {"mac_check", "mac_clear"} # {}
      BY <1>4, <2>1 DEF IInv, UnlockNeverForgotten
    <3>2. plan'[u] = plan[u] /\ todo'[u] = todo[u]
      BY <1>1, <3>1, GoingOn
    <3> QED
      BY <3>1, <3>2
  <2>2. CASE d \notin unlockDue
    <3>1. d = e /\ Unlocks(w)
      BY <1>4, <2>2 DEF UnlockDueAfter
    <3>2. plan'[t] = p /\ "mac_check" \in todo'[t]
      BY <3>1, GoingOn
    <3> QED
      BY <3>1, <3>2
  <2> QED
    BY <2>1, <2>2
<1> QED
  BY <1>2, <1>3, <1>4 DEF DueHaveNoOpenRepair, UnlockNeverForgotten

\* A new row has no link, and is an open repair of its equipment.
LEMMA CommitCreateStep ==
  ASSUME IInv, NEW t \in Thread, CommitCreate(t) PROVE IInv'
<1> DEFINE p == plan[t]
<1>1. PICK r \in Repair \ DOMAIN repair :
        /\ repair' = With(repair, r, NewRow(p.equipment_id, p.write["severity"],
                                            p.write["assignee_id"]))
        /\ GoOn(t, CreatedPlan(p, r), CreateFollowUps(NotifyOn))
  BY DEF CommitCreate
<1> DEFINE row == NewRow(p.equipment_id, p.write["severity"], p.write["assignee_id"])
           q == CreatedPlan(p, r)
<1>2. /\ pc[t] = "commit" /\ p.equipment_id \in Equipment
      /\ unlockDue' = UnlockDueAfter(repair', p.equipment_id, NoWrite)
      /\ UNCHANGED <<outbox, stale, cutOff>>
      /\ p.then \in (StatusInput \ {"New", "Closed - Duplicate"}) \cup {NULL}
  BY DEF CommitCreate, IInv, PlansTyped, PlanTyped
<1>3. /\ row \in RowType /\ row.equipment_id = p.equipment_id
      /\ row.duplicated_repair_id = NULL
  BY <1>2 DEF NewRow, RowType, REPAIR_STATUSES, CommitCreate, IInv, PlansTyped,
     PlanTyped
<1>4. /\ q.record = r /\ q.equipment_id = p.equipment_id /\ q.then = p.then
  BY DEF CreatedPlan
<1> HIDE DEF row, q
<1>5. /\ DOMAIN repair' = DOMAIN repair \cup {r}
      /\ repair'[r] = row
      /\ \A s \in DOMAIN repair : repair'[s] = repair[s]
  BY <1>1 DEF With, row
<1>6. Kept(repair, repair') /\ r \in DOMAIN repair'
  BY <1>5 DEF Kept
<1>7. GoOn(t, q, CreateFollowUps(NotifyOn)) /\ CreateFollowUps(NotifyOn) \subseteq FollowUpItems
  BY <1>1, FollowUpsAreItems DEF q
<1>8. PlansTyped'
  BY <1>2, <1>3, <1>4, <1>5, <1>6, <1>7, GoingOnTyped
<1>9. DecisionsSound'
  <2>1. ASSUME NEW u \in Thread \ {t} PROVE DecisionSound(u)'
    <3>1. plan'[u] = plan[u] /\ pc'[u] = pc[u]
      BY <1>7, GoingOn
    <3>2. DecisionSound(u) /\ PlanTyped(u)
      BY DEF IInv, PlansTyped, DecisionsSound
    <3> QED
      BY <1>2, <1>5, <1>6, <3>1, <3>2, DecisionKept DEF PlanTyped
  <2>2. DecisionSound(t)'
    BY <1>7, GoingOn DEF DecisionSound
  <2> QED
    BY <2>1, <2>2 DEF DecisionsSound
<1>10. LinksStaySettled'
  <2>1. ASSUME NEW s \in DOMAIN repair PROVE LinkedAs(repair', s, repair'[s])
    <3>1. LinkedAs(repair, s, repair[s])
      BY SettledRows DEF IInv, LinksStaySettled
    <3> QED
      BY <1>5, <1>6, <3>1, LinkedKept
  <2>2. LinkedAs(repair', r, repair'[r])
    BY <1>3, <1>5 DEF LinkedAs
  <2>3. SettledTable(repair')
    BY <1>5, <2>1, <2>2, SettledRows
  <2> QED
    BY <2>3 DEF LinksStaySettled, SettledTable, SoundLink
<1>11. DueHaveNoOpenRepair' /\ UnlockNeverForgotten' /\ unlockDue' \subseteq Linked
  <2>1. ~Unlocks(NoWrite)
    BY DEF Unlocks, NoWrite
  <2>2. \A s \in DOMAIN repair' : \/ repair'[s].equipment_id = p.equipment_id
                                  \/ s \in DOMAIN repair /\ repair'[s] = repair[s]
    BY <1>3, <1>5
  <2> HIDE DEF p
  <2> QED
    BY <1>2, <1>4, <1>5, <1>7, <2>1, <2>2, CommitKeepsDue DEF p
<1>12. TypeOK'
  BY <1>2, <1>3, <1>5, <1>7, <1>11, GoingOn DEF IInv, TypeOK
<1> QED
  BY <1>8, <1>9, <1>10, <1>11, <1>12 DEF IInv

\* An update that is not refused leaves the row it decided on.
LEMMA CommitUpdateStep ==
  ASSUME IInv, NEW t \in Thread, CommitUpdate(t) PROVE IInv'
<1> DEFINE p == plan[t]
           r == p.record
           e == p.equipment_id
           items == FollowUps(p.write, NotifyOn)
<1>1. /\ pc[t] = "commit" /\ p.kind # "create" /\ t \notin stale
      /\ repair' = [repair EXCEPT ![r] = Updated(@, p.write)]
      /\ GoOn(t, p, items)
      /\ stale' = stale \cup {u \in Thread \ {t} : /\ pc[u] = "commit"
                                                   /\ plan[u].record = r}
      /\ unlockDue' = UnlockDueAfter(repair', e, p.write)
      /\ UNCHANGED <<outbox, cutOff>>
  BY DEF CommitUpdate, WriteRow
<1>2. /\ r \in DOMAIN repair /\ repair[r] \in RowType /\ IsWrite(p.write)
      /\ e = repair[r].equipment_id
      /\ p.then \in (StatusInput \ {"New", "Closed - Duplicate"}) \cup {NULL}
  BY <1>1 DEF IInv, TypeOK, PlansTyped, PlanTyped
<1>3. LinkedAs(repair, r, Updated(repair[r], p.write))
  BY <1>1 DEF IInv, DecisionsSound, DecisionSound
<1>4. /\ DOMAIN repair' = DOMAIN repair
      /\ repair'[r] = Updated(repair[r], p.write)
      /\ \A s \in DOMAIN repair \ {r} : repair'[s] = repair[s]
  BY <1>1, <1>2
<1>5. repair'[r] \in RowType /\ repair'[r].equipment_id = e
  <2>1. /\ Updated(repair[r], p.write) \in RowType
        /\ Updated(repair[r], p.write).equipment_id = repair[r].equipment_id
    BY <1>2, UpdatedType
  <2> QED
    BY <1>2, <1>4, <2>1
<1>6. Kept(repair, repair')
  BY <1>2, <1>4, <1>5 DEF Kept
<1>7. items \subseteq FollowUpItems /\ (Unlocks(p.write) => "mac_check" \in items)
  BY FollowUpsAreItems
<1> HIDE DEF items
<1>8. PlansTyped'
  BY <1>1, <1>2, <1>4, <1>5, <1>6, <1>7, GoingOnTyped
<1>9. DecisionsSound'
  <2>1. ASSUME NEW u \in Thread \ {t} PROVE DecisionSound(u)'
    <3>1. plan'[u] = plan[u] /\ pc'[u] = pc[u]
      BY <1>1, <1>7, GoingOn
    <3>2. DecisionSound(u) /\ PlanTyped(u)
      BY DEF IInv, PlansTyped, DecisionsSound
    <3>3. pc[u] = "commit" /\ plan[u].kind # "create" /\ u \notin stale'
            => u \notin stale /\ repair'[plan[u].record] = repair[plan[u].record]
      BY <1>1, <1>4, <3>2 DEF PlanTyped
    <3> QED
      BY <1>6, <3>1, <3>2, <3>3, DecisionKept
  <2>2. DecisionSound(t)'
    BY <1>1, <1>7, GoingOn DEF DecisionSound
  <2> QED
    BY <2>1, <2>2 DEF DecisionsSound
<1>10. LinksStaySettled'
  <2>1. ASSUME NEW s \in DOMAIN repair PROVE LinkedAs(repair', s, repair'[s])
    <3>1. LinkedAs(repair, s, repair[s])
      BY SettledRows DEF IInv, LinksStaySettled
    <3>2. LinkedAs(repair, s, repair'[s])
      BY <1>3, <1>4, <3>1
    <3> QED
      BY <1>6, <3>2, LinkedKept
  <2>2. SettledTable(repair')
    BY <1>4, <2>1, SettledRows
  <2> QED
    BY <2>2 DEF LinksStaySettled, SettledTable, SoundLink
<1>11. DueHaveNoOpenRepair' /\ UnlockNeverForgotten' /\ unlockDue' \subseteq Linked
  <2>1. \A s \in DOMAIN repair' : \/ repair'[s].equipment_id = e
                                  \/ s \in DOMAIN repair /\ repair'[s] = repair[s]
    BY <1>4, <1>5
  <2> QED
    BY <1>1, <1>4, <1>7, <2>1, CommitKeepsDue
<1>12. TypeOK'
  <2>1. DOMAIN repair' \subseteq Repair /\ \A s \in DOMAIN repair' : repair'[s] \in RowType
    BY <1>4, <1>5 DEF IInv, TypeOK
  <2> QED
    BY <1>1, <1>7, <1>11, <2>1, GoingOn DEF IInv, TypeOK
<1> QED
  BY <1>8, <1>9, <1>10, <1>11, <1>12 DEF IInv

-----------------------------------------------------------------------------
(* The steps that leave the table alone.                                   *)

\* Somebody still owes each due machine its unlocking, if the one who stops owing it
\* died or did it.
LEMMA DueKept ==
  ASSUME IInv, NEW t \in Thread,
         \A u \in Thread \ {t} : plan'[u] = plan[u] /\ todo'[u] = todo[u],
         unlockDue' \subseteq unlockDue, cutOff \subseteq cutOff',
         todo[t] \cap {"mac_check", "mac_clear"} # {} =>
           \/ plan[t].equipment_id \notin unlockDue'
           \/ plan[t].equipment_id \in cutOff'
           \/ /\ plan'[t].equipment_id = plan[t].equipment_id
              /\ todo'[t] \cap {"mac_check", "mac_clear"} # {}
  PROVE  UnlockNeverForgotten'
<1> SUFFICES ASSUME NEW d \in unlockDue', d \notin cutOff'
             PROVE  \E u \in Thread : /\ plan'[u].equipment_id = d
                                      /\ todo'[u] \cap {"mac_check", "mac_clear"} # {}
  BY DEF UnlockNeverForgotten
<1>1. PICK u \in Thread : /\ plan[u].equipment_id = d
                          /\ todo[u] \cap {"mac_check", "mac_clear"} # {}
  BY DEF IInv, UnlockNeverForgotten
<1>2. CASE u = t
  BY <1>1, <1>2
<1>3. CASE u # t
  BY <1>1, <1>3
<1> QED
  BY <1>2, <1>3

\* The database's refusal ends the request.
LEMMA ConflictStep ==
  ASSUME IInv, NEW t \in Thread, Conflict(t) PROVE IInv'
<1>1. /\ pc[t] = "commit" /\ todo[t] = {} /\ NoPlan.then = NULL
      /\ DOMAIN plan' = Thread /\ plan'[t] = NoPlan /\ pc'[t] = "idle"
      /\ \A u \in Thread \ {t} : plan'[u] = plan[u] /\ pc'[u] = pc[u]
      /\ UNCHANGED <<repair, outbox, todo, unlockDue, cutOff>>
      /\ stale' = stale \ {t}
  BY DEF Conflict, IInv, PlansTyped, PlanTyped, TypeOK, NoPlan
<1>2. PlansTyped'
  BY <1>1 DEF IInv, PlansTyped, PlanTyped
<1>3. DecisionsSound' /\ LinksStaySettled' /\ DueHaveNoOpenRepair'
  BY <1>1, TableKept
<1>4. UnlockNeverForgotten'
  BY <1>1, DueKept
<1>5. TypeOK'
  BY <1>1 DEF Conflict, IInv, TypeOK
<1> QED
  BY <1>2, <1>3, <1>4, <1>5 DEF IInv

\* The check, for a machine that is due, finds no other open repair and goes on to
\* queue the unlocking.
LEMMA CheckUnlockStep ==
  ASSUME IInv, NEW t \in Thread, CheckUnlock(t) PROVE IInv'
<1> DEFINE p == plan[t]
           clear == {i \in {"mac_clear"} :
                       /\ p.equipment_id \in Linked
                       /\ OpenRepairs(repair, p.equipment_id, {p.record}) = {}}
           items == (todo[t] \ {"mac_check"}) \cup clear
<1>1. /\ pc[t] = "queue" /\ "mac_check" \in todo[t]
      /\ GoOn(t, p, items)
      /\ UNCHANGED <<repair, outbox, stale, unlockDue, cutOff>>
  BY DEF CheckUnlock, IsNext
<1>2. items \subseteq FollowUpItems
  BY DEF IInv, TypeOK, FollowUpItems
<1>3. p.equipment_id \in unlockDue => "mac_clear" \in items
  <2> SUFFICES ASSUME p.equipment_id \in unlockDue PROVE "mac_clear" \in clear
    OBVIOUS
  <2>1. p.equipment_id \in Linked /\ OpenRepairs(repair, p.equipment_id, {}) = {}
    BY DEF IInv, TypeOK, DueHaveNoOpenRepair
  <2>2. OpenRepairs(repair, p.equipment_id, {p.record}) = {}
    BY <2>1 DEF OpenRepairs
  <2> QED
    BY <2>1, <2>2
<1> HIDE DEF items
<1>4. PlansTyped'
  BY <1>1, <1>2, GoingOnTyped DEF IInv, PlansTyped, PlanTyped, Kept
<1>5. DecisionsSound' /\ LinksStaySettled' /\ DueHaveNoOpenRepair'
  BY <1>1, <1>2, GoingOn, TableKept
<1>6. UnlockNeverForgotten'
  <2>1. p.equipment_id \in unlockDue => /\ plan'[t] = p /\ "mac_clear" \in todo'[t]
    BY <1>1, <1>2, <1>3, GoingOn
  <2> QED
    BY <1>1, <1>2, <2>1, GoingOn, DueKept
<1>7. TypeOK'
  BY <1>1, <1>2, GoingOn DEF IInv, TypeOK
<1> QED
  BY <1>4, <1>5, <1>6, <1>7 DEF IInv

\* Queueing the unlocking is what makes it no longer due.
LEMMA QueueItemStep ==
  ASSUME IInv, NEW t \in Thread, QueueItem(t) PROVE IInv'
<1> DEFINE p == plan[t]
<1>1. PICK item \in todo[t] \ {"mac_check"} :
        /\ IsNext(t, item)
        /\ outbox' = [outbox EXCEPT ![Said(item, p.equipment_id)] = @ + 1]
        /\ GoOn(t, p, todo[t] \ {item})
        /\ unlockDue' = IF item = "mac_clear" THEN unlockDue \ {p.equipment_id}
                        ELSE unlockDue
        /\ UNCHANGED <<repair, stale, cutOff>>
  BY DEF QueueItem
<1>2. /\ pc[t] = "queue" /\ todo[t] \ {item} \subseteq FollowUpItems
      /\ unlockDue' \subseteq unlockDue
  BY <1>1 DEF IsNext, IInv, TypeOK
<1>3. PlansTyped'
  BY <1>1, <1>2, GoingOnTyped DEF IInv, PlansTyped, PlanTyped, Kept
<1>4. DecisionsSound' /\ LinksStaySettled' /\ DueHaveNoOpenRepair'
  BY <1>1, <1>2, GoingOn, TableKept
<1>5. UnlockNeverForgotten'
  <2>1. CASE item = "mac_clear"
    BY <1>1, <1>2, <2>1, GoingOn, DueKept
  <2>2. CASE item # "mac_clear"
    <3>1. todo'[t] = todo[t] \ {item}
      BY <1>1, <1>2, GoingOn
    <3>2. todo[t] \cap {"mac_check", "mac_clear"} # {} =>
            todo'[t] \cap {"mac_check", "mac_clear"} # {} /\ plan'[t] = p
      BY <1>1, <1>2, <2>2, <3>1, GoingOn
    <3> QED
      BY <1>1, <1>2, <3>2, GoingOn, DueKept
  <2> QED
    BY <2>1, <2>2
<1>6. TypeOK'
  <2>1. outbox' \in [Notification -> Nat]
    <3>1. p.equipment_id \in Equipment /\ item \in FollowUpItems \ {"mac_check"}
      BY <1>2 DEF IInv, TypeOK, PlansTyped, PlanTyped, RowType
    <3>2. Said(item, p.equipment_id) \in Notification
      BY <3>1 DEF Said, Notification
    <3> QED
      BY <1>1, <3>2 DEF IInv, TypeOK
  <2> QED
    BY <1>1, <1>2, <2>1, GoingOn DEF IInv, TypeOK
<1> QED
  BY <1>3, <1>4, <1>5, <1>6 DEF IInv

\* A status alone, and not the duplicate one, is always accepted.
LEMMA StatusAccepted ==
  ASSUME NEW table, NEW r \in DOMAIN table, NEW s, s # "Closed - Duplicate"
  PROVE  Accepted(table, r, [status |-> s])
  BY DEF Accepted, BecomesDuplicate, DropsLink, SetsDuplicate, Effective

\* A thread that has nothing left to queue ends.
LEMMA EndingStep ==
  ASSUME IInv, NEW t \in Thread, pc[t] # "queue",
         pc' = [pc EXCEPT ![t] = "idle"], plan' = [plan EXCEPT ![t] = NoPlan],
         UNCHANGED <<repair, outbox, todo, stale, unlockDue, cutOff>>
  PROVE  IInv'
<1>1. /\ todo[t] = {} /\ NoPlan.then = NULL
      /\ DOMAIN plan' = Thread /\ plan'[t] = NoPlan /\ pc'[t] = "idle"
      /\ \A u \in Thread \ {t} : plan'[u] = plan[u] /\ pc'[u] = pc[u]
  BY DEF IInv, PlansTyped, PlanTyped, TypeOK, NoPlan
<1>2. PlansTyped'
  BY <1>1 DEF IInv, PlansTyped, PlanTyped
<1>3. DecisionsSound' /\ LinksStaySettled' /\ DueHaveNoOpenRepair'
  BY <1>1, TableKept
<1>4. UnlockNeverForgotten'
  BY <1>1, DueKept
<1>5. TypeOK'
  BY DEF IInv, TypeOK
<1> QED
  BY <1>2, <1>3, <1>4, <1>5 DEF IInv

\* The Slack handler's second transaction plans like any other request.
LEMMA ThenStep ==
  ASSUME IInv, NEW t \in Thread, ThenSetStatus(t) PROVE IInv'
<1> DEFINE r == plan[t].record
           s == plan[t].then
<1>1. /\ pc[t] = "then" /\ r \in DOMAIN repair /\ repair[r] \in RowType
      /\ s \in StatusInput /\ s # "Closed - Duplicate"
      /\ UNCHANGED <<repair, outbox, todo, stale, unlockDue, cutOff>>
  BY LifecycleAssumption DEF ThenSetStatus, IInv, TypeOK, PlansTyped, PlanTyped
<1>2. CASE /\ pc' = [pc EXCEPT ![t] = "commit"]
           /\ plan' = [plan EXCEPT ![t] = UpdatePlan("then", r, [status |-> s])]
  <2>1. IsChanges(repair[r], [status |-> s]) /\ Accepted(repair, r, [status |-> s])
    BY <1>1, FormsAreChanges, StatusAccepted
  <2>2. GoodUpdate(UpdatePlan("then", r, [status |-> s]))
    BY <1>1, <2>1, UpdatePlanIsGood
  <2> QED
    BY <1>1, <1>2, <2>2, PlanningStep
<1>3. CASE /\ pc' = [pc EXCEPT ![t] = "idle"] /\ plan' = [plan EXCEPT ![t] = NoPlan]
  BY <1>1, <1>3, EndingStep
<1> QED
  BY <1>2, <1>3 DEF ThenSetStatus

\* What a request that dies still owed is remembered as cut off.
LEMMA CrashStep ==
  ASSUME IInv, NEW t \in Thread, Crash(t) PROVE IInv'
<1>1. /\ DOMAIN plan' = Thread /\ plan'[t] = NoPlan /\ NoPlan.then = NULL
      /\ pc'[t] = "idle" /\ todo'[t] = {}
      /\ \A u \in Thread \ {t} :
           plan'[u] = plan[u] /\ pc'[u] = pc[u] /\ todo'[u] = todo[u]
      /\ UNCHANGED <<repair, outbox, unlockDue>>
      /\ stale' = stale \ {t}
  BY DEF Crash, IInv, PlansTyped, TypeOK, NoPlan
<1>2. PlansTyped'
  <2>1. PlanTyped(t)'
    BY <1>1 DEF PlanTyped
  <2>2. ASSUME NEW u \in Thread \ {t} PROVE PlanTyped(u)'
    <3>1. PlanTyped(u)
      BY DEF IInv, PlansTyped
    <3> QED
      BY <1>1, <3>1 DEF PlanTyped
  <2> QED
    BY <1>1, <2>1, <2>2 DEF PlansTyped
<1>3. DecisionsSound' /\ LinksStaySettled' /\ DueHaveNoOpenRepair'
  BY <1>1, TableKept
<1>4. UnlockNeverForgotten'
  <2>1. /\ cutOff \subseteq cutOff'
        /\ todo[t] \cap {"mac_check", "mac_clear"} # {}
             => plan[t].equipment_id \in cutOff'
    BY DEF Crash
  <2> QED
    BY <1>1, <2>1, DueKept
<1>5. TypeOK'
  <2>1. todo[t] # {} => plan[t].equipment_id \in Equipment
    BY DEF IInv, PlansTyped, PlanTyped, TypeOK, RowType
  <2> QED
    BY <1>1, <2>1 DEF Crash, IInv, TypeOK
<1> QED
  BY <1>2, <1>3, <1>4, <1>5 DEF IInv

-----------------------------------------------------------------------------
(* The theorems.                                                           *)

\* Nobody has planned anything, and the tables are settled.
LEMMA InitIInv == Init => IInv
<1> SUFFICES ASSUME Init PROVE IInv
  OBVIOUS
<1>1. TypeOK
  <2>1. InitialRows \subseteq RowType
    BY LifecycleAssumption DEF InitialRows, RowType
  <2>2. DOMAIN repair \subseteq Repair /\ \A r \in DOMAIN repair : repair[r] \in InitialRows
    BY DEF Init
  <2> QED
    BY <2>1, <2>2 DEF Init, TypeOK
<1>2. PlansTyped /\ DecisionsSound
  BY DEF Init, PlansTyped, PlanTyped, DecisionsSound, DecisionSound, NoPlan
<1> QED
  BY <1>1, <1>2 DEF Init, IInv, LinksStaySettled, DueHaveNoOpenRepair,
     UnlockNeverForgotten

\* One case for each action.
LEMMA StepIInv == ASSUME IInv, [Next]_vars PROVE IInv'
<1>1. ASSUME NEW t \in Thread,
             \/ BeginCreate(t) \/ BeginEdit(t) \/ BeginSet(t) \/ BeginClaim(t)
             \/ BeginResolve(t) \/ CommitCreate(t) \/ CommitUpdate(t) \/ Conflict(t)
             \/ CheckUnlock(t) \/ QueueItem(t) \/ ThenSetStatus(t) \/ Crash(t)
      PROVE  IInv'
  BY <1>1, BeginCreateStep, BeginUpdateSteps, CommitCreateStep, CommitUpdateStep,
     ConflictStep, CheckUnlockStep, QueueItemStep, ThenStep, CrashStep
<1>2. CASE UNCHANGED vars
  <2>1. UNCHANGED <<repair, outbox, pc, plan, todo, stale, unlockDue, cutOff>>
    BY <1>2 DEF vars
  <2>2. TypeOK' /\ PlansTyped'
    BY <2>1 DEF IInv, TypeOK, PlansTyped, PlanTyped
  <2>3. DecisionsSound'
    BY <2>1, DecisionKept DEF IInv, PlansTyped, DecisionsSound, Kept
  <2>4. LinksStaySettled'
    BY <2>1 DEF IInv, LinksStaySettled, SettledTable, SoundLink
  <2>5. DueHaveNoOpenRepair'
    BY <2>1 DEF IInv, DueHaveNoOpenRepair, OpenRepairs, IsOpen
  <2>6. UnlockNeverForgotten'
    BY <2>1 DEF IInv, UnlockNeverForgotten
  <2> QED
    BY <2>2, <2>3, <2>4, <2>5, <2>6 DEF IInv
<1> QED
  BY <1>1, <1>2 DEF Next

\* The inductive invariant holds in every reachable state.
THEOREM Inductive == Spec => []IInv
<1>1. IInv /\ [Next]_vars => IInv'
  BY StepIInv
<1> QED
  BY <1>1, InitIInv, PTL DEF Spec

\* Rows, notifications and the requests' own state keep their types.
THEOREM TypeCorrect == Spec => []TypeOK
<1>1. IInv => TypeOK
  BY DEF IInv
<1> QED
  BY <1>1, Inductive, PTL

\* However requests overlap, only duplicates are linked, to another existing record of
\* the same equipment.
THEOREM LinksSettled == Spec => []LinksStaySettled
<1>1. IInv => LinksStaySettled
  BY DEF IInv
<1> QED
  BY <1>1, Inductive, PTL

\* No interleaving of requests loses the unlocking of a machine whose last open repair
\* is resolved; only the death of the request does.
THEOREM UnlockOwed == Spec => []UnlockNeverForgotten
<1>1. IInv => UnlockNeverForgotten
  BY DEF IInv
<1> QED
  BY <1>1, Inductive, PTL

\* The old values in the audit log and the timeline are the values replaced.
THEOREM AuditTells == Spec => AuditTellsOldValues
<1>1. IInv /\ [Next]_vars =>
        [\A t \in Thread : CommitUpdate(t) =>
           \A f \in DOMAIN plan[t].write : plan[t].old[f] = repair[plan[t].record][f]]_vars
  BY DEF IInv, DecisionsSound, DecisionSound, CommitUpdate, WriteRow
<1> QED
  BY <1>1, Inductive, PTL DEF Spec, AuditTellsOldValues

\* A claim, a resolution or a Slack action never changes a record that another request
\* has closed in the meantime.
THEOREM NeverClaimedClosed == Spec => ClosedNeverClaimed
<1>1. IInv /\ [Next]_vars =>
        [\A t \in Thread :
           plan[t].kind \in {"set", "claim", "resolve"} /\ CommitUpdate(t)
             => IsOpen(repair[plan[t].record])]_vars
  BY DEF IInv, DecisionsSound, DecisionSound, CommitUpdate, WriteRow
<1> QED
  BY <1>1, Inductive, PTL DEF Spec, ClosedNeverClaimed
=============================================================================
