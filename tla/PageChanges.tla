------------------------------ MODULE PageChanges ------------------------------
(***************************************************************************)
(* The two published pages, and which kinds of changes there are: the pages *)
(* a change may make out of date, and those a push is then queued for.     *)
(* PublicStatus shows that the changes the program makes are of these      *)
(* kinds; StaticPages follows what becomes of them.                        *)
(***************************************************************************)
\* The status page, and the data of the reservation page.
Page == {"index", "json"}

Repairs      == [alters |-> {"index"}, tells |-> {"index"}]
Bookings     == [alters |-> {"json"}, tells |-> {"json"}]
\* A reservable machine is renamed, archived, or becomes reservable.
Reservables  == [alters |-> Page, tells |-> {"json"}]
\* Areas, and equipment that is not reservable.
OtherEdits   == [alters |-> {"index"}, tells |-> {}]
\* Time passes.
Window       == [alters |-> {"json"}, tells |-> {}]

ChangeKinds == {Repairs, Bookings, Reservables, OtherEdits, Window}
=============================================================================
