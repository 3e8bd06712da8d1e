------------------------------ MODULE Accounts ------------------------------
(***************************************************************************)
(* Accounts, their passwords, and the one display of a temporary password  *)
(* (user_service.py, auth_service.py, views/admin.py, views/auth.py).      *)
(*                                                                         *)
(* A temporary password that Slack does not deliver goes to the browser in *)
(* the session cookie; the response redirects to a page that pops it.  The *)
(* cookie holds the whole session, and every response sends it (marking it *)
(* permanent before each request marks it changed), as it was when the     *)
(* request came, with the request's own changes: of two overlapping        *)
(* requests of a browser, the last response decides what the cookie holds. *)
(***************************************************************************)
EXTENDS Requests

CONSTANTS
  User,
  Browser,       \* browsers in which a user is logged in
  Owner,         \* that user, per browser
  InitialRoles,  \* the accounts at first and their roles
  RoleInput, HandleInput   \* what the forms offer

Role == {"technician", "staff"}

ASSUME AccountsAssumption ==
  /\ NULL \notin User \cup Browser
  /\ Owner \in [Browser -> DOMAIN InitialRoles]
  /\ DOMAIN InitialRoles \subseteq User
  /\ InitialRoles \in [DOMAIN InitialRoles -> Role]
  /\ RoleInput \subseteq Role /\ HandleInput \subseteq BOOLEAN

VARIABLES
  account,     \* the table users: row or NULL
  passwords,   \* number of passwords chosen or generated: they are 1, 2, ...
  cookie,      \* per browser: the temporary password it holds, or NULL
  following,   \* per browser: users whose page a redirect is about to open
  handed,      \* history: temporary passwords sent in a cookie
  shown,       \* history: temporary passwords displayed, and on whose page
  lost,        \* history: temporary passwords that a page had taken when it failed
  tangled      \* history: browsers that did two things at once

accountVars ==
  <<account, passwords, cookie, following, handed, shown, lost, tangled>>

Password == Nat
\* Whether there is a Slack handle decides on the delivery; the handle itself does not.
AccountRow == [role : Role, password : Password, slack_handle : BOOLEAN]

Temporary == [user : User, password : Password]

ASSUME RowsAssumption == NULL \notin AccountRow /\ NULL \notin Temporary

AccountRequest ==
  [op : {"create_user", "reset_password"}, user : User, to : AccountRow,
   browser : Browser, jar : Temporary \cup {NULL}]
    \cup [op : {"change_account"}, user : User, to : AccountRow,
          browser : Browser, jar : Temporary \cup {NULL}]
    \cup [op : {"deliver"}, temporary : Temporary,
          browser : Browser, jar : Temporary \cup {NULL}]
    \cup [op : {"respond"}, page : User \cup {NULL}, displays : Temporary \cup {NULL},
          redirect : User \cup {NULL}, browser : Browser, jar : Temporary \cup {NULL}]
    \cup [op : {"change_password"}, user : User, presented : Password, to : AccountRow]

AccountOps ==
  {"create_user", "reset_password", "change_account", "deliver", "respond",
   "change_password"}

-----------------------------------------------------------------------------
(* Requests.  A browser that has another request in progress, or a redirect *)
(* to follow, is tangled from then on.                                      *)

Busy(b) ==
  \/ following[b] # {}
  \/ \E t \in Thread :
       request[t].op \in AccountOps \ {"change_password"} /\ request[t].browser = b

BeginInBrowser(t, b, r) ==
  /\ Begin(t, "accounts", r)
  /\ tangled' = IF Busy(b) THEN tangled \cup {b} ELSE tangled
  /\ UNCHANGED <<account, cookie, following, handed, shown, lost>>

\* role_required("staff")
IsStaff(b) == account[Owner[b]].role = "staff"

\* create_user: the name and the address must be free.
CreateUser(t) ==
  \E b \in Browser, u \in User, role \in RoleInput, handle \in HandleInput :
    /\ IsStaff(b)
    /\ account[u] = NULL
    /\ passwords' = passwords + 1
    /\ BeginInBrowser(t, b,
         [op |-> "create_user", user |-> u, browser |-> b, jar |-> cookie[b],
          to |-> [role |-> role, password |-> passwords', slack_handle |-> handle]])

\* reset_password, of anyone but oneself
ResetPassword(t) ==
  \E b \in Browser, u \in User :
    /\ IsStaff(b)
    /\ account[u] # NULL /\ u # Owner[b]
    /\ passwords' = passwords + 1
    /\ BeginInBrowser(t, b,
         [op |-> "reset_password", user |-> u, browser |-> b, jar |-> cookie[b],
          to |-> [account[u] EXCEPT !.password = passwords']])

BeginChange(t, b, u, row) ==
  /\ IsStaff(b)
  /\ account[u] # row
  /\ BeginInBrowser(t, b,
       [op |-> "change_account", user |-> u, browser |-> b, jar |-> cookie[b],
        to |-> row])
  /\ UNCHANGED passwords

ChangeRole(t) ==
  \E b \in Browser, u \in User, role \in RoleInput :
    account[u] # NULL /\ BeginChange(t, b, u, [account[u] EXCEPT !.role = role])

EditSlackHandle(t) ==
  \E b \in Browser, u \in User, handle \in HandleInput :
    account[u] # NULL
      /\ BeginChange(t, b, u, [account[u] EXCEPT !.slack_handle = handle])

\* Mutant: the session is read and the password left in it.
OpenUserPageKeeping(t) ==
  \E b \in Browser :
    \E u \in following[b] :
      /\ IsStaff(b)
      /\ Begin(t, "accounts",
           [op |-> "respond", page |-> u, displays |-> cookie[b], redirect |-> NULL,
            browser |-> b, jar |-> cookie[b]])
      /\ following' = [following EXCEPT ![b] = @ \ {u}]
      /\ tangled' = IF \E s \in Thread :
                         request[s].op \in AccountOps \ {"change_password"}
                           /\ request[s].browser = b
                      THEN tangled \cup {b} ELSE tangled
      /\ UNCHANGED <<account, passwords, cookie, handed, shown, lost>>

\* user_created: the page a redirect leads to pops the password and displays it.
OpenUserPage(t) ==
  \E b \in Browser :
    \E u \in following[b] :
      /\ IsStaff(b)
      /\ Begin(t, "accounts",
           [op |-> "respond", page |-> u, displays |-> cookie[b], redirect |-> NULL,
            browser |-> b, jar |-> NULL])
      /\ following' = [following EXCEPT ![b] = @ \ {u}]
      /\ tangled' = IF \E s \in Thread :
                         request[s].op \in AccountOps \ {"change_password"}
                           /\ request[s].browser = b
                      THEN tangled \cup {b} ELSE tangled
      /\ UNCHANGED <<account, passwords, cookie, handed, shown, lost>>

\* Any other page: enforce_permanent_session has its response send the session too.
OpenAnotherPage(t) ==
  \E b \in Browser :
    /\ BeginInBrowser(t, b,
         [op |-> "respond", page |-> NULL, displays |-> NULL, redirect |-> NULL,
          browser |-> b, jar |-> cookie[b]])
    /\ UNCHANGED passwords

\* change_password, by someone who knows the password.
ChangePassword(t) ==
  \E u \in User :
    /\ account[u] # NULL
    /\ passwords' = passwords + 1
    /\ Begin(t, "accounts",
         [op |-> "change_password", user |-> u, presented |-> account[u].password,
          to |-> [account[u] EXCEPT !.password = passwords']])
    /\ UNCHANGED <<account, cookie, following, handed, shown, lost, tangled>>

-----------------------------------------------------------------------------
(* Commits, delivery and the response.                                     *)

Response(r, jar, redirect) ==
  [op |-> "respond", page |-> NULL, displays |-> NULL, redirect |-> redirect,
   browser |-> r.browser, jar |-> jar]

CommitPassword(t) ==
  LET r == request[t] IN
  /\ \/ r.op = "create_user" /\ account[r.user] = NULL
     \/ r.op = "reset_password" /\ Unchanged(t, r.user)
  /\ account' = [account EXCEPT ![r.user] = r.to]
  /\ Commit(t, [op |-> "deliver", browser |-> r.browser, jar |-> r.jar,
                temporary |-> [user |-> r.user, password |-> r.to.password]],
            {r.user} \X DOMAIN r.to)
  /\ UNCHANGED <<passwords, cookie, following, handed, shown, lost, tangled>>

\* change_role and update_slack_handle
CommitChange(t) ==
  LET r == request[t] IN
  /\ r.op = "change_account"
  /\ Unchanged(t, r.user)
  /\ account' = [account EXCEPT ![r.user] = r.to]
  /\ Commit(t, Response(r, r.jar, NULL), Differing(r.user, account[r.user], r.to))
  /\ UNCHANGED <<passwords, cookie, following, handed, shown, lost, tangled>>

WriteOwnPassword(t) ==
  LET r == request[t] IN
  /\ r.op = "change_password"
  /\ account' = [account EXCEPT ![r.user] = r.to]
  /\ Commit(t, NoRequest, {<<r.user, "password">>})
  /\ UNCHANGED <<passwords, cookie, following, handed, shown, lost, tangled>>

\* Mutant: the database does not compare, as READ COMMITTED would not.
CommitOwnPasswordUnchecked(t) == WriteOwnPassword(t)

CommitOwnPassword(t) ==
  /\ request[t].op = "change_password"
  /\ Unchanged(t, request[t].user)
  /\ WriteOwnPassword(t)

\* _deliver_temp_password_via_slack: delivered, to whoever has a handle by now, or
\* left to the cookie.
Deliver(t) ==
  LET r == request[t] IN
  /\ r.op = "deliver"
  /\ \/ /\ account[r.temporary.user].slack_handle
        /\ Continue(t, Response(r, r.jar, NULL))
     \/ Continue(t, Response(r, r.temporary, r.temporary.user))
  /\ UNCHANGED accountVars

\* The browser takes the cookie of the response, shows the page, follows the redirect.
Respond(t) ==
  LET r == request[t] IN
  /\ r.op = "respond"
  /\ cookie' = [cookie EXCEPT ![r.browser] = r.jar]
  /\ following' = IF r.redirect = NULL THEN following
                  ELSE [following EXCEPT ![r.browser] = @ \cup {r.redirect}]
  /\ handed' = IF r.redirect = NULL THEN handed
               ELSE handed \cup {[browser |-> r.browser, temporary |-> r.jar]}
  /\ shown' = IF r.displays = NULL THEN shown
              ELSE shown \cup {[page |-> r.page, temporary |-> r.displays]}
  /\ Continue(t, NoRequest)
  /\ UNCHANGED <<account, passwords, lost, tangled>>

\* The request ends in an error, before its commit or after it: the page of the 500
\* handler sends the session as the request has left it by then.  user_created has popped
\* the password it does not come to display.
RespondError(t) ==
  LET r == request[t] IN
  /\ r.op \in AccountOps \ {"change_password"}
  /\ r.op = "respond" => r.redirect = NULL
  /\ cookie' = [cookie EXCEPT ![r.browser] = r.jar]
  /\ lost' = IF r.op = "respond" /\ r.displays # NULL THEN lost \cup {r.displays}
             ELSE lost
  /\ Continue(t, NoRequest)
  /\ UNCHANGED <<account, passwords, following, handed, shown, tangled>>

\* The process dies, or the response is lost, or the page of the error fails as well: the
\* browser keeps its cookie, and a page that was asked for is asked for again.  Here ends
\* too a change of one's own password that is refused.
AccountAbort(t) ==
  LET r == request[t] IN
  /\ r.op \in AccountOps
  /\ following' = IF r.op = "respond" /\ r.page # NULL
                    THEN [following EXCEPT ![r.browser] = @ \cup {r.page}]
                    ELSE following
  /\ Continue(t, NoRequest)
  /\ UNCHANGED <<account, passwords, cookie, handed, shown, lost, tangled>>

\* The command seed-admin: one transaction of its own.
SeedAdmin ==
  /\ desk = "accounts"
  /\ \A u \in User : account[u] # NULL => account[u].role # "staff"
  /\ passwords' = passwords + 1
  /\ \E u \in User, handle \in HandleInput :
       /\ account[u] = NULL
       /\ account' = [account EXCEPT ![u] = [role |-> "staff", password |-> passwords',
                                             slack_handle |-> handle]]
  /\ UNCHANGED <<requestVars, cookie, following, handed, shown, lost, tangled>>

AccountInit ==
  /\ account = [u \in User |->
                  IF u \in DOMAIN InitialRoles
                    THEN [role |-> InitialRoles[u], password |-> 0, slack_handle |-> FALSE]
                    ELSE NULL]
  /\ passwords = 0
  /\ cookie = [b \in Browser |-> NULL]
  /\ following = [b \in Browser |-> {}]
  /\ handed = {} /\ shown = {} /\ lost = {} /\ tangled = {}

AccountStep(t) ==
  \/ CreateUser(t) \/ ResetPassword(t) \/ ChangeRole(t) \/ EditSlackHandle(t)
  \/ OpenUserPage(t) \/ OpenAnotherPage(t) \/ ChangePassword(t)
  \/ CommitPassword(t) \/ CommitChange(t) \/ CommitOwnPassword(t)
  \/ Deliver(t) \/ Respond(t) \/ RespondError(t) \/ AccountAbort(t)

-----------------------------------------------------------------------------
AccountTypeOK ==
  /\ account \in [User -> AccountRow \cup {NULL}]
  /\ passwords \in Nat
  /\ cookie \in [Browser -> Temporary \cup {NULL}]
  /\ following \in [Browser -> SUBSET User]
  /\ handed \subseteq [browser : Browser, temporary : Temporary]
  /\ shown \subseteq [page : User, temporary : Temporary]
  /\ lost \subseteq Temporary
  /\ tangled \subseteq Browser

\* "displayed on screen one time" (docs/staff.md:238): in a browser that does one thing at
\* a time, a temporary password sent in the cookie waits there for its own page, or has
\* been shown on that page and no other, or is lost because that page took it and failed;
\* and only one of these.  Two tabs may show it twice, or on another user's page.
OneTabShowsEachPasswordOnce ==
  \A h \in handed : h.browser \notin tangled =>
    LET waits == cookie[h.browser] = h.temporary
        fails == h.temporary \in lost
        pages == {s.page : s \in {d \in shown : d.temporary = h.temporary}}
    IN  \/ waits /\ ~fails /\ pages = {}
        \/ ~waits /\ ~fails /\ pages = {h.temporary.user}
        \/ ~waits /\ fails /\ pages = {}

\* change_password proves the current password: the one presented is the one that the
\* new one replaces, whatever resets overlap; a reset is never undone by someone who
\* only knew the password before it.
PasswordChangeIsProved ==
  [][\A t \in Thread :
       CommitOwnPassword(t) => account[request[t].user].password = request[t].presented
    ]_<<requestVars, accountVars>>
=============================================================================
