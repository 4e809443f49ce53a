------------------------------ MODULE Identity ------------------------------
(***************************************************************************)
(* Users, their one-time links and sessions, while HTTP handlers run side  *)
(* by side (internal/httpapi/auth.go, admin.go, the middleware of          *)
(* server.go, the statements of internal/store/store.go).                  *)
(*                                                                         *)
(* A handler is a request that advances one database statement at a time   *)
(* and acts on what it read before; any statement may fail.  Attempts that *)
(* are refused without touching the database are left out: a wrong         *)
(* password, an unknown link, a closed registration, maintenance.  A       *)
(* password is the number of resets before it.                             *)
(***************************************************************************)
EXTENDS Naturals, FiniteSets

CONSTANTS
  Users,          \* email addresses: users.email is unique, rows stay
  Sessions,       \* ids of sessions rows
  Requests,       \* handlers that may run at the same time
  FirstAdmin,     \* the administrator the installation created
  Changes,        \* the changes administrators ask for
  NoRow, NoSession, NoRequest,
  (* Bounds of the model.                                                  *)
  MaxResets,      \* passwords replaced
  MaxOverlaps     \* kinds of conflicting requests that overlap

Roles == {"user", "admin"}
Statuses == {"pending", "active", "disabled"}
Purposes == {"verify_email", "reset_password"}

(* A users row.                                                            *)
Row == [role: Roles, status: Statuses, verified: BOOLEAN, password: Nat]

(* adminUpdateUser's input; "keep" is an absent field.                     *)
Change == [role: Roles \cup {"keep"}, status: Statuses \cup {"keep"}]

ASSUME IdentityAssumption ==
  /\ FirstAdmin \in Users
  /\ Changes \subseteq Change
  /\ MaxResets \in Nat /\ MaxOverlaps \in Nat

VARIABLES
  user,       \* the users rows
  link,       \* the one_time_tokens that work and whose mail has arrived
  session,    \* the sessions rows
  req,        \* what each request is doing
  resets,     \* passwords replaced so far
  crossed     \* which Conflicts have overlapped; history

used == <<resets, crossed>>
vars == <<user, link, session, req, used>>

Ops == {"register", "resend", "verify", "login", "reauth", "forgot", "reset",
        "update"}
Steps == {"issue", "apply", "store", "mark", "read", "count", "write"}

(* Requests that may act on what the other one changes.                    *)
Conflicts ==
  {{"update"}, {"login", "reset"}, {"register", "verify"}, {"resend", "verify"}}

(* `password' is the one that was proven when the session was opened or    *)
(* last reauthenticated, `recent' that this was within five minutes.       *)
Session == [user: Users, password: Nat, recent: BOOLEAN]

(* `password' is what the request read and `session' where it came from,   *)
(* where a later step uses them.                                           *)
Request ==
  [op: Ops, at: Steps, on: Users, session: Sessions \cup {NoSession},
   password: Nat, change: Changes \cup {NoRequest}]

ASSUME AbsenceAssumption ==
  /\ NoRow \notin Row
  /\ NoSession \notin Sessions \cup Session
  /\ NoRequest \notin Requests \cup Request

TypeOK ==
  /\ user \in [Users -> Row \cup {NoRow}]
  /\ link \in SUBSET (Users \X Purposes)
  /\ session \in [Sessions -> Session \cup {NoSession}]
  /\ req \in [Requests -> Request \cup {NoRequest}]
  /\ resets \in 0..MaxResets /\ crossed \subseteq Conflicts

NewRow(role, status) ==
  [role |-> role, status |-> status, verified |-> status = "active", password |-> 0]

Init ==
  /\ user = [u \in Users |-> IF u = FirstAdmin THEN NewRow("admin", "active") ELSE NoRow]
  /\ link = {}
  /\ session = [s \in Sessions |-> NoSession]
  /\ req = [r \in Requests |-> NoRequest]
  /\ resets = 0 /\ crossed = {}

-----------------------------------------------------------------------------
(* Helpers.                                                                *)

Running(r, op, at) == req[r] # NoRequest /\ req[r].op = op /\ req[r].at = at
Goto(r, at) == req' = [req EXCEPT ![r].at = at]
Finish(r) == req' = [req EXCEPT ![r] = NoRequest]

Begin(r, q) ==
  /\ req[r] = NoRequest
  /\ req' = [req EXCEPT ![r] = q]
  /\ crossed' = crossed \cup
       {c \in Conflicts : \E p \in Requests : req[p] # NoRequest /\ {req[p].op, q.op} = c}
  /\ Cardinality(crossed') <= MaxOverlaps
  /\ UNCHANGED resets

Call(op, at, u) ==
  [op |-> op, at |-> at, on |-> u, session |-> NoSession, password |-> 0,
   change |-> NoRequest]

(* A statement fails and the handler answers with an error.                *)
Break(r) == Finish(r) /\ UNCHANGED used

ActiveAdmins == {u \in Users : /\ user[u] # NoRow
                               /\ user[u].role = "admin" /\ user[u].status = "active"}

-----------------------------------------------------------------------------
(* The middleware: SessionUser and the checks around it.                   *)

Owner(s) == user[session[s].user]

(* authMiddleware.                                                         *)
Principal(s) == session[s] # NoSession /\ Owner(s).status = "active"

(* requireAdmin and requireRecentAuth.                                     *)
TrustedAdmin(s) == Principal(s) /\ Owner(s).role = "admin" /\ session[s].recent

-----------------------------------------------------------------------------
(* Registration and verification (auth.go).                                *)

(* register, up to the row.                                                *)
Register(r, u) ==
  /\ user[u] = NoRow
  /\ user' = [user EXCEPT ![u] = NewRow("user", "pending")]
  /\ Begin(r, Call("register", "issue", u))
  /\ UNCHANGED <<link, session>>

(* Mutant: whoever is not active may verify again.                         *)
AwaitsVerificationByStatus(row) == row.status # "active"

(* validateResendVerification, given the right password.                   *)
AwaitsVerification(row) == row.status = "pending" /\ ~row.verified

ResendVerification(r, u) ==
  /\ user[u] # NoRow /\ AwaitsVerification(user[u])
  /\ Begin(r, Call("resend", "issue", u))
  /\ UNCHANGED <<user, link, session>>

(* forgotPassword.                                                         *)
ForgotPassword(r, u) ==
  /\ user[u] # NoRow /\ user[u].status # "disabled"
  /\ Begin(r, Call("forgot", "issue", u))
  /\ UNCHANGED <<user, link, session>>

LinkOf(q) == <<q.on, IF q.op = "forgot" THEN "reset_password" ELSE "verify_email">>

(* store.ReplaceOneTimeToken: older links of the purpose no longer work.   *)
ReplaceOneTimeToken(x) == link' = link \ {x}

(* ... and the new one does once deliverSMTP has brought it to its reader, *)
(* whatever the handler is told.  In between nobody knows it.              *)
DeliverSMTP(x) == link' = link \cup {x}

(* The end of register, resendVerification and forgotPassword: the link is *)
(* stored and mailed, stored and lost (sendEmail), or not even stored.     *)
SendLink(r) ==
  LET x == LinkOf(req[r])
  IN /\ \E op \in {"register", "resend", "forgot"} : Running(r, op, "issue")
     /\ \/ DeliverSMTP(x) /\ Finish(r) /\ UNCHANGED used
        \/ (ReplaceOneTimeToken(x) \/ UNCHANGED link) /\ Break(r)
     /\ UNCHANGED <<user, session>>

(* store.ConsumeOneTimeToken.                                              *)
ConsumeOneTimeToken(x) == x \in link /\ link' = link \ {x}

(* verifyEmail, up to ActivateUser.                                        *)
VerifyEmail(r, u) ==
  /\ ConsumeOneTimeToken(<<u, "verify_email">>)
  /\ Begin(r, Call("verify", "apply", u))
  /\ UNCHANGED <<user, session>>

ActivateUser(r) ==
  /\ Running(r, "verify", "apply")
  /\ \/ /\ user' = [user EXCEPT ![req[r].on].status = "active",
                                ![req[r].on].verified = TRUE]
        /\ Finish(r) /\ UNCHANGED used
     \/ Break(r) /\ UNCHANGED user
  /\ UNCHANGED <<link, session>>

(* expires_at passes.                                                      *)
ExpireLink(x) ==
  /\ x \in link /\ link' = link \ {x}
  /\ UNCHANGED <<user, session, req, used>>

-----------------------------------------------------------------------------
(* Passwords and sessions (auth.go).                                       *)

(* resetPassword, up to UpdatePassword.                                    *)
ResetPassword(r, u) ==
  /\ ConsumeOneTimeToken(<<u, "reset_password">>)
  /\ Begin(r, Call("reset", "apply", u))
  /\ UNCHANGED <<user, session>>

(* Mutant: the sessions are kept.                                          *)
UpdatePasswordOnly(u) ==
  /\ user' = [user EXCEPT ![u].password = @ + 1]
  /\ UNCHANGED session

(* store.UpdatePassword: one transaction.                                  *)
UpdatePassword(u) ==
  /\ user' = [user EXCEPT ![u].password = @ + 1]
  /\ session' = [s \in Sessions |->
       IF session[s] # NoSession /\ session[s].user = u THEN NoSession ELSE session[s]]

FinishReset(r) ==
  /\ Running(r, "reset", "apply")
  /\ \/ UpdatePassword(req[r].on) /\ Finish(r)
        /\ resets < MaxResets /\ resets' = resets + 1 /\ UNCHANGED crossed
     \/ Break(r) /\ UNCHANGED <<user, session>>
  /\ UNCHANGED link

(* login with the right password.                                          *)
Login(r, u) ==
  /\ user[u] # NoRow /\ user[u].status = "active"
  /\ Begin(r, [Call("login", "store", u) EXCEPT !.password = user[u].password])
  /\ UNCHANGED <<user, link, session>>

(* gen_random_uuid: an id no row or request uses.                          *)
Unused == {s \in Sessions : /\ session[s] = NoSession
                            /\ \A r \in Requests : req[r] # NoRequest => req[r].session # s}

(* The rest of login; a failure after it deletes the session again.        *)
CreateSession(r) ==
  /\ Running(r, "login", "store")
  /\ \/ /\ Unused # {}
        /\ session' = [session EXCEPT ![CHOOSE s \in Unused : TRUE] =
             [user |-> req[r].on, password |-> req[r].password, recent |-> TRUE]]
        /\ Finish(r) /\ UNCHANGED used
     \/ Break(r) /\ UNCHANGED session
  /\ UNCHANGED <<user, link>>

(* reauth: the password is compared with what the middleware read.         *)
Reauth(r, s) ==
  /\ Principal(s)
  /\ Begin(r, [Call("reauth", "mark", session[s].user)
                EXCEPT !.session = s, !.password = Owner(s).password])
  /\ UNCHANGED <<user, link, session>>

(* Mutant: the session is written, not updated.                            *)
MarkRecentAuthUpsert(s, u, password) ==
  session' = [session EXCEPT ![s] = [user |-> u, password |-> password, recent |-> TRUE]]

(* store.MarkRecentAuth: UPDATE ... WHERE id.                              *)
MarkRecentAuth(s, u, password) ==
  session' = [session EXCEPT ![s] =
    IF @ = NoSession THEN @ ELSE [user |-> u, password |-> password, recent |-> TRUE]]

FinishReauth(r) ==
  /\ Running(r, "reauth", "mark")
  /\ \/ /\ MarkRecentAuth(req[r].session, req[r].on, req[r].password)
        /\ Finish(r) /\ UNCHANGED used
     \/ Break(r) /\ UNCHANGED session
  /\ UNCHANGED <<user, link>>

(* logout, or expires_at passes.                                           *)
Logout(s) ==
  /\ Principal(s)
  /\ session' = [session EXCEPT ![s] = NoSession]
  /\ UNCHANGED <<user, link, req, used>>

ExpireSession(s) ==
  /\ session[s] # NoSession
  /\ session' = [session EXCEPT ![s] = NoSession]
  /\ UNCHANGED <<user, link, req, used>>

(* Five minutes pass.                                                      *)
RecentAuthPasses(s) ==
  /\ session[s] # NoSession /\ session[s].recent
  /\ session' = [session EXCEPT ![s].recent = FALSE]
  /\ UNCHANGED <<user, link, req, used>>

-----------------------------------------------------------------------------
(* Administration (admin.go, main.go).                                     *)

(* adminCreateUser, and the command line's `admin'.                        *)
AdminCreateUser(s, u, role) ==
  /\ TrustedAdmin(s) /\ user[u] = NoRow
  /\ user' = [user EXCEPT ![u] = NewRow(role, "active")]
  /\ UNCHANGED <<link, session, req, used>>

RunAdmin(u) ==
  /\ user[u] = NoRow
  /\ user' = [user EXCEPT ![u] = NewRow("admin", "active")]
  /\ UNCHANGED <<link, session, req, used>>

(* Mutant: only demotions are counted.                                     *)
RemovesActiveAdminByRole(row, c) ==
  row.role = "admin" /\ row.status = "active" /\ c.role = "user"

(* The change takes an active administrator away.                          *)
RemovesActiveAdmin(row, c) ==
  /\ row.role = "admin" /\ row.status = "active"
  /\ c.role = "user" \/ c.status \in {"pending", "disabled"}

(* adminUpdateUser: the middleware reads the administrator's row, then      *)
(* GetUserByID the user's. Nothing looks at the administrator again.       *)
AdminUpdateUser(r, s, u, c) ==
  /\ TrustedAdmin(s) /\ user[u] # NoRow
  /\ Begin(r, [Call("update", "read", u) EXCEPT !.change = c])
  /\ UNCHANGED <<user, link, session>>

GetUserByID(r) ==
  /\ Running(r, "update", "read")
  /\ \/ /\ Goto(r, IF RemovesActiveAdmin(user[req[r].on], req[r].change)
                    THEN "count" ELSE "write")
        /\ UNCHANGED used
     \/ Break(r)
  /\ UNCHANGED <<user, link, session>>

(* ActiveAdminCount; if it fails the count is 0 and the change is refused. *)
ActiveAdminCount(r) ==
  /\ Running(r, "update", "count")
  /\ \/ Cardinality(ActiveAdmins) > 1 /\ Goto(r, "write") /\ UNCHANGED used
     \/ Cardinality(ActiveAdmins) <= 1 /\ Finish(r) /\ UNCHANGED used
     \/ Break(r)
  /\ UNCHANGED <<user, link, session>>

(* Mutant: an absent field is written as it is.                            *)
ChangedBlindly(row, c) == [row EXCEPT !.role = c.role, !.status = c.status]

(* store.UpdateUserAdmin.                                                  *)
Changed(row, c) ==
  [row EXCEPT !.role = IF c.role = "keep" THEN @ ELSE c.role,
              !.status = IF c.status = "keep" THEN @ ELSE c.status]

UpdateUserAdmin(r) ==
  /\ Running(r, "update", "write")
  /\ \/ /\ user' = [user EXCEPT ![req[r].on] = Changed(@, req[r].change)]
        /\ Finish(r) /\ UNCHANGED used
     \/ Break(r) /\ UNCHANGED user
  /\ UNCHANGED <<link, session>>

-----------------------------------------------------------------------------
Continue(r) ==
  \/ SendLink(r) \/ ActivateUser(r) \/ FinishReset(r)
  \/ CreateSession(r) \/ FinishReauth(r)
  \/ GetUserByID(r) \/ ActiveAdminCount(r) \/ UpdateUserAdmin(r)

Start(r) ==
  \/ \E u \in Users : \/ Register(r, u) \/ ResendVerification(r, u) \/ ForgotPassword(r, u)
                      \/ VerifyEmail(r, u) \/ ResetPassword(r, u) \/ Login(r, u)
  \/ \E s \in Sessions : \/ Reauth(r, s)
                         \/ \E u \in Users, c \in Changes : AdminUpdateUser(r, s, u, c)

Other ==
  \/ \E x \in Users \X Purposes : ExpireLink(x)
  \/ \E s \in Sessions : \/ Logout(s) \/ ExpireSession(s) \/ RecentAuthPasses(s)
                         \/ \E u \in Users, role \in Roles : AdminCreateUser(s, u, role)
  \/ \E u \in Users : RunAdmin(u)

Next == (\E r \in Requests : Start(r) \/ Continue(r)) \/ Other

Spec == Init /\ [][Next]_vars

-----------------------------------------------------------------------------
(* Properties.                                                             *)

(* There is always an administrator who can administer: the last active    *)
(* one is neither demoted nor suspended (adminUpdateUser's answer          *)
(* `last_admin').                                                          *)
LastAdminKept == ActiveAdmins # {}

(* ... as long as no two such changes overlap, whatever fails and whichever *)
(* other requests do.                                                      *)
AdminRemains == {"update"} \notin crossed => LastAdminKept

(* Nobody stays logged in on a password that has been replaced, be it      *)
(* proven at login or at a reauthentication that is still under way, unless *)
(* a login overlaps the reset (login, reauth, UpdatePassword,              *)
(* MarkRecentAuth; resetPassword tells the user to log in again).          *)
SessionsMatchPassword ==
  {"login", "reset"} \notin crossed =>
    \A s \in Sessions :
      session[s] # NoSession => session[s].password = Owner(s).password

ChangedByAdmin(u) == \E r \in Requests : Running(r, "update", "write") /\ req[r].on = u

(* A user who has verified the address and is then disabled stays out      *)
(* until an administrator says otherwise: no link that is left over brings *)
(* the user back, unless one was mailed or asked for during a verification *)
(* (ActivateUser sets `active' whatever the status was).                   *)
DisabledStaysOut ==
  [][\A u \in Users :
       /\ {{"register", "verify"}, {"resend", "verify"}} \cap crossed = {}
       /\ user[u] # NoRow /\ user[u].status = "disabled" /\ user[u].verified
       /\ user'[u].status # "disabled"
       => ChangedByAdmin(u)]_vars

=============================================================================
