--------------------------- MODULE IdentityProofs ---------------------------
(***************************************************************************)
(* Users, links and sessions for any number of addresses, sessions and     *)
(* handlers side by side, any changes administrators ask for and any       *)
(* bounds.                                                                 *)
(***************************************************************************)
EXTENDS Identity, FiniteSetTheorems, TLAPS

Busy(r, op) == req[r] # NoRequest /\ req[r].op = op
BusyOn(r, op, u) == Busy(r, op) /\ req[r].on = u

(* Whatever a link, a session or a request is about has a row.             *)
RowsOK ==
  /\ \A u \in Users, p \in Purposes : <<u, p>> \in link => user[u] # NoRow
  /\ \A s \in Sessions : session[s] # NoSession => user[session[s].user] # NoRow
  /\ \A r \in Requests : req[r] # NoRequest => user[req[r].on] # NoRow

CallsOK ==
  \A r \in Requests :
    /\ Busy(r, "update") => req[r].change \in Changes
    /\ Busy(r, "reauth") => req[r].session \in Sessions

(* Conflicting requests that run at the same time are on record.           *)
OverlapsOK ==
  \A p, r \in Requests :
    /\ p # r /\ Busy(p, "update") /\ Busy(r, "update") => {"update"} \in crossed
    /\ Busy(p, "login") /\ Busy(r, "reset") => {"login", "reset"} \in crossed
    /\ Busy(p, "register") /\ Busy(r, "verify") => {"register", "verify"} \in crossed
    /\ Busy(p, "resend") /\ Busy(r, "verify") => {"resend", "verify"} \in crossed

(* A change that is about to be written makes no difference to an active   *)
(* administrator, or there is another one.                                 *)
Spares(c) == c.role # "user" /\ c.status \notin {"pending", "disabled"}

AdminsOK ==
  /\ IsFiniteSet(ActiveAdmins)
  /\ {"update"} \notin crossed =>
       /\ ActiveAdmins # {}
       /\ \A r \in Requests :
            Busy(r, "update") /\ req[r].at = "write" =>
              Spares(req[r].change) \/ ActiveAdmins \ {req[r].on} # {}

(* The password a login or a reauthentication has compared, and the one    *)
(* behind a session, are the user's.                                       *)
PasswordsOK ==
  /\ \A r \in Requests :
       Busy(r, "reauth") /\ session[req[r].session] # NoSession =>
         /\ session[req[r].session].user = req[r].on
         /\ req[r].password = user[req[r].on].password
  /\ {"login", "reset"} \notin crossed =>
       /\ \A r \in Requests : Busy(r, "login") => req[r].password = user[req[r].on].password
       /\ \A s \in Sessions :
            session[s] # NoSession => session[s].password = user[session[s].user].password

(* No way is open to another verification of `u'.                          *)
Closed(u) ==
  /\ <<u, "verify_email">> \notin link
  /\ \A r \in Requests : ~BusyOn(r, "register", u) /\ ~BusyOn(r, "resend", u)

Clean == {{"register", "verify"}, {"resend", "verify"}} \cap crossed = {}

(* A verification is the only one of its user and the last.                *)
VerificationOK ==
  Clean =>
    \A u \in Users :
      /\ user[u] # NoRow /\ user[u].verified =>
           Closed(u) /\ \A r \in Requests : ~BusyOn(r, "verify", u)
      /\ \A r \in Requests :
           BusyOn(r, "verify", u) =>
             Closed(u) /\ \A p \in Requests \ {r} : ~BusyOn(p, "verify", u)

(* The inductive invariant.                                                *)
Inv ==
  /\ TypeOK /\ RowsOK /\ CallsOK /\ OverlapsOK
  /\ AdminsOK /\ PasswordsOK /\ VerificationOK

-----------------------------------------------------------------------------
(* Requests that begin and end.                                            *)

LEMMA Begun ==
  ASSUME TypeOK, OverlapsOK, NEW r \in Requests, NEW q \in Request, Begin(r, q)
  PROVE  /\ req' \in [Requests -> Request \cup {NoRequest}]
         /\ req[r] = NoRequest /\ req'[r] = q /\ q # NoRequest
         /\ \A p \in Requests \ {r} : req'[p] = req[p]
         /\ resets' = resets /\ crossed \subseteq crossed' /\ crossed' \subseteq Conflicts
         /\ OverlapsOK'
<1>1. /\ req \in [Requests -> Request \cup {NoRequest}] /\ crossed \subseteq Conflicts
      /\ req' = [req EXCEPT ![r] = q] /\ req[r] = NoRequest /\ resets' = resets
      /\ q # NoRequest
  BY AbsenceAssumption DEF TypeOK, Begin
<1>2. /\ req' \in [Requests -> Request \cup {NoRequest}] /\ req'[r] = q
      /\ \A p \in Requests \ {r} : req'[p] = req[p]
  BY <1>1
<1>3. crossed \subseteq crossed' /\ crossed' \subseteq Conflicts
  BY <1>1 DEF Begin
<1>4. ASSUME NEW p \in Requests, req[p] # NoRequest, {req[p].op, q.op} \in Conflicts
      PROVE  {req[p].op, q.op} \in crossed'
  BY <1>4 DEF Begin
<1>5. /\ {"update"} \in Conflicts /\ {"login", "reset"} \in Conflicts
      /\ {"register", "verify"} \in Conflicts /\ {"resend", "verify"} \in Conflicts
  BY DEF Conflicts
<1>6. ASSUME NEW a, NEW b, {a, b} \in Conflicts,
             NEW p \in Requests, NEW x \in Requests, p # x,
             Busy(p, a)', Busy(x, b)', ~(Busy(p, a) /\ Busy(x, b))
      PROVE  {a, b} \in crossed'
  <2>1. CASE p = r
    <3>1. q.op = a /\ req[x] # NoRequest /\ req[x].op = b
      BY <1>2, <1>6, <2>1 DEF Busy
    <3>2. {req[x].op, q.op} = {a, b}
      BY <3>1
    <3> QED BY <1>4, <1>6, <3>1, <3>2
  <2>2. CASE x = r
    <3>1. q.op = b /\ req[p] # NoRequest /\ req[p].op = a
      BY <1>2, <1>6, <2>2 DEF Busy
    <3>2. {req[p].op, q.op} = {a, b}
      BY <3>1
    <3> QED BY <1>4, <1>6, <3>1, <3>2
  <2>3. CASE p # r /\ x # r
    BY <1>2, <1>6, <2>3 DEF Busy
  <2> QED BY <2>1, <2>2, <2>3
<1>7. OverlapsOK'
  <2> SUFFICES ASSUME NEW p \in Requests, NEW x \in Requests
               PROVE  /\ p # x /\ Busy(p, "update")' /\ Busy(x, "update")'
                          => {"update"} \in crossed'
                      /\ Busy(p, "login")' /\ Busy(x, "reset")' => {"login", "reset"} \in crossed'
                      /\ Busy(p, "register")' /\ Busy(x, "verify")'
                         => {"register", "verify"} \in crossed'
                      /\ Busy(p, "resend")' /\ Busy(x, "verify")'
                         => {"resend", "verify"} \in crossed'
    BY DEF OverlapsOK
  <2>1. ASSUME p # x, Busy(p, "update")', Busy(x, "update")' PROVE {"update"} \in crossed'
    <3>1. CASE Busy(p, "update") /\ Busy(x, "update")
      BY <1>3, <2>1, <3>1 DEF OverlapsOK
    <3>2. {"update", "update"} = {"update"}
      OBVIOUS
    <3> QED BY <1>5, <1>6, <2>1, <3>1, <3>2
  <2>2. ASSUME Busy(p, "login")', Busy(x, "reset")' PROVE {"login", "reset"} \in crossed'
    <3>1. CASE Busy(p, "login") /\ Busy(x, "reset")
      BY <1>3, <3>1 DEF OverlapsOK
    <3>2. p # x
      BY <2>2 DEF Busy
    <3> QED BY <1>5, <1>6, <2>2, <3>1, <3>2
  <2>3. ASSUME Busy(p, "register")', Busy(x, "verify")' PROVE {"register", "verify"} \in crossed'
    <3>1. CASE Busy(p, "register") /\ Busy(x, "verify")
      BY <1>3, <3>1 DEF OverlapsOK
    <3>2. p # x
      BY <2>3 DEF Busy
    <3> QED BY <1>5, <1>6, <2>3, <3>1, <3>2
  <2>4. ASSUME Busy(p, "resend")', Busy(x, "verify")' PROVE {"resend", "verify"} \in crossed'
    <3>1. CASE Busy(p, "resend") /\ Busy(x, "verify")
      BY <1>3, <3>1 DEF OverlapsOK
    <3>2. p # x
      BY <2>4 DEF Busy
    <3> QED BY <1>5, <1>6, <2>4, <3>1, <3>2
  <2> QED BY <2>1, <2>2, <2>3, <2>4
<1> QED BY <1>1, <1>2, <1>3, <1>7

(* Requests that go on or end.                                             *)
LEMMA Ended ==
  ASSUME OverlapsOK, crossed' = crossed,
         \A p \in Requests : req'[p] # NoRequest => req[p] # NoRequest /\ req'[p].op = req[p].op
  PROVE  OverlapsOK'
BY DEF OverlapsOK, Busy

LEMMA Finished ==
  ASSUME TypeOK, NEW r \in Requests, Finish(r)
  PROVE  /\ req' \in [Requests -> Request \cup {NoRequest}] /\ req'[r] = NoRequest
         /\ \A p \in Requests \ {r} : req'[p] = req[p]
BY DEF TypeOK, Finish

(* One row at a time keeps the administrators few.                         *)
LEMMA AdminsFinite ==
  ASSUME IsFiniteSet(ActiveAdmins), NEW u \in Users, \A v \in Users \ {u} : user'[v] = user[v]
  PROVE  IsFiniteSet(ActiveAdmins')
<1>1. ActiveAdmins' \subseteq ActiveAdmins \cup {u}
  BY DEF ActiveAdmins
<1>2. IsFiniteSet(ActiveAdmins \cup {u})
  BY FS_AddElement
<1> QED BY <1>1, <1>2, FS_Subset

-----------------------------------------------------------------------------
(* Steps.                                                                  *)

LEMMA NewRows ==
  ASSUME NEW role \in Roles, NEW status \in Statuses
  PROVE  /\ NewRow(role, status) \in Row /\ NewRow(role, status) # NoRow
         /\ NewRow(role, status).role = role /\ NewRow(role, status).status = status
         /\ NewRow(role, status).verified => status = "active"
<1>1. (status = "active") \in BOOLEAN
  OBVIOUS
<1>2. ASSUME NEW v \in BOOLEAN
      PROVE  [role |-> role, status |-> status, verified |-> v, password |-> 0] \in Row
  BY DEF Row
<1>3. NewRow(role, status) \in Row
  BY <1>1, <1>2, Zenon DEF NewRow
<1>4. NewRow(role, status) # NoRow
  BY <1>3, AbsenceAssumption
<1> QED BY <1>3, <1>4 DEF NewRow

LEMMA Initially == Init => Inv
<1> SUFFICES ASSUME Init PROVE Inv
  OBVIOUS
<1> USE IdentityAssumption, AbsenceAssumption
<1>1. NewRow("admin", "active") \in Row /\ NewRow("admin", "active") # NoRow
  BY NewRows DEF Roles, Statuses
<1>2. TypeOK
  BY <1>1 DEF Init, TypeOK
<1>3. RowsOK /\ CallsOK /\ OverlapsOK /\ PasswordsOK
  BY DEF Init, RowsOK, CallsOK, OverlapsOK, PasswordsOK, Busy
<1>4. AdminsOK
  <2>1. ActiveAdmins = {FirstAdmin}
    BY <1>1 DEF Init, ActiveAdmins, NewRow
  <2>2. IsFiniteSet({FirstAdmin})
    BY FS_Singleton
  <2> QED BY <2>1, <2>2 DEF AdminsOK, Init, Busy
<1>5. VerificationOK
  BY DEF VerificationOK, Closed, BusyOn, Busy, Init
<1> QED BY <1>2, <1>3, <1>4, <1>5 DEF Inv

(* Steps that add at most a row, take links and sessions away and give     *)
(* nobody anything: the rest of the state keeps the invariant.             *)
Withdrawing(u) ==
  /\ user' \in [Users -> Row \cup {NoRow}]
  /\ \A v \in Users \ {u} : user'[v] = user[v]
  /\ user[u] # NoRow => user'[u] = user[u]
  /\ link' \subseteq link
  /\ session' \in [Sessions -> Session \cup {NoSession}]
  /\ \A s \in Sessions :
       session'[s] # NoSession =>
         /\ session[s] # NoSession /\ session'[s].user = session[s].user
         /\ session'[s].password = session[s].password

LEMMA WithdrawingKeeps ==
  ASSUME Inv, NEW u \in Users, Withdrawing(u)
  PROVE  /\ IsFiniteSet(ActiveAdmins') /\ ActiveAdmins \subseteq ActiveAdmins'
         /\ \A v \in Users : user[v] # NoRow => user'[v] = user[v]
         /\ \A v \in Users, p \in Purposes : <<v, p>> \in link' => user'[v] # NoRow
         /\ \A s \in Sessions : session'[s] # NoSession => user'[session'[s].user] # NoRow
<1>1. \A v \in Users : user[v] # NoRow => user'[v] = user[v]
  BY DEF Withdrawing
<1>2. ActiveAdmins \subseteq ActiveAdmins'
  BY <1>1 DEF ActiveAdmins
<1>3. IsFiniteSet(ActiveAdmins')
  BY AdminsFinite DEF Inv, AdminsOK, Withdrawing
<1>4. \A v \in Users, p \in Purposes : <<v, p>> \in link' => user'[v] # NoRow
  BY <1>1 DEF Withdrawing, Inv, RowsOK
<1>5. ASSUME NEW s \in Sessions, session'[s] # NoSession PROVE user'[session'[s].user] # NoRow
  <2>1. session[s] # NoSession /\ session'[s].user = session[s].user /\ session[s] \in Session
    BY <1>5 DEF Withdrawing, Inv, TypeOK
  <2>2. session[s].user \in Users
    BY <2>1 DEF Session
  <2> QED BY <1>1, <1>5, <2>1, <2>2 DEF Inv, RowsOK
<1> QED BY <1>1, <1>2, <1>3, <1>4, <1>5

LEMMA WithdrawingInv ==
  ASSUME Inv, NEW u \in Users, Withdrawing(u),
         req' \in [Requests -> Request \cup {NoRequest}],
         \A p \in Requests : req'[p] # NoRequest => req'[p] = req[p],
         resets' = resets, crossed' = crossed
  PROVE  Inv'
<1> USE IdentityAssumption, AbsenceAssumption
<1>1. /\ IsFiniteSet(ActiveAdmins') /\ ActiveAdmins \subseteq ActiveAdmins'
      /\ \A v \in Users : user[v] # NoRow => user'[v] = user[v]
      /\ \A v \in Users, p \in Purposes : <<v, p>> \in link' => user'[v] # NoRow
      /\ \A s \in Sessions : session'[s] # NoSession => user'[session'[s].user] # NoRow
  BY WithdrawingKeeps DEF Withdrawing
<1>2. \A p \in Requests :
        req'[p] # NoRequest =>
          req'[p] = req[p] /\ req[p] \in Request /\ req[p].on \in Users /\ user[req[p].on] # NoRow
  BY DEF Inv, TypeOK, RowsOK, Request
<1>3. TypeOK'
  BY DEF Inv, TypeOK, Withdrawing
<1>4. RowsOK'
  BY <1>1, <1>2 DEF RowsOK
<1>5. CallsOK' /\ OverlapsOK'
  <2>1. CallsOK'
    BY <1>2 DEF Inv, CallsOK, Busy
  <2>2. OverlapsOK'
    BY <1>2, Ended DEF Inv
  <2> QED BY <2>1, <2>2
<1>6. AdminsOK'
  BY <1>1, <1>2 DEF Inv, AdminsOK, Busy
<1>7. PasswordsOK'
  <2>1. ASSUME NEW r \in Requests, Busy(r, "reauth")', session'[req'[r].session] # NoSession
        PROVE  /\ session'[req'[r].session].user = req'[r].on
               /\ req'[r].password = user'[req'[r].on].password
    <3>1. req'[r] = req[r] /\ Busy(r, "reauth") /\ req[r].session \in Sessions
      BY <1>2, <2>1 DEF Busy, Inv, CallsOK
    <3>2. session[req[r].session] # NoSession
      BY <2>1, <3>1 DEF Withdrawing
    <3> QED BY <1>1, <1>2, <2>1, <3>1, <3>2 DEF Inv, PasswordsOK, Withdrawing, Busy
  <2>2. ASSUME {"login", "reset"} \notin crossed', NEW r \in Requests, Busy(r, "login")'
        PROVE  req'[r].password = user'[req'[r].on].password
    BY <1>1, <1>2, <2>2 DEF Inv, PasswordsOK, Busy
  <2>3. ASSUME {"login", "reset"} \notin crossed', NEW s \in Sessions, session'[s] # NoSession
        PROVE  session'[s].password = user'[session'[s].user].password
    <3>1. session[s] # NoSession /\ session'[s].user = session[s].user /\ session[s] \in Session
          /\ session'[s].password = session[s].password
      BY <2>3 DEF Withdrawing, Inv, TypeOK
    <3>2. session[s].user \in Users /\ user[session[s].user] # NoRow
      BY <3>1 DEF Session, Inv, RowsOK
    <3> QED BY <1>1, <2>3, <3>1, <3>2 DEF Inv, PasswordsOK
  <2> QED BY <2>1, <2>2, <2>3 DEF PasswordsOK
<1>8. VerificationOK'
  <2> SUFFICES ASSUME Clean', NEW v \in Users
               PROVE  /\ user'[v] # NoRow /\ user'[v].verified =>
                           Closed(v)' /\ \A r \in Requests : ~BusyOn(r, "verify", v)'
                      /\ \A r \in Requests :
                           BusyOn(r, "verify", v)' =>
                             Closed(v)' /\ \A p \in Requests \ {r} : ~BusyOn(p, "verify", v)'
    BY DEF VerificationOK
  <2>1. Clean
    BY DEF Clean
  <2>2. Closed(v) => Closed(v)'
    BY <1>2 DEF Closed, BusyOn, Busy, Withdrawing
  <2>3. \A r \in Requests : BusyOn(r, "verify", v)' => BusyOn(r, "verify", v)
    BY <1>2 DEF BusyOn, Busy
  <2>4. CASE user[v] # NoRow
    BY <1>1, <2>1, <2>2, <2>3, <2>4 DEF Inv, VerificationOK
  <2>5. CASE user[v] = NoRow
    <3>1. \A r \in Requests : req[r] # NoRequest => req[r].on # v
      BY <2>5 DEF Inv, RowsOK
    <3>2. <<v, "verify_email">> \notin link
      BY <2>5 DEF Inv, RowsOK, Purposes
    <3>3. Closed(v)' /\ \A r \in Requests : ~BusyOn(r, "verify", v)'
      BY <1>2, <3>1, <3>2 DEF Closed, BusyOn, Busy, Withdrawing
    <3> QED BY <3>3
  <2> QED BY <2>4, <2>5
<1> QED BY <1>3, <1>4, <1>5, <1>6, <1>7, <1>8 DEF Inv

(* What a request that begins has made sure of.                            *)
Founded(q) ==
  /\ user'[q.on] # NoRow
  /\ q.op = "update" =>
       /\ q.change \in Changes
       /\ q.at = "write" => Spares(q.change) \/ ActiveAdmins \ {q.on} # {}
  /\ q.op = "reauth" =>
       /\ q.session \in Sessions /\ session[q.session] # NoSession
       /\ session[q.session].user = q.on /\ q.password = user[q.on].password
  /\ q.op = "login" => user[q.on] # NoRow /\ q.password = user[q.on].password
  /\ q.op \in {"register", "resend"} => ~user'[q.on].verified
  /\ q.op = "verify" => <<q.on, "verify_email">> \in link \ link'

LEMMA BeginInv ==
  ASSUME Inv, NEW u \in Users, Withdrawing(u),
         NEW r \in Requests, NEW q \in Request, Begin(r, q), Founded(q)
  PROVE  Inv'
<1> USE IdentityAssumption, AbsenceAssumption
<1>1. /\ IsFiniteSet(ActiveAdmins') /\ ActiveAdmins \subseteq ActiveAdmins'
      /\ \A v \in Users : user[v] # NoRow => user'[v] = user[v]
      /\ \A v \in Users, p \in Purposes : <<v, p>> \in link' => user'[v] # NoRow
      /\ \A s \in Sessions : session'[s] # NoSession => user'[session'[s].user] # NoRow
  BY WithdrawingKeeps DEF Withdrawing
<1>2. /\ req' \in [Requests -> Request \cup {NoRequest}]
      /\ req[r] = NoRequest /\ req'[r] = q /\ q # NoRequest
      /\ \A p \in Requests \ {r} : req'[p] = req[p]
      /\ resets' = resets /\ crossed \subseteq crossed' /\ crossed' \subseteq Conflicts
      /\ OverlapsOK'
  BY Begun DEF Inv
<1>3. \A p \in Requests \ {r} :
        req'[p] # NoRequest =>
          req'[p] = req[p] /\ req[p] \in Request /\ req[p].on \in Users /\ user[req[p].on] # NoRow
  BY <1>2 DEF Inv, TypeOK, RowsOK, Request
<1>4. TypeOK'
  BY <1>2 DEF Inv, TypeOK, Withdrawing
<1>5. RowsOK'
  <2>1. \A p \in Requests : req'[p] # NoRequest => user'[req'[p].on] # NoRow
    BY <1>1, <1>2, <1>3 DEF Founded
  <2> QED BY <1>1, <2>1 DEF RowsOK
<1>6. CallsOK'
  BY <1>2, <1>3 DEF Inv, CallsOK, Busy, Founded
<1>7. AdminsOK'
  <2> SUFFICES ASSUME {"update"} \notin crossed'
               PROVE  /\ ActiveAdmins' # {}
                      /\ \A p \in Requests :
                           Busy(p, "update")' /\ req'[p].at = "write" =>
                             Spares(req'[p].change) \/ ActiveAdmins' \ {req'[p].on} # {}
    BY <1>1 DEF AdminsOK
  <2>1. {"update"} \notin crossed
    BY <1>2
  <2>2. ASSUME NEW p \in Requests \ {r}, Busy(p, "update")', req'[p].at = "write"
        PROVE  Spares(req'[p].change) \/ ActiveAdmins' \ {req'[p].on} # {}
    BY <1>1, <1>3, <2>1, <2>2 DEF Inv, AdminsOK, Busy
  <2>3. ASSUME Busy(r, "update")', req'[r].at = "write"
        PROVE  Spares(req'[r].change) \/ ActiveAdmins' \ {req'[r].on} # {}
    BY <1>1, <1>2, <2>3 DEF Founded, Busy
  <2> QED BY <1>1, <2>1, <2>2, <2>3 DEF Inv, AdminsOK
<1>8. PasswordsOK'
  <2>1. ASSUME NEW p \in Requests, Busy(p, "reauth")', session'[req'[p].session] # NoSession
        PROVE  /\ session'[req'[p].session].user = req'[p].on
               /\ req'[p].password = user'[req'[p].on].password
    <3>1. CASE p = r
      <4>1. /\ q.op = "reauth" /\ q.session \in Sessions /\ session'[q.session] # NoSession
            /\ session[q.session].user = q.on /\ q.password = user[q.on].password
        BY <1>2, <2>1, <3>1 DEF Busy, Founded
      <4>2. session'[q.session].user = q.on
        BY <4>1 DEF Withdrawing
      <4>3. session[q.session] # NoSession /\ q.on \in Users
        BY <4>1 DEF Withdrawing, Request
      <4>4. user'[q.on] = user[q.on]
        BY <1>1, <4>1, <4>3 DEF Inv, RowsOK
      <4> QED BY <1>2, <3>1, <4>1, <4>2, <4>4
    <3>2. CASE p # r
      <4>1. req'[p] = req[p] /\ Busy(p, "reauth") /\ req[p].session \in Sessions
        BY <1>2, <2>1, <3>2 DEF Busy, Inv, CallsOK
      <4>2. session[req[p].session] # NoSession
        BY <2>1, <4>1 DEF Withdrawing
      <4>3. user'[req[p].on] = user[req[p].on]
        BY <1>1, <1>3, <2>1, <3>2 DEF Busy
      <4> QED BY <2>1, <4>1, <4>2, <4>3 DEF Inv, PasswordsOK, Withdrawing
    <3> QED BY <3>1, <3>2
  <2>2. ASSUME {"login", "reset"} \notin crossed', NEW p \in Requests, Busy(p, "login")'
        PROVE  req'[p].password = user'[req'[p].on].password
    <3>1. CASE p = r
      <4>1. q.op = "login" /\ q.on \in Users
        BY <1>2, <2>2, <3>1 DEF Busy, Request
      <4> QED BY <1>1, <1>2, <3>1, <4>1 DEF Founded
    <3>2. CASE p # r
      BY <1>1, <1>2, <1>3, <2>2, <3>2 DEF Inv, PasswordsOK, Busy
    <3> QED BY <3>1, <3>2
  <2>3. ASSUME {"login", "reset"} \notin crossed', NEW s \in Sessions, session'[s] # NoSession
        PROVE  session'[s].password = user'[session'[s].user].password
    <3>1. session[s] # NoSession /\ session'[s].user = session[s].user /\ session[s] \in Session
          /\ session'[s].password = session[s].password
      BY <2>3 DEF Withdrawing, Inv, TypeOK
    <3>2. session[s].user \in Users /\ user[session[s].user] # NoRow
      BY <3>1 DEF Session, Inv, RowsOK
    <3> QED BY <1>1, <1>2, <2>3, <3>1, <3>2 DEF Inv, PasswordsOK
  <2> QED BY <2>1, <2>2, <2>3 DEF PasswordsOK
<1>9. VerificationOK'
  <2> SUFFICES ASSUME Clean', NEW v \in Users
               PROVE  /\ user'[v] # NoRow /\ user'[v].verified =>
                           Closed(v)' /\ \A p \in Requests : ~BusyOn(p, "verify", v)'
                      /\ \A x \in Requests :
                           BusyOn(x, "verify", v)' =>
                             Closed(v)' /\ \A p \in Requests \ {x} : ~BusyOn(p, "verify", v)'
    BY DEF VerificationOK
  <2>1. Clean
    BY <1>2 DEF Clean
  <2>2. ASSUME NEW p \in Requests, NEW x \in Requests, Busy(p, "verify")'
        PROVE  ~Busy(x, "register")' /\ ~Busy(x, "resend")'
    BY <1>2, <2>2 DEF OverlapsOK, Clean
  <2>3. \A p \in Requests \ {r} : \A op : BusyOn(p, op, v)' => BusyOn(p, op, v)
    BY <1>3 DEF BusyOn, Busy
  <2>4. \A op : BusyOn(r, op, v)' <=> q.op = op /\ q.on = v
    BY <1>2 DEF BusyOn, Busy
  <2>5. ASSUME Closed(v), ~BusyOn(r, "register", v)', ~BusyOn(r, "resend", v)' PROVE Closed(v)'
    BY <2>3, <2>5 DEF Closed, Withdrawing
  <2>6. ASSUME q.op = "verify", q.on = v
        PROVE  /\ ~(user'[v] # NoRow /\ user'[v].verified)
               /\ \A p \in Requests \ {r} : ~BusyOn(p, "verify", v)'
    <3>1. ~Closed(v) /\ user[v] # NoRow
      BY <2>6 DEF Founded, Closed, Inv, RowsOK, Purposes
    <3> QED BY <1>1, <2>1, <2>3, <3>1 DEF Inv, VerificationOK
  <2>7. CASE user'[v] # NoRow /\ user'[v].verified
    <3>1. ~BusyOn(r, "register", v)' /\ ~BusyOn(r, "resend", v)' /\ ~BusyOn(r, "verify", v)'
      BY <2>4, <2>6, <2>7 DEF Founded
    <3>2. CASE user[v] # NoRow
      BY <1>1, <2>1, <2>3, <2>5, <2>7, <3>1, <3>2 DEF Inv, VerificationOK
    <3>3. CASE user[v] = NoRow
      <4>1. \A p \in Requests : req[p] # NoRequest => req[p].on # v
        BY <3>3 DEF Inv, RowsOK
      <4>2. <<v, "verify_email">> \notin link
        BY <3>3 DEF Inv, RowsOK, Purposes
      <4>3. Closed(v) /\ \A p \in Requests : ~BusyOn(p, "verify", v)
        BY <4>1, <4>2 DEF Closed, BusyOn, Busy
      <4> QED BY <2>3, <2>5, <3>1, <4>3
    <3> QED BY <3>2, <3>3
  <2>8. ASSUME NEW x \in Requests, BusyOn(x, "verify", v)'
        PROVE  Closed(v)' /\ \A p \in Requests \ {x} : ~BusyOn(p, "verify", v)'
    <3>1. \A p \in Requests : ~BusyOn(p, "register", v)' /\ ~BusyOn(p, "resend", v)'
      BY <2>2, <2>8 DEF BusyOn
    <3>2. CASE x = r
      <4>1. q.op = "verify" /\ q.on = v
        BY <2>4, <2>8, <3>2
      <4>2. <<v, "verify_email">> \notin link'
        BY <4>1 DEF Founded
      <4> QED BY <2>6, <3>1, <3>2, <4>1, <4>2 DEF Closed
    <3>3. CASE x # r
      <4>1. BusyOn(x, "verify", v)
        BY <2>3, <2>8, <3>3
      <4>2. Closed(v) /\ \A p \in Requests \ {x} : ~BusyOn(p, "verify", v)
        BY <2>1, <4>1 DEF Inv, VerificationOK
      <4>3. ~(q.op = "verify" /\ q.on = v)
        BY <4>2 DEF Closed, Founded
      <4> QED BY <2>3, <2>4, <2>5, <3>1, <4>2, <4>3
    <3> QED BY <3>2, <3>3
  <2> QED BY <2>7, <2>8
<1> QED BY <1>2, <1>4, <1>5, <1>6, <1>7, <1>8, <1>9 DEF Inv

(* The steps that give somebody something end a request, which leaves the  *)
(* others as they are.                                                     *)
OthersGoOn(r) ==
  /\ req' \in [Requests -> Request \cup {NoRequest}] /\ req'[r] = NoRequest
  /\ \A p \in Requests :
       req'[p] # NoRequest =>
         /\ p # r /\ req'[p] = req[p] /\ req[p] \in Request
         /\ req[p].on \in Users /\ user[req[p].on] # NoRow
  /\ \A p \in Requests : \A op, v : BusyOn(p, op, v)' => p # r /\ BusyOn(p, op, v)
  /\ \A p \in Requests : \A op : Busy(p, op)' => p # r /\ Busy(p, op) /\ req'[p] = req[p]

LEMMA OthersStay ==
  ASSUME Inv, NEW r \in Requests, Finish(r), crossed' = crossed
  PROVE  OthersGoOn(r) /\ CallsOK' /\ OverlapsOK'
<1> USE AbsenceAssumption
<1>1. /\ req' \in [Requests -> Request \cup {NoRequest}] /\ req'[r] = NoRequest
      /\ \A p \in Requests \ {r} : req'[p] = req[p]
  BY Finished DEF Inv
<1>2. \A p \in Requests :
        req'[p] # NoRequest =>
          /\ p # r /\ req'[p] = req[p] /\ req[p] \in Request
          /\ req[p].on \in Users /\ user[req[p].on] # NoRow
  BY <1>1 DEF Inv, TypeOK, RowsOK, Request
<1>3. \A p \in Requests : \A op : Busy(p, op)' => p # r /\ Busy(p, op) /\ req'[p] = req[p]
  BY <1>2 DEF Busy
<1>4. \A p \in Requests : \A op, v : BusyOn(p, op, v)' => p # r /\ BusyOn(p, op, v)
  BY <1>3 DEF BusyOn
<1>5. CallsOK'
  BY <1>3 DEF Inv, CallsOK
<1>6. OverlapsOK'
  BY <1>2, Ended DEF Inv
<1> QED BY <1>1, <1>2, <1>3, <1>4, <1>5, <1>6 DEF OthersGoOn

(* A mail has arrived.                                                     *)
LEMMA DeliveredInv ==
  ASSUME Inv, NEW r \in Requests, NEW op \in {"register", "resend", "forgot"},
         Running(r, op, "issue"), DeliverSMTP(LinkOf(req[r])), Finish(r),
         UNCHANGED <<user, session, used>>
  PROVE  Inv'
<1> USE IdentityAssumption, AbsenceAssumption DEF used
<1> DEFINE u == req[r].on
           x == LinkOf(req[r])
<1>1. OthersGoOn(r) /\ CallsOK' /\ OverlapsOK'
  BY OthersStay
<1> USE DEF OthersGoOn
<1>2. u \in Users /\ user[u] # NoRow /\ BusyOn(r, op, u)
  BY DEF Running, BusyOn, Busy, Inv, TypeOK, RowsOK, Request
<1>3. /\ x = <<u, IF op = "forgot" THEN "reset_password" ELSE "verify_email">>
      /\ link' = link \cup {x}
  BY DEF LinkOf, Running, DeliverSMTP
<1>4. TypeOK'
  BY <1>1, <1>2, <1>3 DEF Inv, TypeOK, Purposes
<1>5. RowsOK'
  BY <1>1, <1>2, <1>3 DEF Inv, RowsOK
<1>6. AdminsOK' /\ PasswordsOK'
  <2>1. ActiveAdmins' = ActiveAdmins
    BY DEF ActiveAdmins
  <2> QED BY <1>1, <2>1 DEF Inv, AdminsOK, PasswordsOK
<1>7. VerificationOK'
  <2> SUFFICES ASSUME Clean', NEW v \in Users
               PROVE  /\ user'[v] # NoRow /\ user'[v].verified =>
                           Closed(v)' /\ \A p \in Requests : ~BusyOn(p, "verify", v)'
                      /\ \A p \in Requests :
                           BusyOn(p, "verify", v)' =>
                             Closed(v)' /\ \A y \in Requests \ {p} : ~BusyOn(y, "verify", v)'
    BY DEF VerificationOK
  <2>1. Clean
    BY DEF Clean
  <2>2. ASSUME Closed(v) PROVE Closed(v)'
    <3>1. <<v, "verify_email">> # x
      BY <1>2, <1>3, <2>2 DEF Closed
    <3> QED BY <1>1, <1>3, <2>2, <3>1 DEF Closed
  <2> QED BY <1>1, <2>1, <2>2 DEF Inv, VerificationOK
<1> QED BY <1>1, <1>4, <1>5, <1>6, <1>7 DEF Inv

LEMMA ActivateInv ==
  ASSUME Inv, NEW r \in Requests, Running(r, "verify", "apply"), Finish(r),
         user' = [user EXCEPT ![req[r].on].status = "active", ![req[r].on].verified = TRUE],
         UNCHANGED <<link, session, used>>
  PROVE  Inv'
<1> USE IdentityAssumption, AbsenceAssumption DEF used
<1> DEFINE u == req[r].on
           row == [role |-> user[u].role, status |-> "active", verified |-> TRUE,
                   password |-> user[u].password]
<1>1. OthersGoOn(r) /\ CallsOK' /\ OverlapsOK'
  BY OthersStay
<1> USE DEF OthersGoOn
<1>2. u \in Users /\ user[u] \in Row /\ BusyOn(r, "verify", u)
      /\ user \in [Users -> Row \cup {NoRow}]
  BY DEF Running, BusyOn, Busy, Inv, TypeOK, RowsOK, Request
<1>3. row \in Row /\ row # NoRow /\ user' = [user EXCEPT ![u] = row]
  <2>1. row \in Row
    BY <1>2 DEF Row, Statuses
  <2>2. row # NoRow
    BY <2>1
  <2>3. DOMAIN user' = Users
    BY <1>2
  <2>4. \A v \in Users \ {u} : user'[v] = user[v]
    BY <1>2
  <2>5. user'[u] = [[user[u] EXCEPT !.status = "active"] EXCEPT !.verified = TRUE]
    BY <1>2
  <2>6. user'[u] = row
    BY <1>2, <2>5 DEF Row
  <2> HIDE DEF row
  <2> QED BY <1>2, <2>1, <2>2, <2>3, <2>4, <2>6
<1>4. /\ user'[u] = row /\ \A v \in Users \ {u} : user'[v] = user[v]
      /\ \A v \in Users : user[v] # NoRow => /\ user'[v] # NoRow
                                             /\ user'[v].password = user[v].password
  <2>1. user'[u] = row /\ \A v \in Users \ {u} : user'[v] = user[v]
    BY <1>2, <1>3
  <2>2. row.password = user[u].password
    OBVIOUS
  <2> QED BY <1>3, <2>1, <2>2
<1>5. TypeOK'
  BY <1>1, <1>2, <1>3 DEF Inv, TypeOK
<1>6. RowsOK'
  <2>1. \A s \in Sessions : session[s] # NoSession => session[s].user \in Users
    BY DEF Inv, TypeOK, Session
  <2> QED BY <1>1, <1>4, <2>1 DEF Inv, RowsOK
<1>7. AdminsOK'
  <2>1. ActiveAdmins \subseteq ActiveAdmins'
    <3>1. row.role = user[u].role /\ row.status = "active"
      OBVIOUS
    <3>2. ASSUME NEW v \in ActiveAdmins
          PROVE  user'[v] # NoRow /\ user'[v].role = "admin" /\ user'[v].status = "active"
      BY <1>3, <1>4, <3>1 DEF ActiveAdmins
    <3> QED BY <3>2 DEF ActiveAdmins
  <2>2. IsFiniteSet(ActiveAdmins')
    BY <1>2, <1>4, AdminsFinite DEF Inv, AdminsOK
  <2> QED BY <1>1, <2>1, <2>2 DEF Inv, AdminsOK
<1>8. PasswordsOK'
  <2>1. \A s \in Sessions : session[s] # NoSession =>
          session[s].user \in Users /\ user[session[s].user] # NoRow
    BY DEF Inv, TypeOK, RowsOK, Session
  <2>2. \A p \in Requests : Busy(p, "reauth")' =>
          req'[p] = req[p] /\ Busy(p, "reauth")
          /\ user'[req[p].on].password = user[req[p].on].password
    BY <1>1, <1>4 DEF Busy
  <2>3. \A p \in Requests : Busy(p, "login")' =>
          req'[p] = req[p] /\ Busy(p, "login")
          /\ user'[req[p].on].password = user[req[p].on].password
    BY <1>1, <1>4 DEF Busy
  <2>4. \A s \in Sessions : session[s] # NoSession =>
          user'[session[s].user].password = user[session[s].user].password
    BY <1>4, <2>1
  <2>5. session' = session /\ crossed' = crossed
    OBVIOUS
  <2>6. PasswordsOK
    BY DEF Inv
  <2>7. ASSUME NEW p \in Requests, Busy(p, "reauth")', session'[req'[p].session] # NoSession
        PROVE  /\ session'[req'[p].session].user = req'[p].on
               /\ req'[p].password = user'[req'[p].on].password
    <3>1. /\ req'[p] = req[p] /\ Busy(p, "reauth")
          /\ user'[req[p].on].password = user[req[p].on].password
      BY <2>2, <2>7
    <3>2. session[req[p].session] # NoSession
      BY <2>5, <2>7, <3>1
    <3>3. session[req[p].session].user = req[p].on /\ req[p].password = user[req[p].on].password
      BY <2>6, <3>1, <3>2 DEF PasswordsOK
    <3> QED BY <2>5, <3>1, <3>3
  <2>8. ASSUME {"login", "reset"} \notin crossed', NEW p \in Requests, Busy(p, "login")'
        PROVE  req'[p].password = user'[req'[p].on].password
    <3>1. /\ req'[p] = req[p] /\ Busy(p, "login")
          /\ user'[req[p].on].password = user[req[p].on].password
      BY <2>3, <2>8
    <3>2. req[p].password = user[req[p].on].password
      BY <2>5, <2>6, <2>8, <3>1 DEF PasswordsOK
    <3> QED BY <3>1, <3>2
  <2>9. ASSUME {"login", "reset"} \notin crossed', NEW s \in Sessions, session'[s] # NoSession
        PROVE  session'[s].password = user'[session'[s].user].password
    BY <2>4, <2>5, <2>6, <2>9 DEF PasswordsOK
  <2> QED BY <2>7, <2>8, <2>9 DEF PasswordsOK
<1>9. VerificationOK'
  <2> SUFFICES ASSUME Clean', NEW v \in Users
               PROVE  /\ user'[v] # NoRow /\ user'[v].verified =>
                           Closed(v)' /\ \A p \in Requests : ~BusyOn(p, "verify", v)'
                      /\ \A p \in Requests :
                           BusyOn(p, "verify", v)' =>
                             Closed(v)' /\ \A y \in Requests \ {p} : ~BusyOn(y, "verify", v)'
    BY DEF VerificationOK
  <2>1. Clean
    BY DEF Clean
  <2>2. Closed(v) => Closed(v)'
    BY <1>1 DEF Closed
  <2>3. CASE v = u
    <3>1. Closed(u) /\ \A p \in Requests \ {r} : ~BusyOn(p, "verify", u)
      BY <1>2, <2>1 DEF Inv, VerificationOK
    <3> QED BY <1>1, <2>2, <2>3, <3>1
  <2>4. CASE v # u
    BY <1>1, <1>4, <2>1, <2>2, <2>4 DEF Inv, VerificationOK
  <2> QED BY <2>3, <2>4
<1> QED BY <1>1, <1>5, <1>6, <1>7, <1>8, <1>9 DEF Inv

LEMMA ResetInv ==
  ASSUME Inv, NEW r \in Requests, Running(r, "reset", "apply"), Finish(r),
         UpdatePassword(req[r].on), resets < MaxResets, resets' = resets + 1,
         UNCHANGED <<link, crossed>>
  PROVE  Inv'
<1> USE IdentityAssumption, AbsenceAssumption
<1> DEFINE u == req[r].on
           row == [role |-> user[u].role, status |-> user[u].status,
                   verified |-> user[u].verified, password |-> user[u].password + 1]
<1>1. OthersGoOn(r) /\ CallsOK' /\ OverlapsOK'
  BY OthersStay
<1> USE DEF OthersGoOn
<1>2. u \in Users /\ user[u] \in Row /\ Busy(r, "reset")
      /\ user \in [Users -> Row \cup {NoRow}]
  BY DEF Running, Busy, Inv, TypeOK, RowsOK, Request
<1>3. row \in Row /\ row # NoRow /\ user' = [user EXCEPT ![u] = row]
  <2>1. row \in Row
    BY <1>2 DEF Row
  <2>2. row # NoRow
    BY <2>1
  <2>3. DOMAIN user' = Users /\ \A v \in Users \ {u} : user'[v] = user[v]
    BY <1>2 DEF UpdatePassword
  <2>4. user'[u] = [user[u] EXCEPT !.password = @ + 1]
    BY <1>2 DEF UpdatePassword
  <2>5. user'[u] = row
    BY <1>2, <2>4 DEF Row
  <2> HIDE DEF row
  <2>6. user' = [user EXCEPT ![u] = row]
    BY <1>2, <2>3, <2>5 DEF UpdatePassword
  <2> QED BY <2>1, <2>2, <2>6
<1>4. /\ user'[u] = row /\ \A v \in Users \ {u} : user'[v] = user[v]
      /\ \A v \in Users : user[v] # NoRow => user'[v] # NoRow
      /\ \A v \in Users : user'[v] # NoRow =>
           user[v] # NoRow /\ user'[v].verified = user[v].verified
  BY <1>2, <1>3
<1>5. /\ session' \in [Sessions -> Session \cup {NoSession}]
      /\ \A s \in Sessions : session'[s] # NoSession =>
           /\ session'[s] = session[s] /\ session[s].user # u
           /\ session[s].user \in Users /\ user[session[s].user] # NoRow
  BY DEF UpdatePassword, Inv, TypeOK, RowsOK, Session
<1>6. TypeOK'
  BY <1>1, <1>2, <1>3, <1>5 DEF Inv, TypeOK
<1>7. RowsOK'
  BY <1>1, <1>4, <1>5 DEF Inv, RowsOK
<1>8. AdminsOK'
  <2>1. ActiveAdmins' = ActiveAdmins
    <3>1. row.role = user[u].role /\ row.status = user[u].status
      OBVIOUS
    <3>2. user[u] # NoRow
      BY <1>2
    <3>3. ASSUME NEW v \in Users
          PROVE  /\ user'[v] # NoRow <=> user[v] # NoRow
                 /\ user[v] # NoRow => /\ user'[v].role = user[v].role
                                       /\ user'[v].status = user[v].status
      BY <1>3, <1>4, <3>1, <3>2
    <3> QED BY <3>3 DEF ActiveAdmins
  <2> QED BY <1>1, <2>1 DEF Inv, AdminsOK
<1>9. PasswordsOK'
  <2>1. ASSUME NEW p \in Requests, Busy(p, "reauth")', session'[req'[p].session] # NoSession
        PROVE  /\ session'[req'[p].session].user = req'[p].on
               /\ req'[p].password = user'[req'[p].on].password
    <3>1. Busy(p, "reauth") /\ req'[p] = req[p] /\ req[p].session \in Sessions
          /\ req[p].on \in Users
      BY <1>1, <2>1 DEF Inv, CallsOK, Busy
    <3>2. session'[req[p].session] = session[req[p].session]
          /\ session[req[p].session].user # u
      BY <1>5, <2>1, <3>1
    <3> QED BY <1>4, <2>1, <3>1, <3>2 DEF Inv, PasswordsOK
  <2>2. ASSUME {"login", "reset"} \notin crossed', NEW p \in Requests, Busy(p, "login")'
        PROVE  FALSE
    BY <1>1, <1>2, <2>2 DEF Inv, OverlapsOK
  <2>3. {"login", "reset"} \notin crossed' =>
          \A s \in Sessions :
            session'[s] # NoSession => session'[s].password = user'[session'[s].user].password
    BY <1>4, <1>5 DEF Inv, PasswordsOK
  <2> QED BY <2>1, <2>2, <2>3 DEF PasswordsOK
<1>10. VerificationOK'
  BY <1>1, <1>4 DEF Inv, VerificationOK, Closed, Clean
<1> QED BY <1>1, <1>6, <1>7, <1>8, <1>9, <1>10 DEF Inv

(* A session of `r', which nobody else is about to prove to somebody else. *)
Opened(r, t) ==
  /\ session' = [session EXCEPT ![t] =
       [user |-> req[r].on, password |-> req[r].password, recent |-> TRUE]]
  /\ UNCHANGED <<user, link, used>>
  /\ {"login", "reset"} \notin crossed => req[r].password = user[req[r].on].password
  /\ \A p \in Requests :
       p # r /\ Busy(p, "reauth") /\ req[p].session = t =>
         /\ req[p].on = req[r].on /\ req[p].password = req[r].password
         /\ req[p].password = user[req[p].on].password

LEMMA SessionInv ==
  ASSUME Inv, NEW r \in Requests, req[r] # NoRequest, Finish(r),
         NEW t \in Sessions, Opened(r, t)
  PROVE  Inv'
<1> USE IdentityAssumption, AbsenceAssumption DEF used, Opened
<1> DEFINE new == [user |-> req[r].on, password |-> req[r].password, recent |-> TRUE]
<1>1. OthersGoOn(r) /\ CallsOK' /\ OverlapsOK'
  BY OthersStay
<1> USE DEF OthersGoOn
<1>2. /\ req[r] \in Request /\ req[r].on \in Users /\ req[r].password \in Nat
      /\ user[req[r].on] # NoRow /\ session \in [Sessions -> Session \cup {NoSession}]
  BY DEF Inv, TypeOK, RowsOK, Request
<1>3. new \in Session /\ new.user = req[r].on /\ new.password = req[r].password
  BY <1>2 DEF Session
<1>4. session'[t] = new /\ \A s \in Sessions \ {t} : session'[s] = session[s]
  BY <1>2
<1> HIDE DEF new
<1>5. session' \in [Sessions -> Session \cup {NoSession}]
  BY <1>2, <1>3 DEF new
<1>6. TypeOK'
  BY <1>1, <1>5 DEF Inv, TypeOK
<1>7. RowsOK'
  <2>1. \A s \in Sessions : session'[s] # NoSession => user[session'[s].user] # NoRow
    BY <1>2, <1>3, <1>4 DEF Inv, RowsOK
  <2> QED BY <1>1, <2>1 DEF Inv, RowsOK
<1>8. AdminsOK'
  <2>1. ActiveAdmins' = ActiveAdmins
    BY DEF ActiveAdmins
  <2> QED BY <1>1, <2>1 DEF Inv, AdminsOK
<1>9. PasswordsOK'
  <2>1. ASSUME NEW p \in Requests, Busy(p, "reauth")', session'[req'[p].session] # NoSession
        PROVE  /\ session'[req'[p].session].user = req'[p].on
               /\ req'[p].password = user'[req'[p].on].password
    <3>1. p # r /\ req'[p] = req[p] /\ Busy(p, "reauth") /\ req[p].session \in Sessions
      BY <1>1, <2>1 DEF Inv, CallsOK
    <3>2. CASE req[p].session = t
      BY <1>3, <1>4, <3>1, <3>2
    <3>3. CASE req[p].session # t
      BY <1>4, <2>1, <3>1, <3>3 DEF Inv, PasswordsOK
    <3> QED BY <3>2, <3>3
  <2>2. ASSUME {"login", "reset"} \notin crossed', NEW p \in Requests, Busy(p, "login")'
        PROVE  req'[p].password = user'[req'[p].on].password
    <3>1. req'[p] = req[p] /\ Busy(p, "login")
      BY <1>1, <2>2
    <3> QED BY <2>2, <3>1 DEF Inv, PasswordsOK
  <2>3. ASSUME {"login", "reset"} \notin crossed', NEW s \in Sessions, session'[s] # NoSession
        PROVE  session'[s].password = user'[session'[s].user].password
    <3>1. CASE s = t
      BY <1>3, <1>4, <2>3, <3>1
    <3>2. CASE s # t
      BY <1>4, <2>3, <3>2 DEF Inv, PasswordsOK
    <3> QED BY <3>1, <3>2
  <2> QED BY <2>1, <2>2, <2>3 DEF PasswordsOK
<1>10. VerificationOK'
  BY <1>1 DEF Inv, VerificationOK, Closed, Clean
<1> QED BY <1>1, <1>6, <1>7, <1>8, <1>9, <1>10 DEF Inv

LEMMA LoginInv ==
  ASSUME Inv, NEW r \in Requests, Running(r, "login", "store"), Unused # {}, Finish(r),
         session' = [session EXCEPT ![CHOOSE s \in Unused : TRUE] =
           [user |-> req[r].on, password |-> req[r].password, recent |-> TRUE]],
         UNCHANGED <<user, link, used>>
  PROVE  Inv'
<1> DEFINE t == CHOOSE s \in Unused : TRUE
<1>1. t \in Unused
  OBVIOUS
<1> HIDE DEF t
<1>2. t \in Sessions /\ \A p \in Requests : req[p] # NoRequest => req[p].session # t
  BY <1>1 DEF Unused
<1>3. {"login", "reset"} \notin crossed => req[r].password = user[req[r].on].password
  BY DEF Inv, PasswordsOK, Running, Busy
<1>4. req[r] # NoRequest /\ \A p \in Requests : Busy(p, "reauth") => req[p].session # t
  BY <1>2 DEF Running, Busy
<1>5. Opened(r, t)
  BY <1>3, <1>4 DEF Opened, t
<1> QED BY <1>2, <1>4, <1>5, SessionInv

LEMMA ReauthInv ==
  ASSUME Inv, NEW r \in Requests, Running(r, "reauth", "mark"), Finish(r),
         MarkRecentAuth(req[r].session, req[r].on, req[r].password),
         UNCHANGED <<user, link, used>>
  PROVE  Inv'
<1> DEFINE t == req[r].session
<1>1. /\ req[r] # NoRequest /\ Busy(r, "reauth") /\ t \in Sessions
      /\ session \in [Sessions -> Session \cup {NoSession}]
  BY DEF Running, Busy, Inv, CallsOK, TypeOK
<1>2. CASE session[t] # NoSession
  <2>1. session' = [session EXCEPT ![t] =
          [user |-> req[r].on, password |-> req[r].password, recent |-> TRUE]]
    BY <1>1, <1>2 DEF MarkRecentAuth
  <2>2. \A p \in Requests :
          Busy(p, "reauth") /\ req[p].session = t =>
            /\ req[p].on = session[t].user /\ req[p].password = user[req[p].on].password
    BY <1>2 DEF Inv, PasswordsOK
  <2>3. req[r].on = session[t].user /\ req[r].password = user[req[r].on].password
    BY <1>1, <2>2
  <2>4. \A p \in Requests :
          Busy(p, "reauth") /\ req[p].session = t =>
            /\ req[p].on = req[r].on /\ req[p].password = req[r].password
            /\ req[p].password = user[req[p].on].password
    BY <2>2, <2>3
  <2>5. Opened(r, t)
    BY <2>1, <2>3, <2>4 DEF Opened
  <2> QED BY <1>1, <2>5, SessionInv
<1>3. CASE session[t] = NoSession
  <2>1. session' = session
    BY <1>1, <1>3 DEF MarkRecentAuth
  <2>2. Withdrawing(FirstAdmin) /\ FirstAdmin \in Users
    BY <2>1, IdentityAssumption DEF Withdrawing, Inv, TypeOK
  <2>3. /\ req' \in [Requests -> Request \cup {NoRequest}]
        /\ \A p \in Requests : req'[p] # NoRequest => req'[p] = req[p]
    BY Finished DEF Inv
  <2> QED BY <2>2, <2>3, WithdrawingInv DEF used
<1> QED BY <1>2, <1>3

(* The change goes on to a write only if it does not take the last active  *)
(* administrator away.                                                     *)
LEMMA CheckedInv ==
  ASSUME Inv, NEW r \in Requests, Busy(r, "update"), NEW at \in {"count", "write"},
         Goto(r, at), UNCHANGED <<user, link, session, used>>,
         {"update"} \notin crossed /\ at = "write" =>
           Spares(req[r].change) \/ ActiveAdmins \ {req[r].on} # {}
  PROVE  Inv'
<1> USE IdentityAssumption, AbsenceAssumption DEF used
<1> DEFINE next == [op |-> "update", at |-> at, on |-> req[r].on,
                    session |-> req[r].session, password |-> req[r].password,
                    change |-> req[r].change]
<1>1. /\ req[r] \in Request /\ req[r].op = "update" /\ req[r] # NoRequest
      /\ req \in [Requests -> Request \cup {NoRequest}]
  BY DEF Busy, Inv, TypeOK
<1>2. next \in Request /\ next # NoRequest /\ req' = [req EXCEPT ![r] = next]
  <2>1. next \in Request
    BY <1>1 DEF Request, Steps, Ops
  <2>2. next = [req[r] EXCEPT !.at = at]
    BY <1>1 DEF Request
  <2> HIDE DEF next
  <2> QED BY <2>1, <2>2 DEF Goto
<1>3. /\ req' \in [Requests -> Request \cup {NoRequest}] /\ req'[r] = next
      /\ \A p \in Requests \ {r} : req'[p] = req[p]
  BY <1>1, <1>2
<1>4. /\ \A p \in Requests : \A o : Busy(p, o)' <=> Busy(p, o)
      /\ \A p \in Requests : \A o, v : BusyOn(p, o, v)' <=> BusyOn(p, o, v)
  BY <1>1, <1>2, <1>3 DEF Busy, BusyOn
<1>5. \A p \in Requests : /\ req'[p] # NoRequest <=> req[p] # NoRequest
                          /\ req[p] # NoRequest =>
                               /\ req'[p].on = req[p].on /\ req'[p].op = req[p].op
                               /\ req'[p].session = req[p].session
                               /\ req'[p].password = req[p].password
                               /\ req'[p].change = req[p].change
  BY <1>1, <1>2, <1>3
<1>6. TypeOK'
  BY <1>3 DEF Inv, TypeOK
<1>7. RowsOK' /\ CallsOK' /\ OverlapsOK'
  <2>1. RowsOK'
    BY <1>5 DEF Inv, RowsOK
  <2>2. CallsOK'
    BY <1>5 DEF Inv, CallsOK, Busy
  <2>3. OverlapsOK'
    BY <1>5, Ended DEF Inv
  <2> QED BY <2>1, <2>2, <2>3
<1>8. AdminsOK'
  <2>1. ActiveAdmins' = ActiveAdmins
    BY DEF ActiveAdmins
  <2>2. ASSUME {"update"} \notin crossed, NEW p \in Requests, Busy(p, "update")',
               req'[p].at = "write"
        PROVE  Spares(req'[p].change) \/ ActiveAdmins \ {req'[p].on} # {}
    <3>1. CASE p = r
      BY <1>3, <2>2, <3>1
    <3>2. CASE p # r
      BY <1>3, <1>4, <2>2, <3>2 DEF Inv, AdminsOK
    <3> QED BY <3>1, <3>2
  <2> QED BY <2>1, <2>2 DEF Inv, AdminsOK
<1>9. PasswordsOK'
  <2>1. \A p \in Requests : \A o :
          Busy(p, o)' => /\ Busy(p, o) /\ req'[p].on = req[p].on
                         /\ req'[p].session = req[p].session
                         /\ req'[p].password = req[p].password
    BY <1>5 DEF Busy
  <2> QED BY <2>1 DEF Inv, PasswordsOK
<1>10. VerificationOK'
  BY <1>4 DEF Inv, VerificationOK, Closed, Clean
<1> QED BY <1>6, <1>7, <1>8, <1>9, <1>10 DEF Inv

(* GetUserByID: an administrator is left, and if the change takes one away *)
(* it does not go on to the write.                                         *)
LEMMA ReadInv ==
  ASSUME Inv, NEW r \in Requests, Running(r, "update", "read"),
         Goto(r, IF RemovesActiveAdmin(user[req[r].on], req[r].change)
                 THEN "count" ELSE "write"),
         UNCHANGED <<user, link, session, used>>
  PROVE  Inv'
<1> DEFINE u == req[r].on
           c == req[r].change
           at == IF RemovesActiveAdmin(user[u], c) THEN "count" ELSE "write"
<1>1. at \in {"count", "write"} /\ Busy(r, "update")
  BY DEF Running, Busy
<1>2. ASSUME {"update"} \notin crossed, at = "write"
      PROVE  Spares(c) \/ ActiveAdmins \ {u} # {}
  <2>1. ActiveAdmins # {}
    BY <1>2 DEF Inv, AdminsOK
  <2>2. ~RemovesActiveAdmin(user[u], c)
    BY <1>2
  <2>3. CASE u \in ActiveAdmins
    BY <2>2, <2>3 DEF RemovesActiveAdmin, ActiveAdmins, Spares
  <2>4. CASE u \notin ActiveAdmins
    BY <2>1, <2>4
  <2> QED BY <2>3, <2>4
<1> QED BY <1>1, <1>2, CheckedInv

(* ActiveAdminCount: more than one was counted.                            *)
LEMMA CountedInv ==
  ASSUME Inv, NEW r \in Requests, Running(r, "update", "count"),
         Cardinality(ActiveAdmins) > 1, Goto(r, "write"), UNCHANGED <<user, link, session, used>>
  PROVE  Inv'
<1>1. ActiveAdmins \ {req[r].on} # {}
  <2>1. SUFFICES ASSUME ActiveAdmins \subseteq {req[r].on} PROVE FALSE
    OBVIOUS
  <2>2. IsFiniteSet({req[r].on}) /\ Cardinality({req[r].on}) = 1
    BY FS_Singleton
  <2>3. Cardinality(ActiveAdmins) \in Nat /\ Cardinality(ActiveAdmins) <= 1
    BY <2>1, <2>2, FS_Subset, FS_CardinalityType DEF Inv, AdminsOK
  <2> QED BY <2>3
<1> QED BY <1>1, CheckedInv DEF Running, Busy

LEMMA UpdateInv ==
  ASSUME Inv, NEW r \in Requests, Running(r, "update", "write"), Finish(r),
         user' = [user EXCEPT ![req[r].on] = Changed(@, req[r].change)],
         UNCHANGED <<link, session, used>>
  PROVE  Inv'
<1> USE IdentityAssumption, AbsenceAssumption DEF used
<1> DEFINE u == req[r].on
           c == req[r].change
           row == Changed(user[u], c)
<1>1. OthersGoOn(r) /\ CallsOK' /\ OverlapsOK'
  BY OthersStay
<1> USE DEF OthersGoOn
<1>2. /\ u \in Users /\ user[u] \in Row /\ Busy(r, "update") /\ c \in Change
      /\ user \in [Users -> Row \cup {NoRow}] /\ req[r].at = "write"
  BY DEF Running, Busy, Inv, TypeOK, RowsOK, CallsOK, Request
<1>3. /\ row \in Row /\ row # NoRow
      /\ row.password = user[u].password /\ row.verified = user[u].verified
      /\ row.role = IF c.role = "keep" THEN user[u].role ELSE c.role
      /\ row.status = IF c.status = "keep" THEN user[u].status ELSE c.status
  <2>1. /\ user[u].role \in Roles /\ user[u].status \in Statuses
        /\ user[u].verified \in BOOLEAN /\ user[u].password \in Nat
        /\ c.role \in Roles \cup {"keep"} /\ c.status \in Statuses \cup {"keep"}
    BY <1>2 DEF Row, Change
  <2>2. /\ (IF c.role = "keep" THEN user[u].role ELSE c.role) \in Roles
        /\ (IF c.status = "keep" THEN user[u].status ELSE c.status) \in Statuses
    BY <2>1
  <2>3. row \in Row
    BY <1>2, <2>2 DEF Changed, Row
  <2> QED BY <1>2, <2>3 DEF Changed, Row
<1>4. user'[u] = row /\ \A v \in Users \ {u} : user'[v] = user[v]
  BY <1>2
<1> HIDE DEF row
<1>5. /\ user' \in [Users -> Row \cup {NoRow}]
      /\ \A v \in Users : user[v] # NoRow => /\ user'[v] # NoRow
                                             /\ user'[v].password = user[v].password
      /\ \A v \in Users : user'[v] # NoRow =>
           user[v] # NoRow /\ user'[v].verified = user[v].verified
  <2>1. user' \in [Users -> Row \cup {NoRow}]
    BY <1>2, <1>3 DEF row
  <2>2. user[u] # NoRow
    BY <1>2
  <2> QED BY <1>3, <1>4, <2>1, <2>2
<1>6. TypeOK'
  BY <1>1, <1>5 DEF Inv, TypeOK
<1>7. RowsOK'
  <2>1. \A s \in Sessions : session[s] # NoSession => session[s].user \in Users
    BY DEF Inv, TypeOK, Session
  <2> QED BY <1>1, <1>5, <2>1 DEF Inv, RowsOK
<1>8. AdminsOK'
  <2>1. IsFiniteSet(ActiveAdmins')
    BY <1>2, <1>4, AdminsFinite DEF Inv, AdminsOK
  <2>2. ASSUME {"update"} \notin crossed PROVE \A p \in Requests : ~Busy(p, "update")'
    BY <1>1, <1>2, <2>2 DEF Inv, OverlapsOK
  <2>3. ASSUME {"update"} \notin crossed PROVE ActiveAdmins' # {}
    <3>1. Spares(c) \/ ActiveAdmins \ {u} # {}
      BY <1>2, <2>3 DEF Inv, AdminsOK
    <3>2. ActiveAdmins # {}
      BY <2>3 DEF Inv, AdminsOK
    <3>3. CASE ActiveAdmins \ {u} # {}
      BY <1>4, <3>3 DEF ActiveAdmins
    <3>4. CASE Spares(c) /\ ActiveAdmins \ {u} = {}
      <4>1. u \in ActiveAdmins
        BY <3>2, <3>4
      <4>2. row.role = "admin" /\ row.status = "active"
        <5>1. c.role \in {"user", "admin", "keep"}
              /\ c.status \in {"pending", "active", "disabled", "keep"}
          BY <1>2 DEF Change, Roles, Statuses
        <5> QED BY <1>3, <3>4, <4>1, <5>1 DEF Spares, ActiveAdmins
      <4> QED BY <1>2, <1>3, <1>4, <4>2 DEF ActiveAdmins
    <3> QED BY <3>1, <3>3, <3>4
  <2> QED BY <2>1, <2>2, <2>3 DEF AdminsOK
<1>9. PasswordsOK'
  <2>1. \A s \in Sessions : session[s] # NoSession =>
          user'[session[s].user].password = user[session[s].user].password
    BY <1>5 DEF Inv, TypeOK, RowsOK, Session
  <2>2. session' = session /\ crossed' = crossed
    OBVIOUS
  <2>3. ASSUME NEW p \in Requests, Busy(p, "reauth")', session'[req'[p].session] # NoSession
        PROVE  /\ session'[req'[p].session].user = req'[p].on
               /\ req'[p].password = user'[req'[p].on].password
    <3>1. /\ req'[p] = req[p] /\ Busy(p, "reauth")
          /\ user'[req[p].on].password = user[req[p].on].password
      BY <1>1, <1>5, <2>3 DEF Busy
    <3>2. session[req[p].session] # NoSession
      BY <2>2, <2>3, <3>1
    <3>3. session[req[p].session].user = req[p].on /\ req[p].password = user[req[p].on].password
      BY <3>1, <3>2 DEF Inv, PasswordsOK
    <3> QED BY <2>2, <3>1, <3>3
  <2>4. ASSUME {"login", "reset"} \notin crossed', NEW p \in Requests, Busy(p, "login")'
        PROVE  req'[p].password = user'[req'[p].on].password
    <3>1. /\ req'[p] = req[p] /\ Busy(p, "login")
          /\ user'[req[p].on].password = user[req[p].on].password
      BY <1>1, <1>5, <2>4 DEF Busy
    <3>2. req[p].password = user[req[p].on].password
      BY <2>2, <2>4, <3>1 DEF Inv, PasswordsOK
    <3> QED BY <3>1, <3>2
  <2>5. ASSUME {"login", "reset"} \notin crossed', NEW s \in Sessions, session'[s] # NoSession
        PROVE  session'[s].password = user'[session'[s].user].password
    <3>1. session[s].password = user[session[s].user].password
      BY <2>2, <2>5 DEF Inv, PasswordsOK
    <3> QED BY <2>1, <2>2, <2>5, <3>1
  <2> QED BY <2>3, <2>4, <2>5 DEF PasswordsOK
<1>10. VerificationOK'
  <2>1. \A v \in Users : Closed(v) => Closed(v)'
    BY <1>1 DEF Closed
  <2>2. Clean' => Clean
    BY DEF Clean
  <2> QED BY <1>1, <1>5, <2>1, <2>2 DEF Inv, VerificationOK
<1> QED BY <1>1, <1>6, <1>7, <1>8, <1>9, <1>10 DEF Inv

-----------------------------------------------------------------------------
(* The next-state relation.                                                *)

(* A request that is over leaves the rest of the invariant as it was.      *)
LEMMA BreakInv ==
  ASSUME Inv, NEW r \in Requests, Break(r), UNCHANGED <<user, session>>, link' \subseteq link
  PROVE  Inv'
<1>1. Withdrawing(FirstAdmin) /\ FirstAdmin \in Users
  BY IdentityAssumption DEF Withdrawing, Inv, TypeOK
<1>2. /\ req' \in [Requests -> Request \cup {NoRequest}]
      /\ \A p \in Requests : req'[p] # NoRequest => req'[p] = req[p]
  BY Finished DEF Inv, Break
<1> QED BY <1>1, <1>2, WithdrawingInv DEF Break, used

(* Steps of no request.                                                    *)
LEMMA QuietInv ==
  ASSUME Inv, NEW u \in Users, Withdrawing(u), UNCHANGED <<req, used>>
  PROVE  Inv'
<1>1. req' \in [Requests -> Request \cup {NoRequest}]
  BY DEF Inv, TypeOK
<1> QED BY <1>1, WithdrawingInv DEF used

LEMMA ContinueInv ==
  ASSUME Inv, NEW r \in Requests, Continue(r)
  PROVE  Inv'
<1>1. CASE SendLink(r)
  BY <1>1, DeliveredInv, BreakInv DEF SendLink, ReplaceOneTimeToken
<1>2. CASE ActivateUser(r)
  BY <1>2, ActivateInv, BreakInv DEF ActivateUser
<1>3. CASE FinishReset(r)
  BY <1>3, ResetInv, BreakInv DEF FinishReset
<1>4. CASE CreateSession(r)
  BY <1>4, LoginInv, BreakInv DEF CreateSession
<1>5. CASE FinishReauth(r)
  BY <1>5, ReauthInv, BreakInv DEF FinishReauth
<1>6. CASE ActiveAdminCount(r)
  BY <1>6, CountedInv, BreakInv DEF ActiveAdminCount, Break
<1>7. CASE UpdateUserAdmin(r)
  BY <1>7, UpdateInv, BreakInv DEF UpdateUserAdmin
<1>8. CASE GetUserByID(r)
  BY <1>8, ReadInv, BreakInv DEF GetUserByID, Break
<1> QED BY <1>1, <1>2, <1>3, <1>4, <1>5, <1>6, <1>7, <1>8 DEF Continue

(* A call that has not yet added anything to what it was given.            *)
LEMMA Calls ==
  ASSUME NEW op \in Ops, NEW at \in Steps, NEW u \in Users
  PROVE  /\ Call(op, at, u) \in Request
         /\ Call(op, at, u).op = op /\ Call(op, at, u).at = at /\ Call(op, at, u).on = u
BY DEF Call, Request

LEMMA StartInv ==
  ASSUME Inv, NEW r \in Requests, Start(r)
  PROVE  Inv'
<1> USE IdentityAssumption, AbsenceAssumption
<1>1. /\ user \in [Users -> Row \cup {NoRow}] /\ session \in [Sessions -> Session \cup {NoSession}]
      /\ link \subseteq Users \X Purposes
  BY DEF Inv, TypeOK
<1>2. ASSUME NEW u \in Users, Register(r, u) PROVE Inv'
  <2> DEFINE q == Call("register", "issue", u)
  <2>1. q \in Request /\ q.op = "register" /\ q.on = u
    BY Calls DEF Ops, Steps
  <2>2. /\ user[u] = NoRow /\ user' = [user EXCEPT ![u] = NewRow("user", "pending")]
        /\ Begin(r, q) /\ UNCHANGED <<link, session>>
    BY <1>2 DEF Register
  <2>3. /\ NewRow("user", "pending") \in Row /\ NewRow("user", "pending") # NoRow
        /\ ~NewRow("user", "pending").verified
    BY NewRows DEF Roles, Statuses
  <2>4. Withdrawing(u)
    BY <1>1, <2>2, <2>3 DEF Withdrawing
  <2>5. Founded(q)
    BY <1>1, <2>1, <2>2, <2>3 DEF Founded
  <2> QED BY <2>1, <2>2, <2>4, <2>5, BeginInv
<1>3. Withdrawing(FirstAdmin) \/ ~UNCHANGED <<user, link, session>>
  BY <1>1 DEF Withdrawing
<1>4. ASSUME NEW u \in Users, ResendVerification(r, u) PROVE Inv'
  <2> DEFINE q == Call("resend", "issue", u)
  <2>1. q \in Request /\ q.op = "resend" /\ q.on = u
    BY Calls DEF Ops, Steps
  <2>2. Begin(r, q) /\ Withdrawing(FirstAdmin)
    BY <1>3, <1>4 DEF ResendVerification
  <2>3. Founded(q)
    BY <1>4, <2>1 DEF ResendVerification, AwaitsVerification, Founded
  <2> QED BY <2>1, <2>2, <2>3, BeginInv
<1>5. ASSUME NEW u \in Users, ForgotPassword(r, u) PROVE Inv'
  <2> DEFINE q == Call("forgot", "issue", u)
  <2>1. q \in Request /\ q.op = "forgot" /\ q.on = u
    BY Calls DEF Ops, Steps
  <2>2. Begin(r, q) /\ Withdrawing(FirstAdmin)
    BY <1>3, <1>5 DEF ForgotPassword
  <2>3. Founded(q)
    BY <1>5, <2>1 DEF ForgotPassword, Founded
  <2> QED BY <2>1, <2>2, <2>3, BeginInv
<1>6. ASSUME NEW u \in Users, VerifyEmail(r, u) PROVE Inv'
  <2> DEFINE q == Call("verify", "apply", u)
  <2>1. q \in Request /\ q.op = "verify" /\ q.on = u
    BY Calls DEF Ops, Steps
  <2>2. /\ Begin(r, q) /\ UNCHANGED <<user, session>>
        /\ <<u, "verify_email">> \in link /\ link' = link \ {<<u, "verify_email">>}
    BY <1>6 DEF VerifyEmail, ConsumeOneTimeToken
  <2>3. Withdrawing(FirstAdmin)
    BY <1>1, <2>2 DEF Withdrawing
  <2>4. user[u] # NoRow
    BY <2>2 DEF Inv, RowsOK, Purposes
  <2>5. Founded(q)
    BY <2>1, <2>2, <2>4 DEF Founded
  <2> QED BY <2>1, <2>2, <2>3, <2>5, BeginInv
<1>7. ASSUME NEW u \in Users, ResetPassword(r, u) PROVE Inv'
  <2> DEFINE q == Call("reset", "apply", u)
  <2>1. q \in Request /\ q.op = "reset" /\ q.on = u
    BY Calls DEF Ops, Steps
  <2>2. /\ Begin(r, q) /\ UNCHANGED <<user, session>>
        /\ <<u, "reset_password">> \in link /\ link' = link \ {<<u, "reset_password">>}
    BY <1>7 DEF ResetPassword, ConsumeOneTimeToken
  <2>3. Withdrawing(FirstAdmin)
    BY <1>1, <2>2 DEF Withdrawing
  <2>4. user[u] # NoRow
    BY <2>2 DEF Inv, RowsOK, Purposes
  <2>5. Founded(q)
    BY <2>1, <2>2, <2>4 DEF Founded
  <2> QED BY <2>1, <2>2, <2>3, <2>5, BeginInv
<1>8. ASSUME NEW u \in Users, Login(r, u) PROVE Inv'
  <2> DEFINE q == [Call("login", "store", u) EXCEPT !.password = user[u].password]
  <2>1. /\ user[u] # NoRow /\ Begin(r, q) /\ Withdrawing(FirstAdmin)
        /\ UNCHANGED user
    BY <1>3, <1>8 DEF Login
  <2>2. user[u].password \in Nat
    BY <1>1, <2>1 DEF Row
  <2>3. /\ q \in Request /\ q.op = "login" /\ q.on = u /\ q.password = user[u].password
    BY <2>2 DEF Call, Request, Ops, Steps
  <2>4. Founded(q)
    BY <2>1, <2>3 DEF Founded
  <2> QED BY <2>1, <2>3, <2>4, BeginInv
<1>9. ASSUME NEW s \in Sessions, Reauth(r, s) PROVE Inv'
  <2> DEFINE u == session[s].user
             q == [Call("reauth", "mark", u) EXCEPT !.session = s, !.password = Owner(s).password]
  <2>1. /\ session[s] # NoSession /\ Begin(r, q) /\ Withdrawing(FirstAdmin) /\ UNCHANGED user
    BY <1>3, <1>9 DEF Reauth, Principal
  <2>2. u \in Users /\ user[u] # NoRow
    BY <1>1, <2>1 DEF Session, Inv, RowsOK
  <2>3. user[u].password \in Nat
    BY <1>1, <2>2 DEF Row
  <2>4. /\ q \in Request /\ q.op = "reauth" /\ q.on = u /\ q.session = s
        /\ q.password = user[u].password
    BY <2>2, <2>3 DEF Call, Request, Ops, Steps, Owner
  <2>5. Founded(q)
    BY <2>1, <2>2, <2>4 DEF Founded
  <2> QED BY <2>1, <2>4, <2>5, BeginInv
<1>10. ASSUME NEW s \in Sessions, NEW u \in Users, NEW c \in Changes, AdminUpdateUser(r, s, u, c)
       PROVE  Inv'
  <2> DEFINE q == [Call("update", "read", u) EXCEPT !.change = c]
  <2>1. /\ user[u] # NoRow /\ Begin(r, q) /\ Withdrawing(FirstAdmin) /\ UNCHANGED user
    BY <1>3, <1>10 DEF AdminUpdateUser
  <2>2. /\ q \in Request /\ q.op = "update" /\ q.on = u /\ q.change = c /\ q.at = "read"
    BY DEF Call, Request, Steps, Ops
  <2>3. Founded(q)
    BY <2>1, <2>2 DEF Founded
  <2> QED BY <2>1, <2>2, <2>3, BeginInv
<1> QED BY <1>2, <1>4, <1>5, <1>6, <1>7, <1>8, <1>9, <1>10 DEF Start

LEMMA OtherInv ==
  ASSUME Inv, Other
  PROVE  Inv'
<1> USE IdentityAssumption, AbsenceAssumption
<1>1. /\ user \in [Users -> Row \cup {NoRow}] /\ session \in [Sessions -> Session \cup {NoSession}]
      /\ link \subseteq Users \X Purposes
  BY DEF Inv, TypeOK
<1>2. ASSUME NEW x \in Users \X Purposes, ExpireLink(x) PROVE Inv'
  <2>1. Withdrawing(FirstAdmin)
    BY <1>1, <1>2 DEF ExpireLink, Withdrawing
  <2> QED BY <1>2, <2>1, QuietInv DEF ExpireLink
<1>3. ASSUME NEW s \in Sessions, Logout(s) \/ ExpireSession(s) PROVE Inv'
  <2>1. Withdrawing(FirstAdmin)
    BY <1>1, <1>3 DEF Logout, ExpireSession, Withdrawing
  <2> QED BY <1>3, <2>1, QuietInv DEF Logout, ExpireSession
<1>4. ASSUME NEW s \in Sessions, RecentAuthPasses(s) PROVE Inv'
  <2> DEFINE stale == [session[s] EXCEPT !.recent = FALSE]
  <2>1. /\ session[s] \in Session /\ UNCHANGED <<user, link, req, used>>
        /\ session' = [session EXCEPT ![s] = stale]
    BY <1>1, <1>4 DEF RecentAuthPasses
  <2>2. stale \in Session /\ stale.user = session[s].user /\ stale.password = session[s].password
    BY <2>1 DEF Session
  <2> HIDE DEF stale
  <2>3. session[s] # NoSession
    BY <1>4 DEF RecentAuthPasses
  <2>4. Withdrawing(FirstAdmin)
    BY <1>1, <2>1, <2>2, <2>3 DEF Withdrawing
  <2> QED BY <2>1, <2>4, QuietInv
<1>5. ASSUME NEW u \in Users, NEW role \in Roles, user[u] = NoRow,
             user' = [user EXCEPT ![u] = NewRow(role, "active")],
             UNCHANGED <<link, session, req, used>>
      PROVE  Inv'
  <2>1. NewRow(role, "active") \in Row
    BY NewRows DEF Statuses
  <2>2. Withdrawing(u)
    BY <1>1, <1>5, <2>1 DEF Withdrawing
  <2> QED BY <1>5, <2>2, QuietInv
<1>6. "admin" \in Roles
  BY DEF Roles
<1> QED BY <1>2, <1>3, <1>4, <1>5, <1>6 DEF Other, AdminCreateUser, RunAdmin

LEMMA Inductive == Inv /\ [Next]_vars => Inv'
<1> SUFFICES ASSUME Inv, [Next]_vars PROVE Inv'
  OBVIOUS
<1>1. CASE UNCHANGED vars
  <2>1. Withdrawing(FirstAdmin) /\ FirstAdmin \in Users
    BY <1>1, IdentityAssumption DEF vars, Withdrawing, Inv, TypeOK
  <2> QED BY <1>1, <2>1, QuietInv DEF vars
<1>2. CASE Next
  BY <1>2, StartInv, ContinueInv, OtherInv DEF Next
<1> QED BY <1>1, <1>2

LEMMA Invariance == Spec => []Inv
BY Initially, Inductive, PTL DEF Spec

-----------------------------------------------------------------------------
(* Theorems.                                                               *)

(* Rows, links, sessions and requests keep their types, whichever requests *)
(* overlap and fail.                                                       *)
THEOREM TypeCorrect == Spec => []TypeOK
<1>1. Inv => TypeOK
  BY DEF Inv
<1> QED BY <1>1, Invariance, PTL

(* An active administrator is left as long as no two changes by            *)
(* administrators overlap (adminUpdateUser).                               *)
THEOREM AdminStays == Spec => []AdminRemains
<1>1. Inv => AdminRemains
  BY DEF Inv, AdminsOK, AdminRemains, LastAdminKept
<1> QED BY <1>1, Invariance, PTL

(* Every session rests on its user's password as it is now, unless a login *)
(* overlaps a reset (login, reauth, UpdatePassword, MarkRecentAuth).       *)
THEOREM SessionsMatch == Spec => []SessionsMatchPassword
<1>1. Inv => SessionsMatchPassword
  BY DEF Inv, PasswordsOK, SessionsMatchPassword, Owner
<1> QED BY <1>1, Invariance, PTL

(* Nobody but an administrator lets a disabled user who has once been      *)
(* verified back in, unless a link was mailed or asked for during a        *)
(* verification (ActivateUser).                                            *)
THEOREM DisabledStay == Spec => DisabledStaysOut
<1> DEFINE Out ==
      \A u \in Users :
        /\ {{"register", "verify"}, {"resend", "verify"}} \cap crossed = {}
        /\ user[u] # NoRow /\ user[u].status = "disabled" /\ user[u].verified
        /\ user'[u].status # "disabled"
        => ChangedByAdmin(u)
<1>1. ASSUME Inv, [Next]_vars PROVE [Out]_vars
  <2> SUFFICES ASSUME Next, NEW u \in Users, Clean, user[u] # NoRow,
                      user[u].status = "disabled", user[u].verified,
                      user'[u].status # "disabled"
               PROVE  ChangedByAdmin(u)
    BY <1>1 DEF Clean
  <2>1. user \in [Users -> Row \cup {NoRow}] /\ user[u] \in Row
    BY <1>1 DEF Inv, TypeOK
  <2>2. user'[u] # user[u]
    OBVIOUS
  <2>3. ASSUME NEW r \in Requests, ActivateUser(r) PROVE FALSE
    <3>1. Running(r, "verify", "apply") /\ req[r].on = u
      BY <2>1, <2>2, <2>3 DEF ActivateUser
    <3>2. BusyOn(r, "verify", u)
      BY <3>1 DEF Running, BusyOn, Busy
    <3> QED BY <1>1, <3>2 DEF Inv, VerificationOK
  <2>4. ASSUME NEW r \in Requests, UpdateUserAdmin(r) PROVE ChangedByAdmin(u)
    <3>1. Running(r, "update", "write") /\ req[r].on = u
      BY <2>1, <2>2, <2>4 DEF UpdateUserAdmin
    <3> QED BY <3>1 DEF ChangedByAdmin
  <2>5. ASSUME NEW r \in Requests, FinishReset(r) PROVE FALSE
    <3>1. CASE UNCHANGED user
      BY <2>2, <3>1
    <3>2. CASE UpdatePassword(req[r].on)
      <4>1. user'[u].status = user[u].status
        BY <2>1, <3>2 DEF UpdatePassword, Row
      <4> QED BY <4>1
    <3> QED BY <2>5, <3>1, <3>2 DEF FinishReset
  <2>6. ASSUME NEW v \in Users, NEW row, user[v] = NoRow, user' = [user EXCEPT ![v] = row]
        PROVE  FALSE
    BY <2>1, <2>2, <2>6
  <2>7. CASE UNCHANGED user
    BY <2>2, <2>7
  <2>8. ASSUME NEW r \in Requests, Start(r) PROVE FALSE
    BY <2>6, <2>7, <2>8
       DEF Start, Register, ResendVerification, ForgotPassword, VerifyEmail, ResetPassword,
           Login, Reauth, AdminUpdateUser
  <2>9. ASSUME NEW r \in Requests, Continue(r) PROVE ChangedByAdmin(u)
    BY <2>3, <2>4, <2>5, <2>7, <2>9
       DEF Continue, SendLink, CreateSession, FinishReauth, GetUserByID, ActiveAdminCount
  <2>10. ASSUME Other PROVE FALSE
    BY <2>6, <2>7, <2>10
       DEF Other, ExpireLink, Logout, ExpireSession, RecentAuthPasses, AdminCreateUser,
           RunAdmin
  <2> QED BY <2>8, <2>9, <2>10 DEF Next
<1> QED BY <1>1, Invariance, PTL DEF Spec, DisabledStaysOut
=============================================================================
