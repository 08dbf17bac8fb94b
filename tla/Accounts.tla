------------------------------ MODULE Accounts ------------------------------
(***************************************************************************)
(* The accounts of the web application: login and lockout (web/auth.py),   *)
(* administration (web/routes/admin_users.py), the user's own password     *)
(* change (web/routes/profile.py) and the bootstrap script                 *)
(* (scripts/create_admin.py).                                              *)
(*                                                                         *)
(* A handler is one request, or one execution of the script: the           *)
(* deployment has two web processes, each with a thread pool.  It resolves *)
(* its user from the session cookie, loads the rows it works on, computes, *)
(* and commits; other handlers may commit between any two of these.  The   *)
(* ORM writes only the columns that differ from what was loaded.  Postgres *)
(* keeps usernames unique and grants attached to users.                    *)
(* Passwords, names and timestamps do not matter here, except for whether  *)
(* locked_until lies ahead and how a password came about.                  *)
(***************************************************************************)
EXTENDS Naturals

CONSTANTS
  Handler, Name, Company, None,
  MaxUsers,     \* bound: accounts ever created
  MaxFailed,    \* _MAX_USER_FAILED
  MaxRequests   \* bound: requests in one behaviour

ASSUME AccountBounds ==
  MaxUsers \in Nat \ {0} /\ MaxFailed \in Nat \ {0} /\ MaxRequests \in Nat
ASSUME NoneIsNoName == None \notin Name

User == 1 .. MaxUsers
Role == {"admin", "supervisor", "operator"}

VARIABLES
  users,    \* users[u]: the row of account u
  access,   \* access[u][c]: the permission of u's row for company c
  born,     \* the accounts created so far
  cookies,  \* the accounts some browser holds a session cookie of
  secret,   \* secret[u]: how u's present password came about
  req,      \* req[h]: the request handler h works on
  raced,    \* an administrator was removed by somebody who no longer was one
  requests

vars == <<users, access, born, cookies, secret, req, raced, requests>>

Row == [name : Name, role : Role, active : BOOLEAN, fails : 0 .. MaxFailed - 1,
        lock : {"no", "past", "ahead"}, must : BOOLEAN]
NoRow == [name |-> None]

Permission == {"view", "crud"}

\* A password may be one to be changed (forced) or not (free); `crossed` is one
\* stored by a request that left must_change_password alone, having loaded it as
\* it wanted it, while another request had changed it.
Secret == {"free", "forced", "crossed"}

\* by, target: the acting and the affected account.  mine: the row of `by` as
\* authorised.  seen, new: the row of `target` as loaded, and as it is to be.
\* sets: the kind of password that goes with it.
NoReq == [pc |-> "idle", kind |-> "none", by |-> 0, target |-> 0,
          mine |-> NoRow, seen |-> NoRow, new |-> NoRow, company |-> None,
          had |-> "none", perm |-> "none", sets |-> "none"]

AdminKind == {"create", "update", "unlock", "delete", "grant", "revoke"}

Request == [pc : {"idle", "authorised", "ready"},
            kind : AdminKind \cup {"none", "login", "password", "script"},
            by : 0 .. MaxUsers, target : 0 .. MaxUsers,
            mine : Row \cup {NoRow}, seen : Row \cup {NoRow}, new : Row \cup {NoRow},
            company : Company \cup {None}, had : Permission \cup {"none"},
            perm : Permission \cup {"none"}, sets : {"none", "free", "forced"}]

TypeOK ==
  /\ users  \in [User -> Row \cup {NoRow}]
  /\ access \in [User -> [Company -> Permission \cup {"none"}]]
  /\ born \in 0 .. MaxUsers /\ cookies \subseteq 1 .. born
  /\ secret \in [User -> Secret]
  /\ req \in [Handler -> Request]
  /\ raced \in BOOLEAN
  /\ requests \in 0 .. MaxRequests

Exists(u)  == u \in User /\ users[u] # NoRow
IsAdmin(u) == Exists(u) /\ users[u].role = "admin" /\ users[u].active

Fresh(n, r, must) ==
  [name |-> n, role |-> r, active |-> TRUE, fails |-> 0, lock |-> "no", must |-> must]

\* The password that a row comes with when it is inserted.
SecretOf(row) == IF row.must THEN "forced" ELSE "free"

\* After create_admin.py, and whoever that administrator created.
Init ==
  /\ born \in 1 .. MaxUsers
  /\ \E name \in [User -> Name], role \in [User -> Role], must \in [User -> BOOLEAN] :
       /\ role[1] = "admin" /\ ~must[1]
       /\ \A u, v \in 1 .. born : u # v => name[u] # name[v]
       /\ users = [u \in User |-> IF u <= born THEN Fresh(name[u], role[u], must[u]) ELSE NoRow]
  /\ secret = [u \in User |-> IF u <= born THEN SecretOf(users[u]) ELSE "free"]
  /\ access = [u \in User |-> [c \in Company |-> "none"]]
  /\ cookies \in SUBSET (1 .. born)
  /\ req = [h \in Handler |-> NoReq]
  /\ raced = FALSE /\ requests = 0

-----------------------------------------------------------------------------
(***************************************************************************)
(* Building blocks.                                                        *)
(***************************************************************************)

Begin(h)  == req[h].pc = "idle" /\ requests < MaxRequests /\ requests' = requests + 1
Answer(h) == req' = [req EXCEPT ![h] = NoReq]

\* Plausible bug: the row is written as a whole.
WrittenWhole(old, seen, new) == new

\* The UPDATE of a flush: the columns whose value differs from the loaded one.
Written(old, seen, new) ==
  [f \in DOMAIN old |-> IF new[f] # seen[f] THEN new[f] ELSE old[f]]

\* The unique constraint on users.username.
NameFree(n) == \A u \in User : users[u].name # n

\* Plausible bug: without the constraint.
InsertUnchecked(row) ==
  /\ born < MaxUsers
  /\ users'  = [users EXCEPT ![born + 1] = row]
  /\ secret' = [secret EXCEPT ![born + 1] = SecretOf(row)]
  /\ born'   = born + 1

\* A free id for an INSERT into users.
Insert(row) ==
  /\ NameFree(row.name) /\ born < MaxUsers
  /\ users'  = [users EXCEPT ![born + 1] = row]
  /\ secret' = [secret EXCEPT ![born + 1] = SecretOf(row)]
  /\ born'   = born + 1

\* What becomes of the password of the account that request q writes to.
SecretAfter(q) ==
  CASE q.sets = "none" -> secret[q.target]
    [] q.sets # "none" /\ q.new.must = q.seen.must /\ users[q.target].must # q.seen.must -> "crossed"
    [] OTHER -> q.sets

\* An UPDATE of users, of no row when the account is gone.
Update(q) ==
  IF Exists(q.target)
  THEN /\ users'  = [users EXCEPT ![q.target] = Written(@, q.seen, q.new)]
       /\ secret' = [secret EXCEPT ![q.target] = SecretAfter(q)]
  ELSE UNCHANGED <<users, secret>>

-----------------------------------------------------------------------------
(***************************************************************************)
(* Login.                                                                  *)
(***************************************************************************)

\* Plausible bug: the count goes on after the account was locked.
FailedOnNoReset(row) ==
  [row EXCEPT !.fails = IF row.fails + 1 >= MaxFailed THEN MaxFailed ELSE row.fails + 1,
              !.lock  = IF row.fails + 1 >= MaxFailed THEN "ahead" ELSE @]

\* A wrong password: the MaxFailed'th locks the account and restarts the count.
FailedOn(row) ==
  IF row.fails + 1 >= MaxFailed
  THEN [row EXCEPT !.fails = 0, !.lock = "ahead"]
  ELSE [row EXCEPT !.fails = row.fails + 1]

\* A right one: both columns are cleared.
Cleared(row) == [row EXCEPT !.fails = 0, !.lock = "no"]

\* login_submit up to the password check: an unknown, inactive or locked
\* account is refused.
LoginLoads(h, u) ==
  /\ Begin(h)
  /\ Exists(u) /\ users[u].active
  /\ IF users[u].lock = "ahead" THEN UNCHANGED req
     ELSE \E row \in {FailedOn(users[u]), Cleared(users[u])} :
            req' = [req EXCEPT ![h] = [NoReq EXCEPT !.pc = "ready", !.kind = "login",
                      !.target = u, !.seen = users[u], !.new = row,
                      !.by = IF row = Cleared(users[u]) THEN u ELSE 0]]
  /\ UNCHANGED <<users, access, born, cookies, secret, raced>>

\* GET /logout.
Logout(u) ==
  /\ u \in cookies
  /\ cookies' = cookies \ {u}
  /\ UNCHANGED <<users, access, born, secret, req, raced, requests>>

\* locked_until passes.
LockExpires(u) ==
  /\ Exists(u) /\ users[u].lock = "ahead"
  /\ users' = [users EXCEPT ![u] = [@ EXCEPT !.lock = "past"]]
  /\ UNCHANGED <<access, born, cookies, secret, req, raced, requests>>

-----------------------------------------------------------------------------
(***************************************************************************)
(* The user's own password.                                                *)
(***************************************************************************)

\* Plausible bug: the flag stays.
ChosenKeepsMust(row) == row

\* The row of somebody who has chosen a password.
Chosen(row) == [row EXCEPT !.must = FALSE]

\* get_current_user, then change_password: answered at once when the present
\* password is wrong or the new one unfit.
PasswordLoads(h, u) ==
  /\ Begin(h) /\ u \in cookies
  /\ IF Exists(u) /\ users[u].active
     THEN /\ \/ UNCHANGED req
             \/ req' = [req EXCEPT ![h] = [NoReq EXCEPT !.pc = "ready", !.kind = "password",
                         !.target = u, !.seen = users[u], !.new = Chosen(users[u]),
                         !.sets = "free"]]
          /\ UNCHANGED cookies
     ELSE cookies' = cookies \ {u} /\ UNCHANGED req
  /\ UNCHANGED <<users, access, born, secret, raced>>

-----------------------------------------------------------------------------
(***************************************************************************)
(* Administration.                                                         *)
(***************************************************************************)

\* get_current_user and require_role("admin"): the cookie of an account that
\* is gone or disabled is cleared (401); anybody else is refused (403).
Authorise(h, by) ==
  /\ Begin(h) /\ by \in cookies
  /\ IF IsAdmin(by)
     THEN /\ \E k \in AdminKind :
               req' = [req EXCEPT ![h] = [NoReq EXCEPT !.pc = "authorised", !.kind = k,
                                                       !.by = by, !.mine = users[by]]]
          /\ UNCHANGED cookies
     ELSE /\ cookies' = IF Exists(by) /\ users[by].active THEN cookies ELSE cookies \ {by}
          /\ UNCHANGED req
  /\ UNCHANGED <<users, access, born, secret, raced>>

\* The row of account u in the handler's ORM session, which returns the very
\* object it authorised when u is the acting administrator.
Loaded(h, u) == IF u = req[h].by THEN req[h].mine ELSE users[u]

Loads(h, k) ==
  /\ req[h].pc = "authorised" /\ req[h].kind = k
  /\ UNCHANGED <<users, access, born, cookies, secret, raced, requests>>

\* Ready to commit `new` over `seen`; or answered, when the target is gone.
Load(h, u, new, sets) ==
  IF Loaded(h, u) = NoRow THEN Answer(h)
  ELSE req' = [req EXCEPT ![h] = [@ EXCEPT !.pc = "ready", !.target = u, !.seen = Loaded(h, u),
                                           !.new = new, !.sets = sets]]

\* A password given by an administrator: the lock goes, and must_change_password
\* is what the form says.
Given(row, sets) == [Cleared(row) EXCEPT !.must = (sets = "forced")]

\* Plausible bug: administrators may demote themselves.
UpdateLoadsAnyone(h, u) ==
  /\ Loads(h, "update")
  /\ \E role \in Role, active \in BOOLEAN, sets \in {"none", "free", "forced"} :
       IF Loaded(h, u) = NoRow THEN Answer(h)
       ELSE LET base == [Loaded(h, u) EXCEPT !.role = role, !.active = active]
            IN  Load(h, u, IF sets = "none" THEN base ELSE Given(base, sets), sets)

\* user_update: an administrator's own role and activity stay as they are; the
\* box for a forced change counts only with a new password.
UpdateLoads(h, u) ==
  /\ Loads(h, "update")
  /\ \E role \in Role, active \in BOOLEAN, sets \in {"none", "free", "forced"} :
       IF Loaded(h, u) = NoRow \/ (u = req[h].by /\ ~(role = "admin" /\ active))
       THEN Answer(h)
       ELSE LET base == [Loaded(h, u) EXCEPT !.role = role, !.active = active]
            IN  Load(h, u, IF sets = "none" THEN base ELSE Given(base, sets), sets)

\* user_unlock.
UnlockLoads(h, u) ==
  /\ Loads(h, "unlock")
  /\ IF Loaded(h, u) = NoRow THEN Answer(h) ELSE Load(h, u, Cleared(Loaded(h, u)), "none")

\* user_delete refuses to delete the acting administrator.
DeleteLoads(h, u) ==
  /\ Loads(h, "delete")
  /\ IF u = req[h].by THEN Answer(h) ELSE Load(h, u, NoRow, "none")

\* user_create: the name is looked up before the INSERT.
CreateLoads(h) ==
  /\ Loads(h, "create")
  /\ \E n \in Name, r \in Role, must \in BOOLEAN :
       IF ~NameFree(n) THEN Answer(h)
       ELSE req' = [req EXCEPT ![h] = [@ EXCEPT !.pc = "ready", !.new = Fresh(n, r, must)]]

\* user_scope_grant and user_scope_revoke load the row of the pair; a grant
\* needs the user, too.
GrantLoads(h, u) ==
  /\ Loads(h, "grant") \/ Loads(h, "revoke")
  /\ IF req[h].kind = "grant" /\ Loaded(h, u) = NoRow THEN Answer(h)
     ELSE \E c \in Company, p \in Permission :
            req' = [req EXCEPT ![h] = [@ EXCEPT !.pc = "ready", !.target = u, !.company = c,
                                                !.had = access[u][c], !.perm = p]]

-----------------------------------------------------------------------------
(***************************************************************************)
(* Commits.  A row that is gone (StaleDataError), a taken name, a grant     *)
(* that exists, or whose user is gone, raises: nothing is written.         *)
(***************************************************************************)

\* An administrator other than the actor loses the role, the activity or the
\* account, in a commit of somebody who is no longer an administrator.
Race(h) ==
  raced' = (raced \/ (~IsAdmin(req[h].by) /\ \E u \in User : IsAdmin(u) /\ ~IsAdmin(u)'))

CommitRow(h) ==
  /\ req[h].pc = "ready" /\ req[h].kind \in {"login", "update", "unlock", "password"}
  /\ Update(req[h])
  /\ LET u == req[h].target
     IN  cookies' = IF req[h].kind = "login" /\ req[h].by = u /\ Exists(u)
                    THEN cookies \cup {u} ELSE cookies
  /\ IF req[h].kind = "update" THEN Race(h) ELSE UNCHANGED raced
  /\ Answer(h)
  /\ UNCHANGED <<access, born, requests>>

\* ON DELETE CASCADE takes the grants along.
CommitDelete(h) ==
  /\ req[h].pc = "ready" /\ req[h].kind = "delete"
  /\ LET u == req[h].target
     IN  /\ users'  = [users EXCEPT ![u] = NoRow]
         /\ access' = [access EXCEPT ![u] = [c \in Company |-> "none"]]
  /\ Race(h) /\ Answer(h)
  /\ UNCHANGED <<born, cookies, secret, requests>>

CommitCreate(h) ==
  /\ req[h].pc = "ready" /\ req[h].kind = "create"
  /\ \/ Insert(req[h].new)
     \/ ~NameFree(req[h].new.name) /\ UNCHANGED <<users, secret, born>>
  /\ Answer(h)
  /\ UNCHANGED <<access, cookies, raced, requests>>

\* Plausible bug: grants are not tied to users by a foreign key.
InsertableUnchecked(u, c) == access[u][c] = "none"

\* A grant can be inserted: primary key and foreign key allow it.
Insertable(u, c) == access[u][c] = "none" /\ Exists(u)

CommitGrant(h) ==
  /\ req[h].pc = "ready" /\ req[h].kind \in {"grant", "revoke"}
  /\ LET u == req[h].target
         c == req[h].company
         Put(p) == access' = [access EXCEPT ![u] = [@ EXCEPT ![c] = p]]
     IN  IF req[h].kind = "revoke"
         THEN IF req[h].had = "none" THEN UNCHANGED access ELSE Put("none")
         ELSE IF req[h].had = "none"
              THEN IF Insertable(u, c) THEN Put(req[h].perm) ELSE UNCHANGED access
              ELSE IF access[u][c] # "none" /\ req[h].had # req[h].perm
                   THEN Put(req[h].perm) ELSE UNCHANGED access
  /\ Answer(h)
  /\ UNCHANGED <<users, born, cookies, secret, raced, requests>>

-----------------------------------------------------------------------------
(***************************************************************************)
(* create_admin.py: without --reset only while there is no administrator   *)
(* and for a new name; with it, for any name.                              *)
(***************************************************************************)

ScriptLoads(h) ==
  /\ Begin(h)
  /\ \E n \in Name, reset \in BOOLEAN :
       LET same == {u \in User : users[u].name = n}
       IN  IF ~reset /\ (same # {} \/ \E u \in User : IsAdmin(u)) THEN UNCHANGED req
           ELSE \E u \in IF same = {} THEN {0} ELSE same :
                  req' = [req EXCEPT ![h] = [NoReq EXCEPT !.pc = "ready", !.kind = "script",
                            !.target = u,
                            !.seen = IF u = 0 THEN NoRow ELSE users[u],
                            !.new  = Fresh(n, "admin", FALSE), !.sets = "free"]]
  /\ UNCHANGED <<users, access, born, cookies, secret, raced>>

CommitScript(h) ==
  /\ req[h].pc = "ready" /\ req[h].kind = "script"
  /\ \/ req[h].target = 0 /\ Insert(req[h].new)
     \/ /\ req[h].target = 0 /\ ~NameFree(req[h].new.name)
        /\ UNCHANGED <<users, secret, born>>
     \/ req[h].target # 0 /\ Update(req[h]) /\ UNCHANGED born
  /\ Answer(h)
  /\ UNCHANGED <<access, cookies, raced, requests>>

Next ==
  \/ \E h \in Handler, u \in User :
       \/ LoginLoads(h, u) \/ PasswordLoads(h, u) \/ Authorise(h, u)
       \/ UpdateLoads(h, u) \/ UnlockLoads(h, u) \/ DeleteLoads(h, u) \/ GrantLoads(h, u)
  \/ \E h \in Handler :
       \/ CreateLoads(h) \/ ScriptLoads(h)
       \/ CommitRow(h) \/ CommitDelete(h) \/ CommitCreate(h) \/ CommitGrant(h) \/ CommitScript(h)
  \/ \E u \in User : Logout(u) \/ LockExpires(u)

Spec == Init /\ [][Next]_vars

-----------------------------------------------------------------------------
(***************************************************************************)
(* Properties.                                                             *)
(***************************************************************************)

\* Two accounts never share a username, though user_create and create_admin
\* look before they insert.
UniqueNames ==
  \A u, v \in User : u # v /\ Exists(u) /\ Exists(v) => users[u].name # users[v].name

\* A grant belongs to an account that exists, even when it is given while the
\* account is being deleted.
NoOrphanGrants ==
  \A u \in User, c \in Company : access[u][c] # "none" => Exists(u)

\* There is always an active administrator, unless one was removed by a request
\* whose own administrator had been removed after it was authorised: the guards
\* against removing oneself are enough as long as requests do not overlap, and
\* no other overlap (a login, an unlock, a stale form) takes the role away.
AdminRemains == (\E u \in User : IsAdmin(u)) \/ raced

\* must_change_password tells whether the present password is one its owner was
\* given to be changed: neither a stale form nor a login that was under way takes
\* the flag away or brings it back.  The exception are two changes of one
\* password that overlap, the later one finding nothing to change in the flag.
MustMatchesSecret ==
  \A u \in User : Exists(u) /\ secret[u] # "crossed" => (users[u].must <=> secret[u] = "forced")

\* A lock that is in force is lifted by an administrator or the script, and by
\* a login only if that login had been looking at an older, expired lock.
LockIsLiftedOnPurpose ==
  [][\A u \in User : Exists(u) /\ users[u].lock = "ahead" /\ Exists(u)' /\ users'[u].lock = "no" =>
       \E h \in Handler : req[h].pc = "ready" /\ req'[h].pc = "idle" /\ req[h].target = u /\
         \/ req[h].kind \in {"update", "unlock", "script"}
         \/ req[h].kind = "login" /\ req[h].seen.lock = "past"]_vars
=============================================================================
