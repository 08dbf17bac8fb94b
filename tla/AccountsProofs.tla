--------------------------- MODULE AccountsProofs ---------------------------
(***************************************************************************)
(* Proofs about Accounts for any number of handlers, names, companies and  *)
(* accounts.                                                               *)
(*                                                                         *)
(* What a commit writes depends on what the handler loaded, possibly long  *)
(* ago.  ReqInv says what every handler that is about to commit has in     *)
(* hand: a login or an unlock keeps role, activity and name of the row it  *)
(* loaded, an update keeps the acting administrator's own, a deletion is   *)
(* never of the actor, the script makes an active administrator; and the   *)
(* row to be written has the flag that goes with the password.             *)
(***************************************************************************)
EXTENDS Accounts, TLAPS

\* An update of the columns role and active that the two rows agree on.
SameStanding(seen, new) == new.role = seen.role /\ new.active = seen.active

\* What a request q that is authorised or ready has in hand.
AuthorisedFits(q) ==
  /\ q.kind \in AdminKind /\ q.by \in User
  /\ q.mine \in Row /\ q.mine.role = "admin" /\ q.mine.active

RowFits(q) ==
  /\ q.target \in User
  /\ q.seen \in Row /\ q.new \in Row /\ q.new.name = q.seen.name

\* The row to be written has the flag that goes with the password, or, without
\* one, the flag that was loaded.
MustFits(q) ==
  /\ q.sets = "none" => q.new.must = q.seen.must
  /\ q.sets # "none" => q.new.must = (q.sets = "forced")

ReadyFits(q) ==
  /\ q.kind \in AdminKind \cup {"login", "password", "script"}
  /\ q.kind \in {"login", "unlock", "password"} => RowFits(q) /\ SameStanding(q.seen, q.new)
  /\ q.kind \in {"login", "unlock", "password", "update"} => MustFits(q)
  /\ q.kind = "login" => q.seen.lock # "ahead"
  /\ q.kind = "password" => q.new.lock = q.seen.lock
  /\ q.kind = "update" => RowFits(q) /\ q.by \in User
                            /\ (q.target = q.by => SameStanding(q.seen, q.new))
  /\ q.kind = "delete" => q.target \in User /\ q.target # q.by /\ q.by \in User
  /\ q.kind \in {"create", "script"} => q.new \in Row
  /\ q.kind = "script" => /\ q.new.role = "admin" /\ q.new.active
                          /\ q.new.must = FALSE /\ q.sets = "free"
                          /\ q.target # 0 => RowFits(q)
  /\ q.kind \in {"grant", "revoke"} => /\ q.target \in User /\ q.company \in Company
                                       /\ q.perm \in Permission

ReqInv ==
  \A h \in Handler : /\ req[h].pc = "authorised" => AuthorisedFits(req[h])
                     /\ req[h].pc = "ready" => ReadyFits(req[h])

\* Accounts are numbered as they are created.
BornInv == \A u \in User : u > born => users[u] = NoRow

IInv == TypeOK /\ ReqInv /\ BornInv

-----------------------------------------------------------------------------
(***************************************************************************)
(* Rows and requests are typed.                                            *)
(***************************************************************************)

LEMMA RowIsNot == \A r \in Row : r # NoRow
BY NoneIsNoName DEF Row, NoRow

LEMMA ExistsIsRow == ASSUME TypeOK, NEW u \in User PROVE Exists(u) <=> users[u] \in Row
BY RowIsNot DEF TypeOK, Exists

LEMMA FreshTyped ==
  ASSUME NEW n \in Name, NEW r \in Role, NEW m \in BOOLEAN
  PROVE  /\ Fresh(n, r, m) \in Row /\ Fresh(n, r, m).name = n
         /\ Fresh(n, r, m).role = r /\ Fresh(n, r, m).active
         /\ Fresh(n, r, m).must = m
BY AccountBounds DEF Fresh, Row

LEMMA CountedTyped ==
  ASSUME NEW r \in Row, NEW f \in 0 .. MaxFailed - 1, NEW l \in {"no", "past", "ahead"}
  PROVE  LET n == [r EXCEPT !.fails = f, !.lock = l]
         IN  n \in Row /\ n.name = r.name /\ SameStanding(r, n) /\ n.lock = l /\ n.must = r.must
BY DEF Row, SameStanding

LEMMA MarkedTyped ==
  ASSUME NEW r \in Row, NEW m \in BOOLEAN
  PROVE  LET n == [r EXCEPT !.must = m]
         IN  n \in Row /\ n.name = r.name /\ SameStanding(r, n) /\ n.lock = r.lock /\ n.must = m
BY DEF Row, SameStanding

\* The rows a login stores keep everything but the count and the lock.
LEMMA LoginRowTyped ==
  ASSUME NEW r \in Row
  PROVE  \A n \in {FailedOn(r), Cleared(r)} :
           n \in Row /\ n.name = r.name /\ SameStanding(r, n) /\ n.must = r.must
<1>1. 0 \in 0 .. MaxFailed - 1 /\ r.fails \in Nat
  BY AccountBounds DEF Row
<1>2. Cleared(r) \in Row /\ Cleared(r).name = r.name /\ SameStanding(r, Cleared(r))
      /\ Cleared(r).must = r.must
  BY <1>1, CountedTyped, Zenon DEF Cleared
<1>3. FailedOn(r) \in Row /\ FailedOn(r).name = r.name /\ SameStanding(r, FailedOn(r))
      /\ FailedOn(r).must = r.must
  <2>1. CASE r.fails + 1 >= MaxFailed
    BY <1>1, <2>1, CountedTyped, Zenon DEF FailedOn
  <2>2. CASE ~(r.fails + 1 >= MaxFailed)
    <3>1. r.fails + 1 \in 0 .. MaxFailed - 1
      BY <1>1, <2>2, AccountBounds
    <3> DEFINE f == r.fails + 1
    <3>2. [r EXCEPT !.fails = f] \in Row /\ [r EXCEPT !.fails = f].name = r.name
            /\ SameStanding(r, [r EXCEPT !.fails = f]) /\ [r EXCEPT !.fails = f].must = r.must
      <4> f \in 0 .. MaxFailed - 1
        BY <3>1
      <4> HIDE DEF f
      <4> QED BY DEF Row, SameStanding
    <3> QED BY <2>2, <3>2, Zenon DEF FailedOn
  <2> QED BY <2>1, <2>2
<1> QED BY <1>2, <1>3

LEMMA GivenTyped ==
  ASSUME NEW r \in Row, NEW t \in {"none", "free", "forced"}
  PROVE  LET n == Given(r, t)
         IN  /\ n \in Row /\ n.name = r.name /\ SameStanding(r, n)
             /\ n.must = (t = "forced")
<1>1. Cleared(r) \in Row /\ Cleared(r).name = r.name /\ SameStanding(r, Cleared(r))
  BY LoginRowTyped
<1> DEFINE c == Cleared(r)
           m == (t = "forced")
           n == [c EXCEPT !.must = m]
<1>2. m \in BOOLEAN
  OBVIOUS
<1>3. n \in Row /\ n.name = c.name /\ SameStanding(c, n) /\ n.must = m
  <2> HIDE DEF c, m
  <2> QED BY <1>1, <1>2, MarkedTyped DEF c
<1>4. Given(r, t) = n
  BY Zenon DEF Given
<1> HIDE DEF n
<1> QED BY <1>1, <1>3, <1>4 DEF SameStanding

\* The UPDATE of a commit, column by column.
LEMMA WrittenTyped ==
  ASSUME NEW old \in Row, NEW seen \in Row, NEW new \in Row
  PROVE  LET w == Written(old, seen, new)
         IN  /\ w \in Row
             /\ w.name = IF new.name # seen.name THEN new.name ELSE old.name
             /\ w.role = IF new.role # seen.role THEN new.role ELSE old.role
             /\ w.active = IF new.active # seen.active THEN new.active ELSE old.active
             /\ w.lock = IF new.lock # seen.lock THEN new.lock ELSE old.lock
             /\ w.must = IF new.must # seen.must THEN new.must ELSE old.must
BY DEF Row, Written

\* The requests that the handlers build.
WithRow(q, u, s, n, t) ==
  [q EXCEPT !.pc = "ready", !.target = u, !.seen = s, !.new = n, !.sets = t]
WithNew(q, n)         == [q EXCEPT !.pc = "ready", !.new = n]
WithPair(q, u, c, d, m) ==
  [q EXCEPT !.pc = "ready", !.target = u, !.company = c, !.had = d, !.perm = m]
LoginOf(u, s, n, b)   == [NoReq EXCEPT !.pc = "ready", !.kind = "login",
                                       !.target = u, !.seen = s, !.new = n, !.by = b]
FreeOf(k, u, s, n)    == [NoReq EXCEPT !.pc = "ready", !.kind = k, !.target = u,
                                       !.seen = s, !.new = n, !.sets = "free"]
AdminOf(k, b, m)      == [NoReq EXCEPT !.pc = "authorised", !.kind = k, !.by = b, !.mine = m]

LEMMA NoReqTyped == NoReq \in Request /\ NoReq.pc = "idle" /\ NoReq.sets = "none"
BY AccountBounds DEF NoReq, Request, User

LEMMA RowReady ==
  ASSUME NEW q \in Request, NEW u \in 0 .. MaxUsers,
         NEW s \in Row \cup {NoRow}, NEW n \in Row \cup {NoRow},
         NEW t \in {"none", "free", "forced"}
  PROVE  LET r == WithRow(q, u, s, n, t)
         IN  /\ r \in Request
             /\ r.pc = "ready" /\ r.target = u /\ r.seen = s /\ r.new = n /\ r.sets = t
             /\ r.kind = q.kind /\ r.by = q.by
<1>1. [q EXCEPT !.pc = "ready", !.target = u] \in Request
  BY DEF Request
<1>2. \A x \in Request : [x EXCEPT !.seen = s, !.new = n] \in Request
  BY DEF Request
<1>3. \A x \in Request : [x EXCEPT !.sets = t] \in Request
  BY DEF Request
<1>4. [q EXCEPT !.pc = "ready", !.target = u, !.seen = s, !.new = n, !.sets = t] \in Request
  BY <1>1, <1>2, <1>3, Zenon
<1> QED BY <1>4 DEF Request, WithRow

LEMMA LoginReady ==
  ASSUME NEW u \in User, NEW b \in 0 .. MaxUsers, NEW s \in Row, NEW n \in Row
  PROVE  LET r == LoginOf(u, s, n, b)
         IN  /\ r \in Request
             /\ r.pc = "ready" /\ r.kind = "login" /\ r.target = u /\ r.seen = s /\ r.new = n
             /\ r.sets = "none"
<1>1. [NoReq EXCEPT !.pc = "ready", !.kind = "login"] \in Request
  BY NoReqTyped DEF Request
<1>2. \A x \in Request : [x EXCEPT !.target = u] \in Request
  BY AccountBounds DEF Request, User
<1>3. \A x \in Request : [x EXCEPT !.seen = s, !.new = n] \in Request
  BY DEF Request
<1>4. \A x \in Request : [x EXCEPT !.by = b] \in Request
  BY DEF Request
<1>5. [NoReq EXCEPT !.pc = "ready", !.kind = "login",
                    !.target = u, !.seen = s, !.new = n, !.by = b] \in Request
  BY <1>1, <1>2, <1>3, <1>4, Zenon
<1> QED BY <1>5, NoReqTyped DEF Request, LoginOf

LEMMA FreeReady ==
  ASSUME NEW k \in {"password", "script"}, NEW u \in 0 .. MaxUsers,
         NEW s \in Row \cup {NoRow}, NEW n \in Row
  PROVE  LET r == FreeOf(k, u, s, n)
         IN  /\ r \in Request
             /\ r.pc = "ready" /\ r.kind = k /\ r.target = u /\ r.seen = s /\ r.new = n
             /\ r.sets = "free"
<1>1. [NoReq EXCEPT !.pc = "ready", !.kind = k] \in Request
  BY NoReqTyped DEF Request
<1>2. \A x \in Request : [x EXCEPT !.target = u] \in Request
  BY DEF Request
<1>3. \A x \in Request : [x EXCEPT !.seen = s, !.new = n] \in Request
  BY DEF Request
<1>4. \A x \in Request : [x EXCEPT !.sets = "free"] \in Request
  BY DEF Request
<1>5. [NoReq EXCEPT !.pc = "ready", !.kind = k, !.target = u,
                    !.seen = s, !.new = n, !.sets = "free"] \in Request
  BY <1>1, <1>2, <1>3, <1>4, Zenon
<1> QED BY <1>5, NoReqTyped DEF Request, FreeOf

LEMMA AuthorisedTyped ==
  ASSUME NEW k \in AdminKind, NEW b \in User, NEW m \in Row
  PROVE  LET r == AdminOf(k, b, m)
         IN  r \in Request /\ r.pc = "authorised" /\ r.kind = k /\ r.by = b /\ r.mine = m
<1>1. [NoReq EXCEPT !.pc = "authorised", !.kind = k] \in Request
  BY NoReqTyped DEF Request
<1>2. \A x \in Request : [x EXCEPT !.by = b, !.mine = m] \in Request
  <2>1. b \in 0 .. MaxUsers
    BY AccountBounds DEF User
  <2> QED BY <2>1 DEF Request
<1>3. [NoReq EXCEPT !.pc = "authorised", !.kind = k, !.by = b, !.mine = m] \in Request
  BY <1>1, <1>2, Zenon
<1> QED BY <1>3, NoReqTyped DEF Request, AdminOf

\* Request r, made from q, has the pair of u and c in hand.
HasPair(r, q, u, c, m) ==
  /\ r \in Request
  /\ r.pc = "ready" /\ r.target = u /\ r.company = c /\ r.perm = m
  /\ r.kind = q.kind

LEMMA GrantReady ==
  ASSUME NEW q \in Request, NEW u \in 0 .. MaxUsers, NEW c \in Company,
         NEW d \in Permission \cup {"none"}, NEW m \in Permission
  PROVE  HasPair(WithPair(q, u, c, d, m), q, u, c, m)
<1>1. [q EXCEPT !.pc = "ready", !.target = u] \in Request
  BY DEF Request
<1>2. \A x \in Request : [x EXCEPT !.company = c] \in Request
  BY DEF Request
<1>3. \A x \in Request : [x EXCEPT !.had = d, !.perm = m] \in Request
  BY DEF Request
<1>4. [q EXCEPT !.pc = "ready", !.target = u, !.company = c, !.had = d, !.perm = m] \in Request
  BY <1>1, <1>2, <1>3, Zenon
<1> QED BY <1>4 DEF Request, WithPair, HasPair

LEMMA CreateReady ==
  ASSUME NEW q \in Request, NEW n \in Row
  PROVE  LET r == WithNew(q, n)
         IN  r \in Request /\ r.pc = "ready" /\ r.new = n /\ r.kind = q.kind
BY DEF Request, WithNew

-----------------------------------------------------------------------------
(***************************************************************************)
(* The requests: every step keeps ReqInv.                                  *)
(***************************************************************************)

LEMMA Serves ==
  ASSUME TypeOK, ReqInv, NEW h \in Handler, NEW q \in Request,
         req' = [req EXCEPT ![h] = q],
         q.pc = "authorised" => AuthorisedFits(q),
         q.pc = "ready" => ReadyFits(q)
  PROVE  req' \in [Handler -> Request] /\ ReqInv'
<1>1. /\ req' \in [Handler -> Request] /\ req'[h] = q
      /\ \A g \in Handler \ {h} : req'[g] = req[g]
  BY DEF TypeOK
<1> QED BY <1>1 DEF ReqInv

LEMMA AnswerServes ==
  ASSUME TypeOK, ReqInv, NEW h \in Handler, Answer(h)
  PROVE  req' \in [Handler -> Request] /\ ReqInv'
BY NoReqTyped, Serves DEF Answer

LEMMA LoadedTyped ==
  ASSUME TypeOK, ReqInv, NEW h \in Handler, req[h].pc = "authorised", NEW u \in User
  PROVE  /\ req[h] \in Request /\ AuthorisedFits(req[h])
         /\ Loaded(h, u) \in Row \cup {NoRow}
         /\ u = req[h].by => Loaded(h, u).role = "admin" /\ Loaded(h, u).active
BY DEF TypeOK, ReqInv, AuthorisedFits, Loaded

\* Loading a row that is to be rewritten.
LEMMA LoadServes ==
  ASSUME TypeOK, ReqInv, NEW h \in Handler, req[h].pc = "authorised", NEW u \in User,
         NEW n \in Row \cup {NoRow}, NEW t \in {"none", "free", "forced"}, Load(h, u, n, t),
         Loaded(h, u) # NoRow =>
           \/ req[h].kind = "update" /\ n \in Row /\ n.name = Loaded(h, u).name
              /\ (u = req[h].by => SameStanding(Loaded(h, u), n))
              /\ n.must = IF t = "none" THEN Loaded(h, u).must ELSE t = "forced"
           \/ req[h].kind = "unlock" /\ n \in Row /\ n.name = Loaded(h, u).name
              /\ SameStanding(Loaded(h, u), n) /\ n.must = Loaded(h, u).must /\ t = "none"
           \/ req[h].kind = "delete" /\ u # req[h].by
  PROVE  req' \in [Handler -> Request] /\ ReqInv'
<1>1. CASE Loaded(h, u) = NoRow
  BY <1>1, AnswerServes DEF Load
<1>2. CASE Loaded(h, u) # NoRow
  <2> DEFINE s == Loaded(h, u)
             q == WithRow(req[h], u, s, n, t)
  <2>1. s \in Row /\ req[h] \in Request /\ AuthorisedFits(req[h]) /\ u \in 0 .. MaxUsers
    BY <1>2, LoadedTyped, AccountBounds DEF User
  <2>2. req' = [req EXCEPT ![h] = q]
    BY <1>2, Zenon DEF Load, WithRow
  <2>3. /\ q \in Request /\ q.pc = "ready" /\ q.target = u /\ q.seen = s /\ q.new = n
        /\ q.kind = req[h].kind /\ q.by = req[h].by /\ q.sets = t
    <3>1. s \in Row \cup {NoRow}
      BY <2>1
    <3> HIDE DEF s
    <3> QED BY <2>1, <3>1, RowReady
  <2>4. ReadyFits(q)
    <3> HIDE DEF q
    <3> QED BY <1>2, <2>1, <2>3 DEF ReadyFits, RowFits, MustFits, AuthorisedFits, AdminKind
  <2> HIDE DEF q
  <2> QED BY <2>2, <2>3, <2>4, Serves
<1> QED BY <1>1, <1>2

LEMMA RequestStep ==
  ASSUME TypeOK, ReqInv, NEW h \in Handler, NEW u \in User,
         \/ LoginLoads(h, u) \/ Authorise(h, u) \/ UpdateLoads(h, u) \/ UnlockLoads(h, u)
         \/ DeleteLoads(h, u) \/ GrantLoads(h, u) \/ CreateLoads(h) \/ ScriptLoads(h)
         \/ PasswordLoads(h, u)
         \/ Answer(h)
  PROVE  req' \in [Handler -> Request] /\ ReqInv'
<1>0. CASE UNCHANGED req
  BY <1>0 DEF TypeOK, ReqInv
<1>1. CASE LoginLoads(h, u)
  <2>1. ASSUME UNCHANGED users, users[u] # NoRow, users[u].lock # "ahead",
               NEW row \in {FailedOn(users[u]), Cleared(users[u])}, NEW b \in 0 .. MaxUsers,
               req' = [req EXCEPT ![h] = LoginOf(u, users[u], row, b)]
        PROVE  req' \in [Handler -> Request] /\ ReqInv'
    <3> DEFINE s == users[u]
               q == LoginOf(u, s, row, b)
    <3>1. /\ s \in Row /\ row \in Row /\ row.name = s.name /\ SameStanding(s, row)
          /\ row.must = s.must
      BY <2>1, LoginRowTyped DEF TypeOK
    <3>2. /\ q \in Request
          /\ q.pc = "ready" /\ q.kind = "login" /\ q.target = u /\ q.seen = s /\ q.new = row
          /\ q.sets = "none"
      <4> HIDE DEF s
      <4> QED BY <3>1, LoginReady
    <3>3. ReadyFits(q)
      <4> HIDE DEF q
      <4> QED BY <2>1, <3>1, <3>2 DEF ReadyFits, RowFits, MustFits
    <3> HIDE DEF q
    <3> QED BY <2>1, <3>2, <3>3, Serves DEF q
  <2>2. u \in 0 .. MaxUsers /\ 0 \in 0 .. MaxUsers
    BY AccountBounds DEF User
  <2>3. CASE users[u].lock = "ahead"
    BY <1>0, <1>1, <2>3 DEF LoginLoads
  <2>4. CASE users[u].lock # "ahead"
    <3>1. PICK row \in {FailedOn(users[u]), Cleared(users[u])} :
            req' = [req EXCEPT ![h] = [NoReq EXCEPT !.pc = "ready", !.kind = "login",
                      !.target = u, !.seen = users[u], !.new = row,
                      !.by = IF row = Cleared(users[u]) THEN u ELSE 0]]
      BY <1>1, <2>4, Zenon DEF LoginLoads
    <3> DEFINE b == IF row = Cleared(users[u]) THEN u ELSE 0
    <3>2. b \in 0 .. MaxUsers
      BY <2>2
    <3>3. req' = [req EXCEPT ![h] = LoginOf(u, users[u], row, b)]
      BY <3>1, Zenon DEF LoginOf
    <3>4. UNCHANGED users /\ users[u] # NoRow
      BY <1>1 DEF LoginLoads, Exists
    <3> HIDE DEF b
    <3> QED BY <2>1, <2>4, <3>2, <3>3, <3>4
  <2> QED BY <2>3, <2>4
<1>2. CASE Authorise(h, u)
  <2>1. CASE IsAdmin(u)
    <3>1. PICK k \in AdminKind :
            req' = [req EXCEPT ![h] = [NoReq EXCEPT !.pc = "authorised", !.kind = k,
                                                    !.by = u, !.mine = users[u]]]
      BY <1>2, <2>1, Zenon DEF Authorise
    <3> DEFINE m == users[u]
               q == AdminOf(k, u, m)
    <3>2. m \in Row /\ m.role = "admin" /\ m.active
      BY <2>1, ExistsIsRow DEF IsAdmin
    <3>3. q \in Request /\ q.pc = "authorised" /\ q.kind = k /\ q.by = u /\ q.mine = m
      <4> HIDE DEF m
      <4> QED BY <3>2, AuthorisedTyped
    <3>4. AuthorisedFits(q)
      <4> HIDE DEF q
      <4> QED BY <3>2, <3>3 DEF AuthorisedFits
    <3>5. req' = [req EXCEPT ![h] = q]
      BY <3>1, Zenon DEF AdminOf
    <3> HIDE DEF q
    <3> QED BY <3>3, <3>4, <3>5, Serves
  <2> QED BY <1>0, <1>2, <2>1 DEF Authorise
<1>3. CASE UpdateLoads(h, u)
  <2>1. PICK role \in Role, active \in BOOLEAN, sets \in {"none", "free", "forced"} :
          IF Loaded(h, u) = NoRow \/ (u = req[h].by /\ ~(role = "admin" /\ active))
          THEN Answer(h)
          ELSE LET base == [Loaded(h, u) EXCEPT !.role = role, !.active = active]
               IN  Load(h, u, IF sets = "none" THEN base ELSE Given(base, sets), sets)
    BY <1>3, Zenon DEF UpdateLoads
  <2>2. req[h].pc = "authorised" /\ req[h].kind = "update"
    BY <1>3 DEF UpdateLoads, Loads
  <2>3. CASE Loaded(h, u) # NoRow /\ ~(u = req[h].by /\ ~(role = "admin" /\ active))
    <3> DEFINE s == Loaded(h, u)
               base == [s EXCEPT !.role = role, !.active = active]
               n == IF sets = "none" THEN base ELSE Given(base, sets)
    <3>1. s \in Row /\ (u = req[h].by => s.role = "admin" /\ s.active)
      BY <2>2, <2>3, LoadedTyped
    <3>2. /\ base \in Row /\ base.name = s.name
          /\ base.role = role /\ base.active = active /\ base.must = s.must
      <4> HIDE DEF s
      <4> QED BY <3>1 DEF Row
    <3>3. /\ n \in Row /\ n.name = s.name /\ n.role = role /\ n.active = active
          /\ n.must = IF sets = "none" THEN s.must ELSE sets = "forced"
      <4> DEFINE g == Given(base, sets)
      <4>1. /\ g \in Row /\ g.name = base.name /\ SameStanding(base, g)
            /\ g.must = (sets = "forced")
        <5> HIDE DEF base
        <5> QED BY <3>2, GivenTyped
      <4>2. CASE sets = "none"
        <5>1. n = base
          BY <4>2
        <5> HIDE DEF n, base
        <5> QED BY <3>2, <4>2, <5>1
      <4>3. CASE sets # "none"
        <5>1. n = g
          BY <4>3, Zenon
        <5> HIDE DEF n, g, base
        <5> QED BY <3>2, <4>1, <4>3, <5>1 DEF SameStanding
      <4> QED BY <4>2, <4>3
    <3>4. Load(h, u, n, sets)
      BY <2>1, <2>3, Zenon
    <3>5. u = req[h].by => SameStanding(s, n)
      BY <2>3, <3>1, <3>3 DEF SameStanding
    <3> HIDE DEF n, base
    <3> QED BY <2>2, <3>3, <3>4, <3>5, LoadServes
  <2> QED BY <2>1, <2>3, AnswerServes
<1>4. CASE UnlockLoads(h, u)
  <2>1. req[h].pc = "authorised" /\ req[h].kind = "unlock"
    BY <1>4 DEF UnlockLoads, Loads
  <2>2. CASE Loaded(h, u) = NoRow
    BY <1>4, <2>2, AnswerServes DEF UnlockLoads
  <2>3. CASE Loaded(h, u) # NoRow
    <3> DEFINE n == Cleared(Loaded(h, u))
    <3>1. Loaded(h, u) \in Row
      BY <2>1, <2>3, LoadedTyped
    <3>2. /\ n \in Row /\ n.name = Loaded(h, u).name /\ SameStanding(Loaded(h, u), n)
          /\ n.must = Loaded(h, u).must
      BY <3>1, LoginRowTyped
    <3>3. Load(h, u, n, "none")
      BY <1>4, <2>3 DEF UnlockLoads
    <3> HIDE DEF n
    <3> QED BY <2>1, <3>2, <3>3, LoadServes
  <2> QED BY <2>2, <2>3
<1>5. CASE DeleteLoads(h, u)
  BY <1>5, AnswerServes, LoadServes DEF DeleteLoads, Loads
<1>6. CASE GrantLoads(h, u)
  <2>1. CASE Answer(h)
    BY <2>1, AnswerServes
  <2>2. CASE ~Answer(h)
    <3>1. PICK c \in Company, p \in Permission :
            req' = [req EXCEPT ![h] = [@ EXCEPT !.pc = "ready", !.target = u, !.company = c,
                                                !.had = access[u][c], !.perm = p]]
      BY <1>6, <2>2, Zenon DEF GrantLoads
    <3>2. PICK d \in Permission \cup {"none"} : d = access[u][c]
      BY DEF TypeOK
    <3> DEFINE q == WithPair(req[h], u, c, d, p)
    <3>3. req' = [req EXCEPT ![h] = q]
      BY <3>1, <3>2, Zenon DEF WithPair
    <3>4. req[h] \in Request /\ u \in 0 .. MaxUsers
      BY AccountBounds DEF TypeOK, User
    <3>5. HasPair(q, req[h], u, c, p)
      BY <3>4, GrantReady, Zenon
    <3>6. req[h].kind \in {"grant", "revoke"}
      BY <1>6, Zenon DEF GrantLoads, Loads
    <3> HIDE DEF q
    <3>7. ReadyFits(q)
      BY <3>5, <3>6 DEF ReadyFits, AdminKind, HasPair
    <3> QED BY <3>3, <3>5, <3>7, Serves DEF HasPair
  <2> QED BY <2>1, <2>2
<1>7. CASE CreateLoads(h)
  <2>1. PICK n \in Name, r \in Role, must \in BOOLEAN :
          IF ~NameFree(n) THEN Answer(h)
          ELSE req' = [req EXCEPT ![h] = [@ EXCEPT !.pc = "ready", !.new = Fresh(n, r, must)]]
    BY <1>7, Zenon DEF CreateLoads
  <2>2. CASE NameFree(n)
    <3> DEFINE row == Fresh(n, r, must)
               q == WithNew(req[h], row)
    <3>1. row \in Row /\ req[h] \in Request /\ req[h].kind = "create"
      BY <1>7, FreshTyped DEF TypeOK, CreateLoads, Loads
    <3>2. q \in Request /\ q.pc = "ready" /\ q.new = row /\ q.kind = "create"
      <4> HIDE DEF row
      <4> QED BY <3>1, CreateReady
    <3>3. ReadyFits(q)
      <4> HIDE DEF q, row
      <4> QED BY <3>1, <3>2 DEF ReadyFits, AdminKind
    <3>4. req' = [req EXCEPT ![h] = q]
      BY <2>1, <2>2, Zenon DEF WithNew
    <3> HIDE DEF q
    <3> QED BY <3>2, <3>3, <3>4, Serves
  <2> QED BY <2>1, <2>2, AnswerServes
<1>8. CASE ScriptLoads(h)
  <2>1. CASE ~UNCHANGED req
    <3>1. PICK n \in Name :
            \E v \in IF {w \in User : users[w].name = n} = {} THEN {0}
                     ELSE {w \in User : users[w].name = n} :
              req' = [req EXCEPT ![h] = [NoReq EXCEPT !.pc = "ready", !.kind = "script",
                        !.target = v, !.seen = IF v = 0 THEN NoRow ELSE users[v],
                        !.new = Fresh(n, "admin", FALSE), !.sets = "free"]]
      BY <1>8, <2>1, Zenon DEF ScriptLoads
    <3>2. PICK v \in IF {w \in User : users[w].name = n} = {} THEN {0}
                     ELSE {w \in User : users[w].name = n} :
              req' = [req EXCEPT ![h] = [NoReq EXCEPT !.pc = "ready", !.kind = "script",
                        !.target = v, !.seen = IF v = 0 THEN NoRow ELSE users[v],
                        !.new = Fresh(n, "admin", FALSE), !.sets = "free"]]
      BY <3>1, Zenon
    <3> DEFINE s == IF v = 0 THEN NoRow ELSE users[v]
               row == Fresh(n, "admin", FALSE)
               q == FreeOf("script", v, s, row)
    <3>3. /\ row \in Row /\ row.role = "admin" /\ row.active /\ row.name = n
          /\ row.must = FALSE
      BY FreshTyped DEF Role
    <3>4. v = 0 \/ (v \in User /\ users[v].name = n)
      BY <3>2
    <3>5. v \in User => v \in 0 .. MaxUsers /\ v # 0
      BY AccountBounds DEF User
    <3>6. v \in User => users[v] \in Row
      BY <3>4, <3>5, NoneIsNoName DEF TypeOK, NoRow
    <3>7. /\ v \in 0 .. MaxUsers /\ s \in Row \cup {NoRow}
          /\ v # 0 => v \in User /\ s \in Row /\ s.name = n
      BY <3>4, <3>5, <3>6, AccountBounds
    <3>8. /\ q \in Request /\ q.pc = "ready" /\ q.kind = "script" /\ q.target = v
          /\ q.seen = s /\ q.new = row /\ q.sets = "free"
      <4> HIDE DEF s, row
      <4> QED BY <3>3, <3>7, FreeReady
    <3>9. ReadyFits(q)
      <4> HIDE DEF q, s, row
      <4> QED BY <3>3, <3>7, <3>8 DEF ReadyFits, RowFits
    <3>10. req' = [req EXCEPT ![h] = q]
      BY <3>2, Zenon DEF FreeOf
    <3> HIDE DEF q
    <3> QED BY <3>8, <3>9, <3>10, Serves
  <2> QED BY <1>0, <2>1
<1>9. CASE PasswordLoads(h, u)
  <2>1. CASE UNCHANGED req
    BY <1>0, <2>1
  <2>2. CASE ~UNCHANGED req
    <3> DEFINE s == users[u]
               row == Chosen(s)
               q == FreeOf("password", u, s, row)
    <3>1. req' = [req EXCEPT ![h] = q] /\ Exists(u)
      BY <1>9, <2>2, Zenon DEF PasswordLoads, FreeOf
    <3>2. s \in Row /\ u \in 0 .. MaxUsers
      BY <3>1, ExistsIsRow, AccountBounds DEF User
    <3>3. /\ row \in Row /\ row.name = s.name /\ SameStanding(s, row)
          /\ row.lock = s.lock /\ row.must = FALSE
      <4> HIDE DEF s
      <4> QED BY <3>2, MarkedTyped DEF Chosen
    <3>4. /\ q \in Request /\ q.pc = "ready" /\ q.kind = "password" /\ q.target = u
          /\ q.seen = s /\ q.new = row /\ q.sets = "free"
      <4> HIDE DEF s, row
      <4> QED BY <3>2, <3>3, FreeReady
    <3>5. ReadyFits(q)
      <4> HIDE DEF q, s, row
      <4> QED BY <3>2, <3>3, <3>4 DEF ReadyFits, RowFits, MustFits
    <3> HIDE DEF q
    <3> QED BY <3>1, <3>4, <3>5, Serves
  <2> QED BY <2>1, <2>2
<1>10. CASE Answer(h)
  BY <1>10, AnswerServes
<1> QED BY <1>1, <1>2, <1>3, <1>4, <1>5, <1>6, <1>7, <1>8, <1>9, <1>10

-----------------------------------------------------------------------------
(***************************************************************************)
(* What a step does to the accounts: nothing, or one of the following.     *)
(***************************************************************************)

\* Somebody other than u acts, and the step tells whether they outlived their
\* own authority.
Ousted(u) == \E h \in Handler : req[h].by \in User \ {u} /\ Race(h)

\* A password of kind s goes with the flag of this row.
Tells(s, row) == s # "crossed" => (row.must <=> s = "forced")

\* What is known of u's password when `row` becomes its row.
Remembered(u, row) ==
  \E s \in Secret :
    /\ secret' = [secret EXCEPT ![u] = s]
    /\ Tells(s, row) \/ (s = secret[u] /\ row.must = users[u].must)

\* No account changes, and grants are only given to accounts that exist.
Kept ==
  /\ UNCHANGED <<users, secret, born>>
  /\ \A u \in User, c \in Company : access'[u][c] # "none" => access[u][c] # "none" \/ Exists(u)

Rewritten(u, row) ==
  /\ users[u] \in Row /\ row \in Row /\ row.name = users[u].name
  /\ users' = [users EXCEPT ![u] = row]
  /\ Remembered(u, row)
  /\ IsAdmin(u) => (row.role = "admin" /\ row.active) \/ Ousted(u)
  /\ UNCHANGED <<born, access>>

Created(row) ==
  /\ born < MaxUsers /\ row \in Row /\ NameFree(row.name)
  /\ users' = [users EXCEPT ![born + 1] = row]
  /\ secret' = [secret EXCEPT ![born + 1] = SecretOf(row)]
  /\ born' = born + 1
  /\ UNCHANGED access

Deleted(u) ==
  /\ users' = [users EXCEPT ![u] = NoRow]
  /\ access' = [access EXCEPT ![u] = [c \in Company |-> "none"]]
  /\ Ousted(u)
  /\ UNCHANGED <<secret, born>>

Effect ==
  \/ Kept
  \/ \E u \in User, row \in Row : Rewritten(u, row)
  \/ \E row \in Row : Created(row)
  \/ \E u \in User : Deleted(u)

\* The variables that no such step depends on.
Rest ==
  /\ access' \in [User -> [Company -> Permission \cup {"none"}]]
  /\ cookies' \subseteq 1 .. born'
  /\ raced' \in BOOLEAN /\ (raced => raced')
  /\ requests' \in 0 .. MaxRequests
  /\ req' \in [Handler -> Request] /\ ReqInv'

LEMMA InsertCreates ==
  ASSUME TypeOK, NEW row \in Row, Insert(row), UNCHANGED access
  PROVE  Created(row) /\ born' = born + 1
BY DEF Insert, Created

\* What an UPDATE does to the row and to the password of its account.
LEMMA UpdateRewrites ==
  ASSUME IInv, NEW q, RowFits(q), MustFits(q), q.sets \in {"none", "free", "forced"},
         Exists(q.target), Update(q),
         NEW row, row = Written(users[q.target], q.seen, q.new)
  PROVE  /\ users[q.target] \in Row /\ row \in Row /\ row.name = users[q.target].name
         /\ users' = [users EXCEPT ![q.target] = row]
         /\ Remembered(q.target, row)
         /\ SameStanding(q.seen, q.new) => SameStanding(users[q.target], row)
<1> DEFINE u == q.target
           old == users[u]
           s == SecretAfter(q)
<1>1. u \in User /\ old \in Row /\ q.seen \in Row /\ q.new \in Row /\ q.new.name = q.seen.name
  BY ExistsIsRow DEF IInv, RowFits
<1>2. /\ row \in Row /\ row.name = old.name
      /\ row.must = IF q.new.must # q.seen.must THEN q.new.must ELSE old.must
      /\ SameStanding(q.seen, q.new) => SameStanding(old, row)
  <2> HIDE DEF old
  <2>1. row = Written(old, q.seen, q.new)
    BY DEF old
  <2> QED BY <1>1, <2>1, WrittenTyped DEF SameStanding
<1>3. users' = [users EXCEPT ![u] = row] /\ secret' = [secret EXCEPT ![u] = s]
  BY Zenon DEF Update
<1>4. s \in Secret /\ (Tells(s, row) \/ (s = secret[u] /\ row.must = old.must))
  <2>1. secret[u] \in Secret
    BY <1>1 DEF IInv, TypeOK
  <2>2. old.must \in BOOLEAN /\ q.seen.must \in BOOLEAN /\ q.new.must \in BOOLEAN
    BY <1>1 DEF Row
  <2>3. CASE q.sets = "none"
    BY <1>2, <2>1, <2>3 DEF SecretAfter, MustFits
  <2>4. CASE q.sets # "none" /\ q.new.must = q.seen.must /\ old.must # q.seen.must
    BY <2>4 DEF SecretAfter, Secret, Tells
  <2>5. CASE q.sets # "none" /\ ~(q.new.must = q.seen.must /\ old.must # q.seen.must)
    <3>1. s = q.sets /\ s \in Secret
      BY <2>5 DEF SecretAfter, Secret
    <3>2. row.must = q.new.must
      BY <1>2, <2>2, <2>5
    <3>3. q.new.must = (q.sets = "forced")
      BY <2>5 DEF MustFits
    <3> HIDE DEF s
    <3> QED BY <3>1, <3>2, <3>3 DEF Tells
  <2> QED BY <2>3, <2>4, <2>5
<1>5. Remembered(u, row)
  <2> HIDE DEF s
  <2> QED BY <1>3, <1>4 DEF Remembered
<1> QED BY <1>1, <1>2, <1>3, <1>5

LEMMA LoadStep ==
  ASSUME IInv, NEW h \in Handler, NEW u \in User,
         \/ LoginLoads(h, u) \/ Authorise(h, u) \/ UpdateLoads(h, u) \/ UnlockLoads(h, u)
         \/ DeleteLoads(h, u) \/ GrantLoads(h, u) \/ CreateLoads(h) \/ ScriptLoads(h)
         \/ PasswordLoads(h, u)
  PROVE  Kept /\ Rest
<1>1. req' \in [Handler -> Request] /\ ReqInv'
  BY RequestStep DEF IInv
<1>2. UNCHANGED <<users, born, access, secret, raced>> /\ cookies' \in SUBSET cookies
      /\ (UNCHANGED requests \/ (requests < MaxRequests /\ requests' = requests + 1))
  BY DEF LoginLoads, Authorise, UpdateLoads, UnlockLoads, DeleteLoads, GrantLoads,
         CreateLoads, ScriptLoads, PasswordLoads, Loads, Begin
<1> QED BY <1>1, <1>2, AccountBounds DEF Kept, Rest, IInv, TypeOK

LEMMA CommitRowStep ==
  ASSUME IInv, NEW h \in Handler, CommitRow(h)
  PROVE  Effect /\ Rest
<1> DEFINE u == req[h].target
           row == Written(users[u], req[h].seen, req[h].new)
<1>1. /\ ReadyFits(req[h]) /\ RowFits(req[h]) /\ MustFits(req[h])
      /\ u \in User /\ req[h] \in Request
  BY DEF CommitRow, IInv, TypeOK, ReqInv, ReadyFits, RowFits
<1>2. req' \in [Handler -> Request] /\ ReqInv'
  BY AnswerServes DEF CommitRow, IInv
<1>3. raced' \in BOOLEAN /\ (raced => raced')
  BY Zenon DEF CommitRow, Race, IInv, TypeOK
<1>4. cookies' \subseteq 1 .. born
  <2>1. cookies' = cookies \/ (cookies' = cookies \cup {u} /\ Exists(u))
    BY DEF CommitRow
  <2>2. Exists(u) => u \in 1 .. born
    BY <1>1 DEF IInv, TypeOK, BornInv, Exists, User
  <2> QED BY <2>1, <2>2 DEF IInv, TypeOK
<1>5. UNCHANGED <<access, born, requests>>
  BY DEF CommitRow
<1>6. Rest
  BY <1>2, <1>3, <1>4, <1>5 DEF Rest, IInv, TypeOK
<1>7. CASE ~Exists(u)
  BY <1>5, <1>6, <1>7 DEF CommitRow, Update, Effect, Kept
<1>8. CASE Exists(u)
  <2>1. req[h].sets \in {"none", "free", "forced"} /\ Update(req[h])
    BY <1>1, Zenon DEF CommitRow, Request
  <2>2. PICK r : r = row
    OBVIOUS
  <2>3. /\ users[u] \in Row /\ row \in Row /\ row.name = users[u].name
        /\ users' = [users EXCEPT ![u] = row]
        /\ Remembered(u, row)
        /\ SameStanding(req[h].seen, req[h].new) => SameStanding(users[u], row)
    BY <1>1, <1>8, <2>1, <2>2, UpdateRewrites
  <2>4. IsAdmin(u) => (row.role = "admin" /\ row.active) \/ Ousted(u)
    <3>1. CASE SameStanding(req[h].seen, req[h].new)
      BY <2>3, <3>1 DEF IsAdmin, SameStanding
    <3>2. CASE ~SameStanding(req[h].seen, req[h].new)
      <4>1. req[h].kind = "update" /\ req[h].by \in User \ {u}
        BY <1>1, <3>2 DEF CommitRow, ReadyFits
      <4> QED BY <4>1 DEF CommitRow, Ousted
    <3> QED BY <3>1, <3>2
  <2> HIDE DEF row
  <2>5. Rewritten(u, row)
    BY <1>5, <2>3, <2>4, Zenon DEF Rewritten
  <2> QED BY <1>1, <1>6, <2>3, <2>5 DEF Effect
<1> QED BY <1>7, <1>8

LEMMA CommitDeleteStep ==
  ASSUME IInv, NEW h \in Handler, CommitDelete(h)
  PROVE  Effect /\ Rest
<1>1. req[h].target \in User /\ req[h].by \in User \ {req[h].target}
  BY DEF CommitDelete, IInv, ReqInv, ReadyFits
<1>2. req' \in [Handler -> Request] /\ ReqInv'
  BY AnswerServes DEF CommitDelete, IInv
<1>3. raced' \in BOOLEAN /\ (raced => raced')
  BY Zenon DEF CommitDelete, Race, IInv, TypeOK
<1>4. Deleted(req[h].target)
  BY <1>1 DEF CommitDelete, Deleted, Ousted
<1>5. access' \in [User -> [Company -> Permission \cup {"none"}]]
  BY <1>1 DEF CommitDelete, IInv, TypeOK
<1>6. Rest
  BY <1>2, <1>3, <1>5 DEF CommitDelete, Rest, IInv, TypeOK
<1> QED BY <1>1, <1>4, <1>6 DEF Effect

LEMMA CommitCreateStep ==
  ASSUME IInv, NEW h \in Handler, CommitCreate(h)
  PROVE  Effect /\ Rest
<1>1. req[h].new \in Row
  BY DEF CommitCreate, IInv, ReqInv, ReadyFits
<1>2. req' \in [Handler -> Request] /\ ReqInv'
  BY AnswerServes DEF CommitCreate, IInv
<1>3. CASE Insert(req[h].new)
  <2>1. Effect /\ born' = born + 1
    BY <1>1, <1>3, InsertCreates DEF CommitCreate, IInv, Effect
  <2>2. UNCHANGED <<access, cookies, raced, requests>>
    BY DEF CommitCreate
  <2> QED BY <1>2, <2>1, <2>2 DEF Rest, IInv, TypeOK
<1>4. CASE UNCHANGED <<users, secret, born>>
  BY <1>2, <1>4 DEF CommitCreate, Effect, Kept, Rest, IInv, TypeOK
<1> QED BY <1>3, <1>4 DEF CommitCreate

LEMMA CommitGrantStep ==
  ASSUME IInv, NEW h \in Handler, CommitGrant(h)
  PROVE  Kept /\ Rest
<1> DEFINE u == req[h].target
           c == req[h].company
<1>1. u \in User /\ c \in Company /\ req[h].perm \in Permission
  BY DEF CommitGrant, IInv, ReqInv, ReadyFits
<1>2. req' \in [Handler -> Request] /\ ReqInv'
  BY AnswerServes DEF CommitGrant, IInv
<1>3. \/ UNCHANGED access
      \/ \E p \in Permission \cup {"none"} :
           /\ access' = [access EXCEPT ![u] = [@ EXCEPT ![c] = p]]
           /\ p # "none" => access[u][c] # "none" \/ Exists(u)
  BY <1>1, Zenon DEF CommitGrant, Insertable
<1>4. /\ access' \in [User -> [Company -> Permission \cup {"none"}]]
      /\ \A v \in User, d \in Company :
           access'[v][d] # "none" => access[v][d] # "none" \/ Exists(v)
  <2>1. ASSUME NEW p \in Permission \cup {"none"},
               access' = [access EXCEPT ![u] = [@ EXCEPT ![c] = p]],
               p # "none" => access[u][c] # "none" \/ Exists(u)
        PROVE  <1>4!1 /\ <1>4!2
    <3> HIDE DEF u, c
    <3>1. access \in [User -> [Company -> Permission \cup {"none"}]]
      BY DEF IInv, TypeOK
    <3>2. [access[u] EXCEPT ![c] = p] \in [Company -> Permission \cup {"none"}]
      BY <1>1, <2>1, <3>1
    <3> QED BY <1>1, <2>1, <3>1, <3>2
  <2> QED BY <1>3, <2>1 DEF IInv, TypeOK
<1>6. UNCHANGED <<users, secret, born, cookies, raced, requests>>
  BY DEF CommitGrant
<1> QED BY <1>2, <1>4, <1>6 DEF Kept, Rest, IInv, TypeOK

LEMMA CommitScriptStep ==
  ASSUME IInv, NEW h \in Handler, CommitScript(h)
  PROVE  Effect /\ Rest
<1> DEFINE u == req[h].target
           row == Written(users[u], req[h].seen, req[h].new)
<1>1. /\ req[h].new \in Row /\ req[h].new.role = "admin" /\ req[h].new.active
      /\ u # 0 => RowFits(req[h]) /\ MustFits(req[h])
  BY DEF CommitScript, IInv, ReqInv, ReadyFits, MustFits
<1>2. req' \in [Handler -> Request] /\ ReqInv'
  BY AnswerServes DEF CommitScript, IInv
<1>3. UNCHANGED <<access, cookies, raced, requests>>
  BY DEF CommitScript
<1>4. CASE u = 0 /\ Insert(req[h].new)
  <2>1. Effect /\ born' = born + 1
    BY <1>1, <1>3, <1>4, InsertCreates DEF IInv, Effect
  <2> QED BY <1>2, <1>3, <2>1 DEF Rest, IInv, TypeOK
<1>5. CASE UNCHANGED <<users, secret, born>>
  BY <1>2, <1>3, <1>5 DEF Effect, Kept, Rest, IInv, TypeOK
<1>6. CASE u # 0 /\ Exists(u) /\ Update(req[h]) /\ UNCHANGED born
  <2>1. u \in User /\ req[h].sets \in {"none", "free", "forced"} /\ req[h].seen \in Row
    BY <1>1, <1>6 DEF RowFits, IInv, TypeOK, Request
  <2>2. PICK r : r = row
    OBVIOUS
  <2>3. /\ users[u] \in Row /\ row \in Row /\ row.name = users[u].name
        /\ users' = [users EXCEPT ![u] = row]
        /\ Remembered(u, row)
    BY <1>1, <1>6, <2>1, <2>2, UpdateRewrites
  <2>4. IsAdmin(u) => row.role = "admin" /\ row.active
    BY <1>1, <1>6, <2>1, <2>3, WrittenTyped DEF RowFits, IsAdmin
  <2> HIDE DEF row
  <2>5. Rewritten(u, row)
    BY <1>3, <1>6, <2>3, <2>4, Zenon DEF Rewritten
  <2> QED BY <1>2, <1>3, <1>6, <2>1, <2>3, <2>5 DEF Effect, Rest, IInv, TypeOK
<1> QED BY <1>4, <1>5, <1>6, Zenon DEF CommitScript, Update

LEMMA OtherStep ==
  ASSUME IInv, NEW u \in User, Logout(u) \/ LockExpires(u)
  PROVE  Effect /\ Rest
<1>1. CASE Logout(u)
  BY <1>1 DEF Logout, Effect, Kept, Rest, IInv, TypeOK, ReqInv
<1>2. CASE LockExpires(u)
  <2> DEFINE row == [users[u] EXCEPT !.lock = "past"]
  <2>1. users[u] \in Row
    BY <1>2, ExistsIsRow DEF LockExpires, IInv
  <2>2. /\ row \in Row /\ row.name = users[u].name /\ SameStanding(users[u], row)
        /\ row.must = users[u].must
    BY <2>1 DEF Row, SameStanding
  <2>3. users' = [users EXCEPT ![u] = row] /\ UNCHANGED <<born, access, secret>>
    BY <1>2 DEF LockExpires
  <2>4. secret[u] \in Secret /\ secret' = [secret EXCEPT ![u] = secret[u]]
    BY <2>3 DEF IInv, TypeOK
  <2> HIDE DEF row
  <2>5. Remembered(u, row)
    BY <2>2, <2>4 DEF Remembered
  <2>6. Rewritten(u, row)
    BY <2>1, <2>2, <2>3, <2>5 DEF Rewritten, SameStanding, IsAdmin
  <2>7. Rest
    BY <1>2 DEF LockExpires, Rest, IInv, TypeOK, ReqInv
  <2> QED BY <2>2, <2>6, <2>7 DEF Effect
<1> QED BY <1>1, <1>2

LEMMA NextEffect == IInv /\ [Next]_vars => Effect /\ Rest
<1> SUFFICES ASSUME IInv, [Next]_vars PROVE Effect /\ Rest
  OBVIOUS
<1>1. CASE UNCHANGED vars
  BY <1>1 DEF vars, Effect, Kept, Rest, IInv, TypeOK, ReqInv
<1>2. CASE Next
  <2>1. 1 \in User
    BY AccountBounds DEF User
  <2> QED BY <1>2, <2>1, LoadStep, CommitRowStep, CommitDeleteStep, CommitCreateStep,
             CommitGrantStep, CommitScriptStep, OtherStep, Zenon DEF Next, Effect
<1> QED BY <1>1, <1>2

-----------------------------------------------------------------------------
(***************************************************************************)
(* The inductive invariant.                                                *)
(***************************************************************************)

LEMMA InitIInv == Init => IInv
<1> SUFFICES ASSUME Init PROVE IInv
  OBVIOUS
<1>1. PICK name \in [User -> Name], role \in [User -> Role], must \in [User -> BOOLEAN] :
        users = [u \in User |-> IF u <= born THEN Fresh(name[u], role[u], must[u]) ELSE NoRow]
  BY DEF Init
<1>2. born \in 1 .. MaxUsers /\ cookies \in SUBSET (1 .. born)
  BY DEF Init
<1>3. users \in [User -> Row \cup {NoRow}] /\ BornInv
  <2>1. \A u \in User : Fresh(name[u], role[u], must[u]) \in Row
    BY <1>1, FreshTyped
  <2>2. \A u \in User : users[u] = IF u <= born THEN Fresh(name[u], role[u], must[u]) ELSE NoRow
    BY <1>1
  <2>3. \A u \in User : u > born => ~(u <= born)
    BY <1>2 DEF User
  <2>4. users = [u \in User |-> users[u]]
    BY <1>1
  <2> QED BY <2>1, <2>2, <2>3, <2>4 DEF BornInv
<1>4. req \in [Handler -> Request] /\ ReqInv
  BY NoReqTyped DEF Init, ReqInv
<1>5. access \in [User -> [Company -> Permission \cup {"none"}]]
  BY DEF Init
<1>6. raced \in BOOLEAN /\ requests \in 0 .. MaxRequests /\ born \in 0 .. MaxUsers
  <2>1. born \in 0 .. MaxUsers
    BY <1>2, AccountBounds
  <2>2. raced = FALSE /\ requests = 0
    BY DEF Init
  <2>3. 0 \in 0 .. MaxRequests
    BY AccountBounds
  <2> QED BY <2>1, <2>2, <2>3
<1>7. secret \in [User -> Secret]
  BY DEF Init, Secret, SecretOf
<1>8. TypeOK
  BY <1>2, <1>3, <1>4, <1>5, <1>6, <1>7 DEF TypeOK
<1> QED BY <1>3, <1>4, <1>8 DEF IInv

LEMMA NextIInv == IInv /\ [Next]_vars => IInv'
<1> SUFFICES ASSUME IInv, [Next]_vars PROVE IInv'
  OBVIOUS
<1>1. Effect /\ Rest
  BY NextEffect
<1>2. users' \in [User -> Row \cup {NoRow}] /\ born' \in 0 .. MaxUsers /\ BornInv'
  <2>1. CASE Kept
    BY <2>1 DEF Kept, IInv, TypeOK, BornInv
  <2>2. ASSUME NEW u \in User, NEW row \in Row, Rewritten(u, row) PROVE <1>2
    BY <2>2, RowIsNot DEF Rewritten, IInv, TypeOK, BornInv
  <2>3. ASSUME NEW row \in Row, Created(row) PROVE <1>2
    <3>1. born + 1 \in User /\ born' \in 0 .. MaxUsers
      BY <2>3, AccountBounds DEF Created, IInv, TypeOK, User
    <3>2. users' \in [User -> Row \cup {NoRow}]
      BY <2>3, <3>1 DEF Created, IInv, TypeOK
    <3>3. \A u \in User : u > born' => u > born /\ u # born + 1
      BY <2>3, <3>1 DEF Created, User, IInv, TypeOK
    <3>4. BornInv'
      BY <2>3, <3>1, <3>3 DEF Created, IInv, TypeOK, BornInv
    <3> QED BY <3>1, <3>2, <3>4
  <2>4. ASSUME NEW u \in User, Deleted(u) PROVE <1>2
    BY <2>4 DEF Deleted, IInv, TypeOK, BornInv
  <2> QED BY <1>1, <2>1, <2>2, <2>3, <2>4 DEF Effect
<1>3. secret' \in [User -> Secret]
  <2>1. ASSUME NEW u \in Nat, NEW s \in Secret, secret' = [secret EXCEPT ![u] = s]
        PROVE  secret' \in [User -> Secret]
    BY <2>1 DEF IInv, TypeOK
  <2>2. \A row \in Row : SecretOf(row) \in Secret
    BY DEF SecretOf, Secret
  <2>3. UNCHANGED secret \/ \E u \in Nat, s \in Secret : secret' = [secret EXCEPT ![u] = s]
    <3>1. born + 1 \in Nat /\ \A u \in User : u \in Nat
      BY DEF IInv, TypeOK, User
    <3> QED BY <1>1, <2>2, <3>1 DEF Effect, Kept, Rewritten, Remembered, Created, Deleted
  <2> QED BY <2>1, <2>3 DEF IInv, TypeOK
<1> QED BY <1>1, <1>2, <1>3 DEF Rest, IInv, TypeOK

LEMMA Invariance == Spec => []IInv
BY InitIInv, NextIInv, PTL DEF Spec

-----------------------------------------------------------------------------
(***************************************************************************)
(* The theorems.                                                           *)
(***************************************************************************)

\* Every variable keeps its type: every row that a stale form is written over
\* remains a row.
THEOREM TypeCorrect == Spec => []TypeOK
<1>1. IInv => TypeOK
  BY DEF IInv
<1> QED BY <1>1, Invariance, PTL

\* No two accounts ever share a name, however many handlers look for it before
\* they insert.
THEOREM NamesAreUnique == Spec => []UniqueNames
<1>1. Init => UniqueNames
  <2> SUFFICES ASSUME Init PROVE UniqueNames
    OBVIOUS
  <2>1. PICK name \in [User -> Name], role \in [User -> Role], must \in [User -> BOOLEAN] :
          /\ \A u, v \in 1 .. born : u # v => name[u] # name[v]
          /\ users = [u \in User |-> IF u <= born THEN Fresh(name[u], role[u], must[u]) ELSE NoRow]
    BY DEF Init
  <2> QED BY <2>1, FreshTyped DEF UniqueNames, Exists, User
<1>2. IInv /\ UniqueNames /\ [Next]_vars => UniqueNames'
  <2> SUFFICES ASSUME IInv, UniqueNames, [Next]_vars PROVE UniqueNames'
    OBVIOUS
  <2>1. Effect
    BY NextEffect
  <2>2. CASE Kept
    BY <2>2 DEF Kept, UniqueNames, Exists
  <2>3. ASSUME NEW u \in User, NEW row \in Row, Rewritten(u, row) PROVE UniqueNames'
    BY <2>3, RowIsNot DEF Rewritten, UniqueNames, Exists, IInv, TypeOK
  <2>4. ASSUME NEW row \in Row, Created(row) PROVE UniqueNames'
    BY <2>4 DEF Created, UniqueNames, NameFree, Exists, IInv, TypeOK
  <2>5. ASSUME NEW u \in User, Deleted(u) PROVE UniqueNames'
    BY <2>5 DEF Deleted, UniqueNames, Exists, IInv, TypeOK
  <2> QED BY <2>1, <2>2, <2>3, <2>4, <2>5 DEF Effect
<1> QED BY <1>1, <1>2, Invariance, PTL DEF Spec

\* A grant never outlives its account, nor is it given to one that is gone.
THEOREM GrantsHaveUsers == Spec => []NoOrphanGrants
<1>1. Init => NoOrphanGrants
  BY DEF Init, NoOrphanGrants
<1>2. IInv /\ NoOrphanGrants /\ [Next]_vars => NoOrphanGrants'
  <2> SUFFICES ASSUME IInv, NoOrphanGrants, [Next]_vars PROVE NoOrphanGrants'
    OBVIOUS
  <2>1. Effect
    BY NextEffect
  <2>2. CASE Kept
    BY <2>2 DEF Kept, NoOrphanGrants, Exists
  <2>3. ASSUME NEW u \in User, NEW row \in Row, Rewritten(u, row) PROVE NoOrphanGrants'
    BY <2>3, RowIsNot DEF Rewritten, NoOrphanGrants, Exists, IInv, TypeOK
  <2>4. ASSUME NEW row \in Row, Created(row) PROVE NoOrphanGrants'
    BY <2>4, RowIsNot DEF Created, NoOrphanGrants, Exists, IInv, TypeOK
  <2>5. ASSUME NEW u \in User, Deleted(u) PROVE NoOrphanGrants'
    BY <2>5 DEF Deleted, NoOrphanGrants, Exists, IInv, TypeOK
  <2> QED BY <2>1, <2>2, <2>3, <2>4, <2>5 DEF Effect
<1> QED BY <1>1, <1>2, Invariance, PTL DEF Spec

\* An active administrator is left, unless a request that removed one had
\* outlived the authority it was accepted with.
THEOREM AdministratorIsLeft == Spec => []AdminRemains
<1>1. Init => AdminRemains
  <2> SUFFICES ASSUME Init PROVE AdminRemains
    OBVIOUS
  <2>1. PICK name \in [User -> Name], role \in [User -> Role], must \in [User -> BOOLEAN] :
          /\ role[1] = "admin"
          /\ users = [u \in User |-> IF u <= born THEN Fresh(name[u], role[u], must[u]) ELSE NoRow]
    BY DEF Init
  <2>2. 1 \in User /\ 1 <= born
    BY AccountBounds DEF Init, User
  <2>3. users[1] \in Row /\ users[1].role = "admin" /\ users[1].active
    BY <2>1, <2>2, FreshTyped
  <2> QED BY <2>2, <2>3, RowIsNot DEF AdminRemains, IsAdmin, Exists
<1>2. IInv /\ AdminRemains /\ [Next]_vars => AdminRemains'
  <2> SUFFICES ASSUME IInv, AdminRemains, [Next]_vars, ~raced' PROVE \E u \in User : IsAdmin(u)'
    BY DEF AdminRemains
  <2>1. Effect /\ ~raced
    BY NextEffect DEF Rest
  <2>2. PICK a \in User : IsAdmin(a)
    BY <2>1 DEF AdminRemains
  \* Whoever takes an administrator's place or account away is one, and stays it.
  <2>3. ASSUME NEW u \in User, NEW row \in Row \cup {NoRow},
               users' = [users EXCEPT ![u] = row], Ousted(u), a = u
        PROVE  \E v \in User : IsAdmin(v)'
    <3>1. PICK h \in Handler : req[h].by \in User \ {u} /\ Race(h)
      BY <2>3 DEF Ousted
    <3>2. CASE ~IsAdmin(req[h].by)
      BY <2>2, <3>1, <3>2, Zenon DEF Race
    <3>3. CASE IsAdmin(req[h].by)
      <4>1. PICK b \in User \ {u} : IsAdmin(b)
        BY <3>1, <3>3
      <4>2. IsAdmin(b)'
        BY <2>3, <4>1 DEF IsAdmin, Exists, IInv, TypeOK
      <4> QED BY <4>1, <4>2
    <3> QED BY <3>2, <3>3
  <2>4. CASE Kept
    BY <2>2, <2>4 DEF Kept, IsAdmin, Exists
  <2>5. ASSUME NEW u \in User, NEW row \in Row, Rewritten(u, row) PROVE \E v \in User : IsAdmin(v)'
    <3>1. CASE a # u
      BY <2>2, <2>5, <3>1 DEF Rewritten, IsAdmin, Exists, IInv, TypeOK
    <3>2. CASE a = u /\ row.role = "admin" /\ row.active
      BY <2>5, <3>2, RowIsNot DEF Rewritten, IsAdmin, Exists, IInv, TypeOK
    <3>3. CASE a = u /\ Ousted(u)
      BY <2>3, <2>5, <3>3 DEF Rewritten
    <3> QED BY <2>2, <2>5, <3>1, <3>2, <3>3 DEF Rewritten
  <2>6. ASSUME NEW row \in Row, Created(row) PROVE \E v \in User : IsAdmin(v)'
    <3>1. a # born + 1
      BY <2>2 DEF IsAdmin, Exists, IInv, TypeOK, BornInv
    <3> QED BY <2>2, <2>6, <3>1 DEF Created, IsAdmin, Exists, IInv, TypeOK
  <2>7. ASSUME NEW u \in User, Deleted(u) PROVE \E v \in User : IsAdmin(v)'
    <3>1. CASE a # u
      BY <2>2, <2>7, <3>1 DEF Deleted, IsAdmin, Exists, IInv, TypeOK
    <3>2. CASE a = u
      BY <2>3, <2>7, <3>2 DEF Deleted
    <3> QED BY <3>1, <3>2
  <2> QED BY <2>1, <2>4, <2>5, <2>6, <2>7 DEF Effect
<1> QED BY <1>1, <1>2, Invariance, PTL DEF Spec

\* A forced change stays in force until the password is changed, and no longer,
\* unless two changes of one password overlapped.
THEOREM FlagTellsPassword == Spec => []MustMatchesSecret
<1>1. Init => MustMatchesSecret
  <2> SUFFICES ASSUME Init, NEW u \in User, Exists(u) PROVE Tells(secret[u], users[u])
    BY DEF MustMatchesSecret, Tells
  <2>1. PICK name \in [User -> Name], role \in [User -> Role], must \in [User -> BOOLEAN] :
          users = [v \in User |-> IF v <= born THEN Fresh(name[v], role[v], must[v]) ELSE NoRow]
    BY DEF Init
  <2>2. u <= born
    BY <2>1 DEF Exists
  <2>3. secret[u] = SecretOf(users[u])
    BY <2>2 DEF Init
  <2> QED BY <2>3 DEF Tells, SecretOf
<1>2. IInv /\ MustMatchesSecret /\ [Next]_vars => MustMatchesSecret'
  <2> SUFFICES ASSUME IInv, MustMatchesSecret, [Next]_vars, NEW v \in User, Exists(v)'
               PROVE  secret'[v] # "crossed" => (users'[v].must <=> secret'[v] = "forced")
    BY DEF MustMatchesSecret
  <2>1. Effect
    BY NextEffect
  <2>2. Exists(v) => Tells(secret[v], users[v])
    BY DEF MustMatchesSecret, Tells
  <2>3. CASE Kept
    BY <2>2, <2>3 DEF Kept, Exists, Tells
  <2>4. ASSUME NEW u \in User, NEW row \in Row, Rewritten(u, row)
        PROVE  Tells(secret'[v], users'[v])
    <3>1. CASE v # u
      <4>1. secret'[v] = secret[v] /\ users'[v] = users[v]
        BY <2>4, <3>1 DEF Rewritten, Remembered, IInv, TypeOK
      <4> QED BY <2>2, <4>1 DEF Exists
    <3>2. CASE v = u
      <4>1. Exists(v) /\ users'[v] = row
        BY <2>4, <3>2, RowIsNot DEF Rewritten, Exists, IInv, TypeOK
      <4>2. PICK s \in Secret :
              /\ secret' = [secret EXCEPT ![u] = s]
              /\ Tells(s, row) \/ (s = secret[u] /\ row.must = users[u].must)
        BY <2>4 DEF Rewritten, Remembered
      <4>3. secret'[v] = s
        BY <3>2, <4>2 DEF IInv, TypeOK
      <4> QED BY <2>2, <3>2, <4>1, <4>2, <4>3 DEF Tells
    <3> QED BY <3>1, <3>2
  <2>5. ASSUME NEW row \in Row, Created(row) PROVE Tells(secret'[v], users'[v])
    <3>1. CASE v # born + 1
      BY <2>2, <2>5, <3>1 DEF Created, Exists, IInv, TypeOK
    <3>2. CASE v = born + 1
      <4>1. users'[v] = row /\ secret'[v] = SecretOf(row)
        BY <2>5, <3>2 DEF Created, IInv, TypeOK
      <4> QED BY <4>1 DEF Tells, SecretOf
    <3> QED BY <3>1, <3>2
  <2>6. ASSUME NEW u \in User, Deleted(u) PROVE Tells(secret'[v], users'[v])
    BY <2>2, <2>6 DEF Deleted, Exists, IInv, TypeOK
  <2> QED BY <2>1, <2>3, <2>4, <2>5, <2>6 DEF Effect, Tells
<1> QED BY <1>1, <1>2, Invariance, PTL DEF Spec

\* The account whose row changes in an UPDATE is the one the UPDATE names.
LEMMA OnlyThatRow ==
  ASSUME IInv, NEW q, Update(q), NEW u \in User, users'[u] # users[u]
  PROVE  q.target = u /\ users'[u] = Written(users[u], q.seen, q.new)
<1> DEFINE t == q.target
           row == Written(users[t], q.seen, q.new)
<1>1. users' = [users EXCEPT ![t] = row] \/ users' = users
  BY Zenon DEF Update
<1>2. users \in [User -> Row \cup {NoRow}]
  BY DEF IInv, TypeOK
<1>3. t = u /\ users'[u] = row
  <2> HIDE DEF row
  <2> QED BY <1>1, <1>2
<1> QED BY <1>3

\* A request that is answered is over.
LEMMA AnswerIsIdle ==
  ASSUME IInv, NEW h \in Handler, Answer(h) PROVE req'[h].pc = "idle"
<1>1. req' = [req EXCEPT ![h] = NoReq]
  BY Zenon DEF Answer
<1>2. req'[h] = NoReq
  BY <1>1 DEF IInv, TypeOK
<1> QED BY <1>2, NoReqTyped

\* A lock in force is lifted only in the commit of an administrator's request,
\* of the script, or of a login that had found the account with a lock expired.
THEOREM LockLiftedOnPurpose == Spec => LockIsLiftedOnPurpose
<1> DEFINE Lifted(u) == Exists(u) /\ users[u].lock = "ahead" /\ Exists(u)' /\ users'[u].lock = "no"
           Why(u) == \E h \in Handler : req[h].pc = "ready" /\ req'[h].pc = "idle" /\ req[h].target = u /\
                       \/ req[h].kind \in {"update", "unlock", "script"}
                       \/ req[h].kind = "login" /\ req[h].seen.lock = "past"
<1>1. ASSUME IInv, Next, NEW u \in User, Lifted(u) PROVE Why(u)
  <2>1. ~UNCHANGED users /\ users[u] \in Row
    BY <1>1, ExistsIsRow DEF IInv
  <2>2. ASSUME NEW h \in Handler, CommitRow(h) PROVE Why(u)
    <3>1. /\ ReadyFits(req[h]) /\ RowFits(req[h]) /\ req[h].pc = "ready"
          /\ req[h].kind \in {"login", "update", "unlock", "password"}
      BY <1>1, <2>2 DEF CommitRow, IInv, TypeOK, ReqInv, ReadyFits, RowFits
    <3>2. Update(req[h])
      BY <2>2, Zenon DEF CommitRow
    <3>3. req[h].target = u /\ users'[u] = Written(users[u], req[h].seen, req[h].new)
      BY <1>1, <2>1, <3>1, <3>2, OnlyThatRow
    <3>4. req[h].seen.lock # "no" /\ req[h].new.lock # req[h].seen.lock
      BY <1>1, <2>1, <3>1, <3>3, WrittenTyped DEF RowFits
    <3>5. /\ req[h].kind = "login" => req[h].seen.lock = "past"
          /\ req[h].kind # "password"
      BY <3>1, <3>4 DEF ReadyFits, RowFits, Row
    <3>6. Answer(h)
      BY <2>2, Zenon DEF CommitRow
    <3>7. req'[h].pc = "idle"
      BY <1>1, <3>6, AnswerIsIdle
    <3> QED BY <3>1, <3>3, <3>5, <3>7
  <2>3. ASSUME NEW h \in Handler, CommitScript(h) PROVE Why(u)
    <3>1. req[h].pc = "ready" /\ req[h].kind = "script" /\ Answer(h)
      BY <2>3, Zenon DEF CommitScript
    <3>2. req'[h].pc = "idle"
      BY <1>1, <3>1, AnswerIsIdle
    <3>3. req[h].target = u
      <4>1. CASE Insert(req[h].new)
        <5>1. u = born + 1
          BY <1>1, <4>1 DEF Insert, IInv, TypeOK
        <5> QED BY <1>1, <5>1 DEF Exists, IInv, TypeOK, BornInv
      <4>2. CASE Update(req[h])
        BY <1>1, <2>1, <4>2, OnlyThatRow
      <4>3. Insert(req[h].new) \/ UNCHANGED users \/ Update(req[h])
        BY <2>3, Zenon DEF CommitScript
      <4> QED BY <2>1, <4>1, <4>2, <4>3
    <3> QED BY <3>1, <3>2, <3>3
  <2>4. ASSUME NEW h \in Handler, CommitDelete(h) PROVE FALSE
    BY <1>1, <2>4 DEF CommitDelete, Exists, IInv, TypeOK
  <2>5. ASSUME NEW h \in Handler, CommitCreate(h) PROVE FALSE
    <3>1. u = born + 1
      BY <1>1, <2>1, <2>5 DEF CommitCreate, Insert, IInv, TypeOK
    <3> QED BY <1>1, <3>1 DEF Exists, IInv, TypeOK, BornInv
  <2>6. ASSUME NEW v \in User, LockExpires(v) PROVE FALSE
    <3>1. users'[u] = users[u] \/ users'[u] = [users[u] EXCEPT !.lock = "past"]
      BY <2>6 DEF LockExpires, IInv, TypeOK
    <3> QED BY <1>1, <2>1, <3>1 DEF Row
  <2>7. ASSUME NEW h \in Handler, NEW v \in User,
               \/ LoginLoads(h, v) \/ Authorise(h, v) \/ UpdateLoads(h, v) \/ UnlockLoads(h, v)
               \/ DeleteLoads(h, v) \/ GrantLoads(h, v) \/ CreateLoads(h) \/ ScriptLoads(h)
               \/ PasswordLoads(h, v)
        PROVE  FALSE
    BY <2>1, <2>7, LoadStep, <1>1 DEF Kept
  <2>8. ASSUME NEW h \in Handler, CommitGrant(h) PROVE FALSE
    BY <2>1, <2>8 DEF CommitGrant
  <2>9. ASSUME NEW v \in User, Logout(v) PROVE FALSE
    BY <2>1, <2>9 DEF Logout
  <2> QED BY <1>1, <2>2, <2>3, <2>4, <2>5, <2>6, <2>7, <2>8, <2>9, Zenon DEF Next
<1>2. IInv /\ [Next]_vars => [\A u \in User : Lifted(u) => Why(u)]_vars
  BY <1>1
<1> QED BY <1>2, Invariance, PTL DEF Spec, LockIsLiftedOnPurpose

-----------------------------------------------------------------------------
(***************************************************************************)
(* Who an account belongs to, and who decides about it.                    *)
(***************************************************************************)

\* An account keeps its name, and an id that has been given out is never given
\* to another account: the cookie of an account that is gone opens no other.
IdentityIsKept ==
  [][\A u \in User :
       /\ Exists(u) /\ Exists(u)' => users'[u].name = users[u].name
       /\ ~Exists(u) /\ Exists(u)' => u \notin 1 .. born /\ u \in 1 .. born' /\ u \notin cookies]_vars

\* A role, the activity, or the existence of an account changes only in the
\* commit of another administrator's form, or of the script: no login, unlock
\* or password change under way undoes what an administrator decided meanwhile,
\* and nobody promotes, disables or deletes themselves.
StandingIsAdministered ==
  [][\A u \in User : Exists(u) /\ ~(Exists(u)' /\ SameStanding(users[u], users'[u])) =>
       \E h \in Handler : req[h].pc = "ready" /\ req'[h].pc = "idle" /\ req[h].target = u /\
         \/ req[h].kind \in {"update", "delete"} /\ req[h].by \in User \ {u}
         \/ req[h].kind = "script"]_vars

\* Names and ids of accounts mean the same account for ever.
THEOREM AccountsKeepIdentity == Spec => IdentityIsKept
<1> DEFINE Same(u) == /\ Exists(u) /\ Exists(u)' => users'[u].name = users[u].name
                      /\ ~Exists(u) /\ Exists(u)' => u \notin 1 .. born /\ u \in 1 .. born' /\ u \notin cookies
<1>1. ASSUME IInv, [Next]_vars, NEW u \in User PROVE Same(u)
  <2>1. Effect
    BY <1>1, NextEffect
  <2>2. CASE Kept
    BY <2>2 DEF Kept, Exists
  <2>3. ASSUME NEW v \in User, NEW row \in Row, Rewritten(v, row) PROVE Same(u)
    BY <1>1, <2>3, RowIsNot DEF Rewritten, Exists, IInv, TypeOK
  <2>4. ASSUME NEW row \in Row, Created(row) PROVE Same(u)
    <3>1. /\ users' = [users EXCEPT ![born + 1] = row] /\ born' = born + 1
          /\ born \in Nat /\ cookies \subseteq 1 .. born /\ users \in [User -> Row \cup {NoRow}]
      BY <1>1, <2>4 DEF Created, IInv, TypeOK
    <3>2. CASE u = born + 1
      <4>1. users[u] = NoRow
        BY <1>1, <3>1, <3>2 DEF IInv, BornInv
      <4>2. u \notin 1 .. born /\ u \in 1 .. born'
        BY <3>1, <3>2
      <4> QED BY <3>1, <4>1, <4>2 DEF Exists
    <3>3. CASE u # born + 1
      <4>1. users'[u] = users[u]
        BY <3>1, <3>3
      <4> QED BY <4>1 DEF Exists
    <3> QED BY <3>2, <3>3
  <2>5. ASSUME NEW v \in User, Deleted(v) PROVE Same(u)
    BY <1>1, <2>5 DEF Deleted, Exists, IInv, TypeOK
  <2> QED BY <2>1, <2>2, <2>3, <2>4, <2>5 DEF Effect
<1>2. IInv /\ [Next]_vars => [\A u \in User : Same(u)]_vars
  BY <1>1
<1> QED BY <1>2, Invariance, PTL DEF Spec, IdentityIsKept

\* Only administrators and the script decide about accounts, and never about
\* their own.
THEOREM AdministratorsDecide == Spec => StandingIsAdministered
<1> DEFINE Changed(u) == Exists(u) /\ ~(Exists(u)' /\ SameStanding(users[u], users'[u]))
           Why(u) == \E h \in Handler : req[h].pc = "ready" /\ req'[h].pc = "idle" /\ req[h].target = u /\
                       \/ req[h].kind \in {"update", "delete"} /\ req[h].by \in User \ {u}
                       \/ req[h].kind = "script"
<1>1. ASSUME IInv, Next, NEW u \in User, Changed(u) PROVE Why(u)
  <2>1. users'[u] # users[u] /\ users[u] \in Row
    BY <1>1, ExistsIsRow DEF IInv, SameStanding, Exists
  <2>2. ASSUME NEW h \in Handler, CommitRow(h) PROVE Why(u)
    <3>1. /\ ReadyFits(req[h]) /\ RowFits(req[h]) /\ MustFits(req[h]) /\ req[h].pc = "ready"
          /\ req[h].kind \in {"login", "update", "unlock", "password"}
          /\ req[h].sets \in {"none", "free", "forced"}
      BY <1>1, <2>2 DEF CommitRow, IInv, TypeOK, ReqInv, ReadyFits, RowFits, Request
    <3>2. Update(req[h]) /\ Answer(h)
      BY <2>2, Zenon DEF CommitRow
    <3>3. req[h].target = u /\ users'[u] = Written(users[u], req[h].seen, req[h].new)
      BY <1>1, <2>1, <3>1, <3>2, OnlyThatRow
    <3>4. users'[u] \in Row /\ ~SameStanding(users[u], users'[u])
      <4>1. users'[u] \in Row
        BY <2>1, <3>1, <3>3, WrittenTyped DEF RowFits
      <4>2. Exists(u)'
        BY <4>1, RowIsNot DEF Exists
      <4> QED BY <1>1, <4>1, <4>2
    <3>5. ~SameStanding(req[h].seen, req[h].new)
      <4>1. SameStanding(req[h].seen, req[h].new) => SameStanding(users[u], users'[u])
        BY <2>1, <3>1, <3>3, WrittenTyped DEF RowFits, SameStanding
      <4> QED BY <3>4, <4>1
    <3>6. req[h].kind = "update" /\ req[h].by \in User \ {u}
      BY <3>1, <3>3, <3>5 DEF ReadyFits
    <3>7. req'[h].pc = "idle"
      BY <1>1, <3>2, AnswerIsIdle
    <3> QED BY <3>1, <3>3, <3>6, <3>7
  <2>3. ASSUME NEW h \in Handler, CommitScript(h) PROVE Why(u)
    <3>1. req[h].pc = "ready" /\ req[h].kind = "script" /\ Answer(h)
      BY <2>3, Zenon DEF CommitScript
    <3>2. req'[h].pc = "idle"
      BY <1>1, <3>1, AnswerIsIdle
    <3>3. req[h].target = u
      <4>1. CASE Insert(req[h].new)
        <5>1. u = born + 1
          BY <2>1, <4>1, <1>1 DEF Insert, IInv, TypeOK
        <5> QED BY <1>1, <5>1 DEF Exists, IInv, TypeOK, BornInv
      <4>2. CASE Update(req[h])
        BY <1>1, <2>1, <4>2, OnlyThatRow
      <4>3. Insert(req[h].new) \/ UNCHANGED users \/ Update(req[h])
        BY <2>3, Zenon DEF CommitScript
      <4> QED BY <2>1, <4>1, <4>2, <4>3
    <3> QED BY <3>1, <3>2, <3>3
  <2>4. ASSUME NEW h \in Handler, CommitDelete(h) PROVE Why(u)
    <3>1. /\ req[h].pc = "ready" /\ req[h].kind = "delete" /\ Answer(h)
          /\ users' = [users EXCEPT ![req[h].target] = NoRow]
      BY <2>4, Zenon DEF CommitDelete
    <3>2. req[h].target # req[h].by /\ req[h].by \in User
      BY <1>1, <3>1 DEF IInv, ReqInv, ReadyFits
    <3>3. req[h].target = u
      BY <1>1, <2>1, <3>1 DEF IInv, TypeOK
    <3>4. req'[h].pc = "idle"
      BY <1>1, <3>1, AnswerIsIdle
    <3> QED BY <3>1, <3>2, <3>3, <3>4
  <2>5. ASSUME NEW h \in Handler, CommitCreate(h) PROVE FALSE
    <3>1. u = born + 1
      BY <1>1, <2>1, <2>5 DEF CommitCreate, Insert, IInv, TypeOK
    <3> QED BY <1>1, <3>1 DEF Exists, IInv, TypeOK, BornInv
  <2>6. ASSUME NEW v \in User, LockExpires(v) PROVE FALSE
    <3>1. users'[u] = users[u] \/ users'[u] = [users[u] EXCEPT !.lock = "past"]
      BY <2>6 DEF LockExpires, IInv, TypeOK
    <3>2. users'[u] \in Row /\ SameStanding(users[u], users'[u])
      BY <2>1, <3>1 DEF Row, SameStanding
    <3>3. Exists(u)'
      BY <3>2, RowIsNot DEF Exists
    <3> QED BY <1>1, <3>2, <3>3
  <2>7. ASSUME NEW h \in Handler, NEW v \in User,
               \/ LoginLoads(h, v) \/ Authorise(h, v) \/ UpdateLoads(h, v) \/ UnlockLoads(h, v)
               \/ DeleteLoads(h, v) \/ GrantLoads(h, v) \/ CreateLoads(h) \/ ScriptLoads(h)
               \/ PasswordLoads(h, v)
        PROVE  FALSE
    BY <2>1, <2>7, LoadStep, <1>1 DEF Kept
  <2>8. ASSUME NEW h \in Handler, CommitGrant(h) PROVE FALSE
    BY <2>1, <2>8 DEF CommitGrant
  <2>9. ASSUME NEW v \in User, Logout(v) PROVE FALSE
    BY <2>1, <2>9 DEF Logout
  <2> QED BY <1>1, <2>2, <2>3, <2>4, <2>5, <2>6, <2>7, <2>8, <2>9, Zenon DEF Next
<1>2. IInv /\ [Next]_vars => [\A u \in User : Changed(u) => Why(u)]_vars
  <2> SUFFICES ASSUME IInv, [Next]_vars, vars' # vars PROVE \A u \in User : Changed(u) => Why(u)
    OBVIOUS
  <2> HIDE DEF Changed, Why
  <2> QED BY <1>1
<1> QED BY <1>2, Invariance, PTL DEF Spec, StandingIsAdministered
=============================================================================
