--------------------------- MODULE AccountsProofs ---------------------------
(***************************************************************************)
(* Theorems about Accounts, for any number of requests, accounts, names,   *)
(* people, invites and sign-ins and for every scenario.                    *)
(***************************************************************************)
EXTENDS Accounts, FiniteSetTheorems, TLAPS

(* What makes InviteAdmitsOne inductive: an invite is held by one sign-up  *)
(* at most, is spent while it is held, and once it has made an account it  *)
(* is spent and nobody holds it, so that nobody can give it back.          *)
InviteKept(i) ==
    /\ \A r \in Requests : Holds(r, i) => invite[i].used
    /\ \A r, q \in Requests : Holds(r, i) /\ Holds(q, i) => r = q
    /\ \A u \in Ids : via[u] = i =>
          invite[i].used /\ \A r \in Requests : ~Holds(r, i)
    /\ \A u, v \in Ids : via[u] = i /\ via[v] = i => u = v

InvitesInv ==
    "lost_reply" \notin Faults => \A i \in Invites : InviteKept(i)

(* What makes EnrolledIsReached inductive. *)

(* An id nobody has got yet is known nowhere. *)
NewIsUnknown ==
    \A u \in Ids : users[u].row = "new" =>
        /\ u \notin tokens
        /\ \A s \in Subjects : identity[s] # u
        /\ \A r \in Requests : req[r].user # u

(* A link leads to an account that was made for its subject. *)
LinksAreTrue ==
    \A s \in Subjects : identity[s] # None =>
        Present(identity[s]) /\ origin[identity[s]] = s

Making(r) == Doing(r, "cb_create") \/ Doing(r, "cb_link")

(* A first callback links the account it made, and meets no other of its   *)
(* subject unless the two raced; an enrolment has a token; a password      *)
(* opens local accounts.                                                   *)
RequestIsTrue(r) ==
    LET s == req[r].subject
        u == req[r].user
    IN  /\ Making(r) /\ s \notin raced =>
              /\ identity[s] = None
              /\ \A q \in Requests : Making(q) /\ req[q].subject = s => q = r
        /\ Doing(r, "cb_link") => origin[u] = s
        /\ Doing(r, "enrol") => u \in tokens
        /\ Doing(r, "log_wait") \/ Doing(r, "log_verify") => origin[u] = None

RequestsAreTrue == \A r \in Requests : RequestIsTrue(r)

PasswordsAreLocal ==
    \A u \in Ids : Present(u) /\ users[u].password => origin[u] = None

(* Whoever holds a token of a federated account is led to it again. *)
HoldersAreLinked ==
    ~cut => \A u \in tokens : \A s \in Subjects \ raced :
        Present(u) /\ origin[u] = s => identity[s] = u

EnrolledHaveHolders ==
    \A u \in Ids : Enrolled(u) /\ origin[u] # None => u \in tokens

ReachInv == /\ NewIsUnknown /\ LinksAreTrue /\ RequestsAreTrue
            /\ PasswordsAreLocal /\ HoldersAreLinked /\ EnrolledHaveHolders

-----------------------------------------------------------------------------
(* Types *)

LEMMA ExceptTypes ==
  ASSUME NEW S, NEW T, NEW f \in [S -> T], NEW x \in S, NEW y \in T
  PROVE  [f EXCEPT ![x] = y] \in [S -> T]
  OBVIOUS

LEMMA NoneIsApart ==
  /\ None \notin Names /\ None \notin Subjects /\ None \notin Invites
  /\ None \notin Ids /\ None \notin Bundles
  BY AccountsAssumption

(* What the throttle makes of a record is a record. *)
LEMMA ThrottleTypes ==
  ASSUME NEW f \in Failures
  PROVE  /\ NoFailures \in Failures /\ ClearEnded(f) \in Failures
         /\ RecordFailure(f) \in Failures /\ RecordSuccess(f) \in Failures
         /\ Stale(f) \in Failures /\ LockEnded(f) \in Failures
  <1>1. NoFailures \in Failures
    BY ThrottleAssumption DEF NoFailures, Failures
  <1>2. Threshold # 0 /\ ~(Counted(f) >= Threshold)
          => [known |-> TRUE, count |-> Counted(f), stale |-> FALSE,
              lock |-> f.lock] \in Failures
    BY ThrottleAssumption DEF Counted, Failures
  <1>3. [known |-> TRUE, count |-> 0, stale |-> FALSE, lock |-> "on"] \in Failures
    BY ThrottleAssumption DEF Failures
  <1>4. RecordFailure(f) \in Failures
    BY <1>2, <1>3 DEF RecordFailure
  <1>5. Stale(f) \in Failures /\ LockEnded(f) \in Failures
    BY DEF Stale, LockEnded, Failures
  <1> QED
    BY <1>1, <1>4, <1>5 DEF ClearEnded, RecordSuccess

(* The rows the actions write are rows. *)
LEMMA UserTypes ==
  /\ NoUser \in User
  /\ [NoUser EXCEPT !.row = "gone"] \in User
  /\ NewShell \in User
  /\ \A n \in Names \cup {None}, k \in Bundles \cup {None} :
       LocalAccount(n, k) \in User
  /\ \A w \in User, b \in BOOLEAN :
       [w EXCEPT !.locked = b] \in User /\ [w EXCEPT !.old = b] \in User
  /\ \A w \in User, n \in Names \cup {None}, k \in Bundles \cup {None} :
       [w EXCEPT !.name = n, !.keys = k] \in User
  BY DEF NoUser, NewShell, LocalAccount, User

LEMMA InviteTypes ==
  /\ NoInvite \in Invite
  /\ \A i \in Invite, b \in BOOLEAN :
       /\ [i EXCEPT !.used = b] \in Invite /\ [i EXCEPT !.expired = b] \in Invite
       /\ [i EXCEPT !.row = "present"] \in Invite
       /\ [i EXCEPT !.row = "gone"] \in Invite
  BY DEF NoInvite, Invite

(* So are the requests that actions begin, move on and end. *)
LEMMA RequestTypes ==
  /\ Idle \in Request
  /\ \A q \in Request, pc \in Pcs : [q EXCEPT !.pc = pc] \in Request
  /\ \A q \in Request, pc \in Pcs, u \in Ids :
       [q EXCEPT !.pc = pc, !.user = u] \in Request
  BY DEF Idle, Request, Pcs

(* A request that is past its look-ups knows whom it is about. *)
Known(q) == /\ q.pc \in {"log_wait", "log_verify", "cb_link", "enrol"}
                 => q.user \in Ids
            /\ q.pc \in {"log_load", "log_wait", "log_verify"}
                 => q.name \in Names
            /\ q.pc \in {"cb_lookup", "cb_create", "cb_link"}
                 => q.subject \in Subjects

LEMMA BegunTypes ==
  /\ Idle \in Request /\ Known(Idle)
  /\ \A n \in Names, k \in Bundles, i \in Invites \cup {None} :
       SignUp(n, k, i) \in Request /\ Known(SignUp(n, k, i))
  /\ \A n \in Names, right \in BOOLEAN :
       SignIn(n, right) \in Request /\ Known(SignIn(n, right))
  /\ \A s \in Subjects : Return(s) \in Request /\ Known(Return(s))
  /\ \A u \in Ids, n \in Names, k \in Bundles :
       Enrolment(u, n, k) \in Request /\ Known(Enrolment(u, n, k))
  <1>1. /\ "reg_lookup" \in Pcs /\ "enrol" \in Pcs /\ "log_load" \in Pcs
        /\ "cb_lookup" \in Pcs /\ "idle" \in Pcs
    BY DEF Pcs, SignUpPcs
  <1>2. Idle \in Request /\ Known(Idle)
    BY <1>1 DEF Idle, Request, Known
  <1>3. ASSUME NEW n \in Names, NEW k \in Bundles, NEW i \in Invites \cup {None}
        PROVE  SignUp(n, k, i) \in Request /\ Known(SignUp(n, k, i))
    BY <1>1 DEF SignUp, Idle, Request, Known
  <1>4. ASSUME NEW u \in Ids, NEW n \in Names, NEW k \in Bundles
        PROVE  Enrolment(u, n, k) \in Request /\ Known(Enrolment(u, n, k))
    BY <1>1 DEF Enrolment, Idle, Request, Known
  <1>5. ASSUME NEW n \in Names, NEW b \in BOOLEAN
        PROVE  SignIn(n, b) \in Request /\ Known(SignIn(n, b))
    BY <1>1 DEF SignIn, Idle, Request, Known
  <1>6. ASSUME NEW s \in Subjects
        PROVE  Return(s) \in Request /\ Known(Return(s))
    BY <1>1 DEF Return, Idle, Request, Known
  <1> QED
    BY <1>2, <1>3, <1>4, <1>5, <1>6

ReqOK == req \in [Requests -> {q \in Request : Known(q)}]

Plain == {"idle", "reg_create", "reg_release", "left"}

LEMMA StepTypes ==
  ASSUME ReqOK, NEW r \in Requests
  PROVE  /\ Finish(r) => ReqOK'
         /\ \A pc \in Plain : Goto(r, pc) => ReqOK'
         /\ Doing(r, "log_wait") /\ Goto(r, "log_verify") => ReqOK'
         /\ Doing(r, "cb_lookup") /\ Goto(r, "cb_create") => ReqOK'
         /\ \A u \in Ids : Doing(r, "log_load") /\ GotoWith(r, "log_wait", u)
                             => ReqOK'
         /\ \A u \in Ids : Doing(r, "cb_create") /\ GotoWith(r, "cb_link", u)
                             => ReqOK'
         /\ GiveUp(r) => ReqOK'
         /\ \A op, q : q \in Request /\ Known(q) /\ Start(r, op, q) => ReqOK'
         /\ LookupFails(r) => ReqOK'
  <1> USE RequestTypes
  <1>0. /\ req[r] \in Request /\ Known(req[r])
        /\ Plain \cup {"log_wait", "log_verify", "cb_create", "cb_link"} \subseteq Pcs
    BY DEF ReqOK, Pcs, SignUpPcs, Plain
  <1>1. ASSUME NEW q \in Request, Known(q), req' = [req EXCEPT ![r] = q]
        PROVE  ReqOK'
    BY <1>1 DEF ReqOK
  <1>2. ASSUME NEW pc \in Pcs, Goto(r, pc), Known([req[r] EXCEPT !.pc = pc])
        PROVE  ReqOK'
    <2>1. [req[r] EXCEPT !.pc = pc] \in Request
      BY <1>0
    <2>2. req' = [req EXCEPT ![r] = [req[r] EXCEPT !.pc = pc]]
      BY <1>2 DEF Goto
    <2> QED
      BY <2>1, <2>2, <1>1, <1>2
  <1>3. ASSUME NEW pc \in Plain, Goto(r, pc) PROVE ReqOK'
    <2>1. [req[r] EXCEPT !.pc = pc].pc = pc
      BY <1>0 DEF Request
    <2> QED
      BY <1>0, <1>2, <1>3, <2>1 DEF Known, Plain
  <1>4. ASSUME Doing(r, "log_wait"), Goto(r, "log_verify") PROVE ReqOK'
    <2>1. Known([req[r] EXCEPT !.pc = "log_verify"])
      BY <1>0, <1>4 DEF Request, Doing, Known
    <2> QED
      BY <1>0, <1>2, <1>4, <2>1
  <1>5. ASSUME Doing(r, "cb_lookup"), Goto(r, "cb_create") PROVE ReqOK'
    <2>1. Known([req[r] EXCEPT !.pc = "cb_create"])
      BY <1>0, <1>5 DEF Request, Doing, Known
    <2> QED
      BY <1>0, <1>2, <1>5, <2>1
  <1>6. ASSUME NEW u \in Ids, Doing(r, "log_load"), GotoWith(r, "log_wait", u)
        PROVE  ReqOK'
    <2>1. Known([req[r] EXCEPT !.pc = "log_wait", !.user = u])
      BY <1>0, <1>6 DEF Request, Known, Doing
    <2> QED
      BY <1>0, <1>1, <1>6, <2>1 DEF GotoWith
  <1>7. ASSUME NEW u \in Ids, Doing(r, "cb_create"), GotoWith(r, "cb_link", u)
        PROVE  ReqOK'
    <2>1. Known([req[r] EXCEPT !.pc = "cb_link", !.user = u])
      BY <1>0, <1>7 DEF Request, Known, Doing
    <2> QED
      BY <1>0, <1>1, <1>7, <2>1 DEF GotoWith
  <1>8. Finish(r) => ReqOK'
    BY <1>1 DEF Finish, Known, Idle
  <1>9. \A op, q : q \in Request /\ Known(q) /\ Start(r, op, q) => ReqOK'
    BY <1>1 DEF Start
  <1> QED
    BY <1>3, <1>4, <1>5, <1>6, <1>7, <1>8, <1>9 DEF GiveUp, LookupFails, Plain

(* The rows of users, and the ghosts written with them. *)
UsersOK == /\ users \in [Ids -> User]
           /\ via \in [Ids -> Invites \cup {None}]
           /\ origin \in [Ids -> Subjects \cup {None}]

LEMMA InsertTypes ==
  ASSUME UsersOK, NEW u \in Ids, NEW user \in User,
         NEW i \in Invites \cup {None}, NEW s \in Subjects \cup {None},
         Insert(u, user, i, s)
  PROVE  UsersOK'
  BY DEF UsersOK, Insert

LEMMA DeleteTypes ==
  ASSUME users \in [Ids -> User], identity \in [Subjects -> Ids \cup {None}],
         NEW U \in SUBSET Ids, DeleteUsers(U)
  PROVE  /\ users' \in [Ids -> User]
         /\ identity' \in [Subjects -> Ids \cup {None}]
  BY UserTypes DEF DeleteUsers, Unlink

CountsOK == /\ failures \in [Names -> Failures]
            /\ guesses \in [Names -> Nat]

LEMMA FailTypes ==
  ASSUME CountsOK, NEW n \in Names, Fail(n)
  PROVE  CountsOK'
  <1>1. failures' \in [Names -> Failures]
    BY ThrottleTypes DEF CountsOK, Fail
  <1>2. guesses' \in [Names -> Nat]
    BY DEF CountsOK, Fail
  <1> QED
    BY <1>1, <1>2 DEF CountsOK

(* What sign-up changes keeps its shape, *)
LEMMA SignUpTypes ==
  ASSUME TypeOK, ReqOK, NEW r \in Requests,
         \/ \E n \in Names, k \in Bundles :
              \/ Register(r, n, k)
              \/ \E i \in Invites : RegisterInvited(r, n, k, i)
         \/ RegisterLookup(r) \/ RegisterCreate(r) \/ ReleaseInvite(r)
  PROVE  TypeOK' /\ ReqOK'
  <1> USE StepTypes, RequestTypes, BegunTypes, InviteTypes
  <1>0. UsersOK /\ CountsOK /\ req[r] \in Request /\ Known(req[r])
    BY DEF TypeOK, ReqOK, UsersOK, CountsOK
  <1>1. ASSUME NEW n \in Names, NEW k \in Bundles, Register(r, n, k)
        PROVE  TypeOK' /\ ReqOK'
    <2>1. ReqOK'
      BY <1>0, <1>1 DEF Register
    <2> QED
      BY <2>1, <1>1 DEF TypeOK, ReqOK, Register, store, memory, ghosts
  <1>2. ASSUME NEW n \in Names, NEW k \in Bundles, NEW i \in Invites,
               RegisterInvited(r, n, k, i)
        PROVE  TypeOK' /\ ReqOK'
    <2>1. ReqOK'
      BY <1>0, <1>2 DEF RegisterInvited
    <2>2. invite' \in [Invites -> Invite]
      BY <1>2 DEF TypeOK, RegisterInvited
    <2> QED
      BY <2>1, <2>2, <1>2 DEF TypeOK, ReqOK, RegisterInvited, memory, ghosts
  <1>3. CASE RegisterLookup(r)
    <2>1. ReqOK'
      BY <1>0, <1>3 DEF RegisterLookup, Plain
    <2> QED
      BY <2>1, <1>3 DEF TypeOK, ReqOK, RegisterLookup, store, memory, ghosts
  <1>4. CASE RegisterCreate(r)
    <2>1. ReqOK'
      BY <1>0, <1>4 DEF RegisterCreate
    <2>2. UsersOK'
      <3>1. CASE NoInsert
        BY <1>0, <3>1 DEF NoInsert, UsersOK
      <3>2. CASE ~NoInsert
        <4>1. PICK u \in Ids : Insert(u, LocalAccount(req[r].name, req[r].keys),
                                   req[r].invite, None)
          BY <1>4, <3>2 DEF RegisterCreate
        <4>3. /\ req[r].name \in Names \cup {None}
              /\ req[r].keys \in Bundles \cup {None}
              /\ req[r].invite \in Invites \cup {None}
          BY <1>0 DEF Request
        <4>4. LocalAccount(req[r].name, req[r].keys) \in User
          BY <4>3, UserTypes
        <4> QED
          BY <1>0, <4>1, <4>3, <4>4, InsertTypes
      <3> QED
        BY <3>1, <3>2
    <2> QED
      BY <2>1, <2>2, <1>4 DEF TypeOK, ReqOK, UsersOK, RegisterCreate, memory
  <1>5. CASE ReleaseInvite(r)
    <2>1. ReqOK'
      BY <1>0, <1>5 DEF ReleaseInvite
    <2>2. invite' \in [Invites -> Invite]
      <3>1. CASE invite' = [invite EXCEPT ![req[r].invite].used = FALSE]
        <4>1. \A i \in Invites : [invite[i] EXCEPT !.used = FALSE] \in Invite
          BY DEF TypeOK
        <4> QED
          BY <3>1, <4>1 DEF TypeOK
      <3> QED
        BY <3>1, <1>5 DEF TypeOK, ReleaseInvite
    <2> QED
      BY <2>1, <2>2, <1>5 DEF TypeOK, ReqOK, ReleaseInvite, memory, ghosts
  <1> QED
    BY <1>1, <1>2, <1>3, <1>4, <1>5

(* and so do sign-in with a password, *)
LEMMA LoginTypes ==
  ASSUME TypeOK, ReqOK, NEW r \in Requests,
         \/ \E n \in Names, right \in BOOLEAN : Login(r, n, right)
         \/ LoginLoad(r) \/ TakePermit(r) \/ LoginJudged(r) \/ LeftEnds(r)
  PROVE  TypeOK' /\ ReqOK'
  <1> USE StepTypes, RequestTypes, BegunTypes
  <1>0. CountsOK /\ req[r] \in Request /\ Known(req[r])
    BY DEF TypeOK, ReqOK, CountsOK
  <1>1. ASSUME NEW n \in Names, NEW right \in BOOLEAN, Login(r, n, right)
        PROVE  TypeOK' /\ ReqOK'
    <2>1. ReqOK'
      BY <1>0, <1>1 DEF Login
    <2>2. CountsOK'
      <3>1. failures' \in [Names -> Failures]
        BY <1>1, ThrottleTypes DEF TypeOK, Login
      <3>2. guesses' \in [Names -> Nat]
        <4>1. guesses' = guesses \/ guesses' = [guesses EXCEPT ![n] = 0]
          BY <1>1 DEF Login
        <4>2. guesses \in [Names -> Nat]
          BY DEF TypeOK
        <4>3. [guesses EXCEPT ![n] = 0] \in [Names -> Nat]
          BY <4>2, ExceptTypes
        <4> QED
          BY <4>1, <4>2, <4>3
      <3> QED
        BY <3>1, <3>2 DEF CountsOK
    <2> QED
      BY <2>1, <2>2, <1>1 DEF TypeOK, ReqOK, CountsOK, Login, store
  <1>2. CASE LoginLoad(r)
    <2>0. req[r].name \in Names
      BY <1>0, <1>2 DEF LoginLoad, Doing, Known
    <2>1. Fail(req[r].name) => CountsOK'
      BY <1>0, <2>0, FailTypes
    <2>2. ASSUME NotCounted PROVE CountsOK'
      BY <1>0, <2>2 DEF CountsOK, NotCounted
    <2>4. ReqOK' /\ CountsOK'
      BY <1>0, <1>2, <2>1, <2>2 DEF LoginLoad
    <2> QED
      BY <2>4, <1>2 DEF TypeOK, ReqOK, CountsOK, LoginLoad, store
  <1>3. CASE TakePermit(r)
    <2>2. ReqOK'
      BY <1>0, <1>3 DEF TakePermit
    <2> QED
      BY <2>2, <1>3 DEF TypeOK, ReqOK, TakePermit, store, memory, ghosts
  <1>4. CASE LoginJudged(r)
    <2>1. ReqOK'
      BY <1>0, <1>4 DEF LoginJudged
    <2>0. req[r].name \in Names
      BY <1>0, <1>4 DEF LoginJudged, Doing, Known
    <2>2. CountsOK' /\ tokens' \subseteq Ids
      <3>1. CASE ~req[r].right
        BY <1>0, <1>4, <3>1, <2>0, FailTypes DEF TypeOK, LoginJudged
      <3>2. CASE req[r].right
        <4>1. failures' \in [Names -> Failures]
          BY <1>4, <3>2, ThrottleTypes DEF TypeOK, LoginJudged, RecordSuccess
        <4>2. guesses' \in [Names -> Nat]
          <5>1. guesses' = [guesses EXCEPT ![req[r].name] = 0]
            BY <1>4, <3>2 DEF LoginJudged
          <5>2. guesses \in [Names -> Nat]
            BY DEF TypeOK
          <5> QED
            BY <2>0, <5>1, <5>2, ExceptTypes
        <4>3. tokens' \subseteq Ids
          BY <1>0, <1>4, <3>2 DEF Known, Doing, LoginJudged, TypeOK
        <4> QED
          BY <4>1, <4>2, <4>3 DEF CountsOK
      <3> QED
        BY <3>1, <3>2
    <2> QED
      BY <2>1, <2>2, <1>4 DEF TypeOK, ReqOK, CountsOK, LoginJudged, store
  <1>5. CASE LeftEnds(r)
    <2>1. ReqOK'
      BY <1>0, <1>5 DEF LeftEnds
    <2> QED
      BY <2>1, <1>5 DEF TypeOK, ReqOK, LeftEnds, store, memory, ghosts
  <1> QED
    BY <1>1, <1>2, <1>3, <1>4, <1>5

(* federated sign-in, *)
LEMMA OidcTypes ==
  ASSUME TypeOK, ReqOK, NEW r \in Requests,
         \/ \E f \in Flows, s \in Subjects : Callback(r, f, s)
         \/ CallbackLookup(r) \/ CallbackCreate(r) \/ CallbackLink(r)
         \/ \E n \in Names, k \in Bundles, u \in Ids : Enrol(r, u, n, k)
         \/ EnrolWrite(r)
  PROVE  TypeOK' /\ ReqOK'
  <1> USE StepTypes, RequestTypes, BegunTypes
  <1>0. UsersOK /\ CountsOK /\ req[r] \in Request /\ Known(req[r])
    BY DEF TypeOK, ReqOK, UsersOK, CountsOK
  <1>1. ASSUME NEW f \in Flows, NEW s \in Subjects, Callback(r, f, s)
        PROVE  TypeOK' /\ ReqOK'
    <2>1. ReqOK'
      BY <1>1 DEF Callback
    <2> QED
      BY <2>1, <1>1 DEF TypeOK, ReqOK, Callback, store, ghosts
  <1>2. CASE CallbackLookup(r)
    <2>1. ReqOK'
      BY <1>2 DEF CallbackLookup
    <2>2. req[r].subject \in Subjects
      BY <1>0, <1>2 DEF CallbackLookup, Doing, Known
    <2>3. tokens' \subseteq Ids
      <3>1. identity[req[r].subject] \in Ids \cup {None} /\ tokens \subseteq Ids
        BY <2>2 DEF TypeOK
      <3>2. \/ tokens' = tokens
            \/ /\ identity[req[r].subject] # None
               /\ tokens' = tokens \cup {identity[req[r].subject]}
        BY <1>2 DEF CallbackLookup
      <3> QED
        BY <3>1, <3>2
    <2>4. raced' \subseteq Subjects
      BY <1>2, <2>2 DEF TypeOK, CallbackLookup
    <2> QED
      BY <2>1, <2>3, <2>4, <1>2 DEF TypeOK, ReqOK, CallbackLookup, store
  <1>3. CASE CallbackCreate(r)
    <2>1. ReqOK'
      BY <1>3 DEF CallbackCreate
    <2>2. req[r].subject \in Subjects
      BY <1>0, <1>3 DEF CallbackCreate, Doing, Known
    <2>3. UsersOK'
      <3>1. CASE NoInsert
        BY <1>0, <3>1 DEF NoInsert, UsersOK
      <3>2. CASE ~NoInsert
        <4>1. PICK u \in Ids : Insert(u, NewShell, None, req[r].subject)
          BY <1>3, <3>2 DEF CallbackCreate
        <4> QED
          BY <1>0, <2>2, <4>1, UserTypes, InsertTypes
      <3> QED
        BY <3>1, <3>2
    <2> QED
      BY <2>1, <2>3, <1>3 DEF TypeOK, ReqOK, UsersOK, CallbackCreate, memory
  <1>4. CASE CallbackLink(r)
    <2>1. ReqOK'
      BY <1>4 DEF CallbackLink
    <2>2. req[r].subject \in Subjects /\ req[r].user \in Ids
      BY <1>0, <1>4 DEF CallbackLink, Doing, Known
    <2>3. identity' \in [Subjects -> Ids \cup {None}]
      BY <1>4, <2>2 DEF TypeOK, CallbackLink
    <2>4. tokens' \subseteq Ids
      BY <1>4, <2>2 DEF TypeOK, CallbackLink
    <2> QED
      BY <2>1, <2>3, <2>4, <1>4 DEF TypeOK, ReqOK, CallbackLink, ghosts
  <1>5. ASSUME NEW n \in Names, NEW k \in Bundles, NEW u \in Ids,
               Enrol(r, u, n, k)
        PROVE  TypeOK' /\ ReqOK'
    <2>1. ReqOK'
      BY <1>5 DEF Enrol
    <2> QED
      BY <2>1, <1>5 DEF TypeOK, ReqOK, Enrol, store, memory, ghosts
  <1>6. CASE EnrolWrite(r)
    <2>1. ReqOK'
      BY <1>6 DEF EnrolWrite
    <2>2. /\ req[r].name \in Names \cup {None}
          /\ req[r].keys \in Bundles \cup {None}
      BY <1>0 DEF Request
    <2>3. ASSUME NEW w \in User PROVE EnrolKeys(w, r) \in User
      <3>1. [w EXCEPT !.name = req[r].name, !.keys = req[r].keys] \in User
        BY <2>2, UserTypes
      <3> QED
        BY <3>1 DEF EnrolKeys
    <2>4. users' \in [Ids -> User]
      <3>1. users \in [Ids -> User]
        BY DEF TypeOK
      <3>2. req[r].user \in Ids
        BY <1>0, <1>6 DEF EnrolWrite, Doing, Known
      <3>3. EnrolKeys(users[req[r].user], r) \in User
        BY <2>3, <3>1, <3>2
      <3>4. \/ users' = users
            \/ users' = [users EXCEPT ![req[r].user]
                                       = EnrolKeys(users[req[r].user], r)]
        BY <1>6 DEF EnrolWrite
      <3> QED
        BY <3>1, <3>2, <3>3, <3>4, ExceptTypes
    <2> QED
      BY <2>1, <2>4, <1>6 DEF TypeOK, ReqOK, EnrolWrite, memory, ghosts
  <1> QED
    BY <1>1, <1>2, <1>3, <1>4, <1>5, <1>6

(* and the console, the clock and requests that are dropped. *)
LEMMA ConsoleTypes ==
  ASSUME TypeOK, ReqOK, Console
  PROVE  TypeOK' /\ ReqOK'
  <1> USE UserTypes, InviteTypes DEF memory, ghosts
  <1>1. req' = req
    BY DEF Console, CreateInvite, RevokeInvite, SetRegistration, SetUserLock,
           DeleteAccount, SaveProvider, RemoveProvider
  <1>2. ASSUME NEW i \in Invites, CreateInvite(i) \/ RevokeInvite(i)
        PROVE  TypeOK'
    <2>1. invite' \in [Invites -> Invite]
      <3>1. invite \in [Invites -> Invite]
        BY DEF TypeOK
      <3>2. /\ [invite[i] EXCEPT !.row = "present"] \in Invite
            /\ [invite[i] EXCEPT !.row = "gone"] \in Invite
        BY <3>1
      <3>3. \/ invite' = [invite EXCEPT ![i] = [invite[i] EXCEPT !.row = "present"]]
            \/ invite' = [invite EXCEPT ![i] = [invite[i] EXCEPT !.row = "gone"]]
        BY <1>2 DEF CreateInvite, RevokeInvite
      <3> QED
        BY <3>1, <3>2, <3>3, ExceptTypes
    <2> QED
      BY <2>1, <1>2 DEF TypeOK, CreateInvite, RevokeInvite
  <1>3. ASSUME NEW b \in BOOLEAN, SetRegistration(b) PROVE TypeOK'
    BY <1>3 DEF TypeOK, SetRegistration
  <1>4. ASSUME NEW u \in Ids, NEW b \in BOOLEAN, SetUserLock(u, b) PROVE TypeOK'
    <2>1. users' \in [Ids -> User]
      BY <1>4 DEF TypeOK, SetUserLock
    <2> QED
      BY <2>1, <1>4 DEF TypeOK, SetUserLock
  <1>5. ASSUME NEW u \in Ids, DeleteAccount(u) PROVE TypeOK'
    <2>1. /\ users' \in [Ids -> User]
          /\ identity' \in [Subjects -> Ids \cup {None}]
      BY <1>5, DeleteTypes DEF TypeOK, DeleteAccount
    <2> QED
      BY <2>1, <1>5 DEF TypeOK, DeleteAccount
  <1>6. ASSUME NEW p \in {"enabled", "disabled"}, SaveProvider(p) PROVE TypeOK'
    BY <1>6 DEF TypeOK, SaveProvider
  <1>7. ASSUME RemoveProvider PROVE TypeOK'
    <2>1. identity' \in [Subjects -> Ids \cup {None}] /\ cut' \in BOOLEAN
      BY <1>7 DEF RemoveProvider
    <2>2. UNCHANGED <<users, invite, open, memory, req, via, origin, raced,
                      guesses>> /\ provider' = "gone"
      BY <1>7 DEF RemoveProvider
    <2> QED
      BY <2>1, <2>2 DEF TypeOK
  <1>9. ReqOK'
    BY <1>1 DEF ReqOK
  <1>8. TypeOK'
    BY <1>2, <1>3, <1>4, <1>5, <1>6, <1>7 DEF Console
  <1> QED
    BY <1>8, <1>9

LEMMA ClockTypes ==
  ASSUME TypeOK, ReqOK, Clock
  PROVE  TypeOK' /\ ReqOK'
  <1> USE UserTypes, InviteTypes, ThrottleTypes DEF store, ghosts
  <1>1. req' = req
    BY DEF Clock, ExpireInvite, Grow, FlowIsLate, TimePasses, Sweep
  <1>2. ASSUME NEW i \in Invites, ExpireInvite(i) PROVE TypeOK'
    <2>1. invite' \in [Invites -> Invite]
      BY <1>2 DEF TypeOK, ExpireInvite
    <2> QED
      BY <2>1, <1>2 DEF TypeOK, ExpireInvite, memory
  <1>3. ASSUME NEW u \in Ids, Grow(u) PROVE TypeOK'
    <2>1. users' \in [Ids -> User]
      BY <1>3 DEF TypeOK, Grow
    <2> QED
      BY <2>1, <1>3 DEF TypeOK, Grow, memory
  <1>4. ASSUME NEW f \in Flows, FlowIsLate(f) PROVE TypeOK'
    BY <1>4 DEF TypeOK, FlowIsLate
  <1>5. ASSUME NEW n \in Names, TimePasses(n) PROVE TypeOK'
    <2>1. failures' \in [Names -> Failures]
      <3>1. failures \in [Names -> Failures]
        BY DEF TypeOK
      <3>2. \/ failures' = [failures EXCEPT ![n] = LockEnded(failures[n])]
            \/ failures' = [failures EXCEPT ![n] = Stale(failures[n])]
        BY <1>5 DEF TimePasses
      <3>3. LockEnded(failures[n]) \in Failures /\ Stale(failures[n]) \in Failures
        BY <3>1
      <3> QED
        BY <3>1, <3>2, <3>3, ExceptTypes
    <2> QED
      BY <2>1, <1>5 DEF TypeOK, TimePasses
  <1>6. ASSUME Sweep PROVE TypeOK'
    <2>1. failures' \in [Names -> Failures] /\ guesses' \in [Names -> Nat]
      <3>1. PICK P \in SUBSET Names :
              /\ failures' = [n \in Names |-> IF n \in P THEN NoFailures
                                                         ELSE failures[n]]
              /\ guesses' = [n \in Names |-> IF n \in P THEN 0 ELSE guesses[n]]
        BY <1>6 DEF Sweep
      <3>2. failures \in [Names -> Failures] /\ guesses \in [Names -> Nat]
        BY DEF TypeOK
      <3> QED
        BY <3>1, <3>2
    <2>2. flows' \in [Flows -> {"new", "pending", "late", "taken"}]
      BY <1>6 DEF TypeOK, Sweep
    <2>3. /\ users' \in [Ids -> User]
          /\ identity' \in [Subjects -> Ids \cup {None}]
      <3> DEFINE U == {u \in Ids : Shell(u) /\ users[u].old /\ Linked(u)}
      <3>1. U \in SUBSET Ids
        OBVIOUS
      <3>2. DeleteUsers(U) \/ (users' = users /\ identity' = identity)
        BY <1>6 DEF Sweep
      <3> QED
        BY <3>1, <3>2, DeleteTypes DEF TypeOK
    <2>4. UNCHANGED <<invite, open, provider, tokens, req, via, origin, raced,
                      cut>>
      BY <1>6 DEF Sweep
    <2> QED
      BY <2>1, <2>2, <2>3, <2>4 DEF TypeOK
  <1>8. ReqOK'
    BY <1>1 DEF ReqOK
  <1>7. TypeOK'
    BY <1>2, <1>3, <1>4, <1>5, <1>6 DEF Clock
  <1> QED
    BY <1>7, <1>8

LEMMA CancelTypes ==
  ASSUME TypeOK, ReqOK, NEW r \in Requests, Cancel(r)
  PROVE  TypeOK' /\ ReqOK'
  <1>1. ReqOK'
    BY StepTypes DEF Cancel, Plain
  <1> QED
    BY <1>1 DEF TypeOK, ReqOK, Cancel, store, memory, ghosts

LEMMA OidcStartTypes ==
  ASSUME TypeOK, ReqOK, NEW f \in Flows, OidcStart(f)
  PROVE  TypeOK' /\ ReqOK'
  BY DEF TypeOK, ReqOK, OidcStart, store, ghosts

(* The steps, by the part of the code they are of. *)
SignUpStep(r) ==
    \/ \E n \in Names, k \in Bundles :
         \/ Register(r, n, k)
         \/ \E i \in Invites : RegisterInvited(r, n, k, i)
    \/ RegisterLookup(r) \/ RegisterCreate(r) \/ ReleaseInvite(r)

PasswordStep(r) ==
    \/ \E n \in Names, right \in BOOLEAN : Login(r, n, right)
    \/ LoginLoad(r) \/ TakePermit(r) \/ LoginJudged(r) \/ LeftEnds(r)

FederatedStep(r) ==
    \/ \E f \in Flows, s \in Subjects : Callback(r, f, s)
    \/ CallbackLookup(r) \/ CallbackCreate(r) \/ CallbackLink(r)
    \/ \E n \in Names, k \in Bundles, u \in Ids : Enrol(r, u, n, k)
    \/ EnrolWrite(r)

ScenarioOK == scenario \in Scenarios

LEMMA StepCases ==
  ASSUME ScenarioOK, Next
  PROVE  \/ \E r \in Requests : \/ SignUpStep(r) \/ PasswordStep(r)
                                \/ FederatedStep(r) \/ Cancel(r)
         \/ \E f \in Flows : OidcStart(f)
         \/ Console \/ Clock
  <1>1. scenario.slots \subseteq Requests
    BY AccountsAssumption DEF ScenarioOK
  <1>2. ASSUME NEW r \in Requests, Begin(r) \/ Continue(r) \/ Cancel(r)
        PROVE  SignUpStep(r) \/ PasswordStep(r) \/ FederatedStep(r) \/ Cancel(r)
    BY <1>2, Zenon DEF Begin, Continue, SignUpStep, PasswordStep, FederatedStep
  <1> QED
    BY <1>1, <1>2, Zenon DEF Next

TypeInv == ScenarioOK /\ TypeOK /\ ReqOK

LEMMA InitTypes == Init => TypeInv
  <1> SUFFICES ASSUME Init PROVE TypeInv
    OBVIOUS
  <1>1. ReqOK
    BY BegunTypes DEF Init, ReqOK
  <1>2. failures \in [Names -> Failures]
    BY ThrottleAssumption DEF Init, NoFailures, Failures
  <1>3. users \in [Ids -> User] /\ invite \in [Invites -> Invite]
    BY UserTypes, InviteTypes DEF Init
  <1>4. TypeOK
    BY <1>1, <1>2, <1>3 DEF Init, TypeOK, ReqOK
  <1> QED
    BY <1>1, <1>4 DEF Init, TypeInv, ScenarioOK

LEMMA NextTypes ==
  ASSUME TypeInv, [Next]_vars
  PROVE  TypeInv'
  <1>0. ScenarioOK /\ TypeOK /\ ReqOK
    BY DEF TypeInv
  <1>1. CASE Next
    <2>1. ScenarioOK'
      BY <1>0, <1>1 DEF Next, ScenarioOK
    <2>2. TypeOK' /\ ReqOK'
      BY <1>0, <1>1, StepCases, SignUpTypes, LoginTypes, OidcTypes, CancelTypes,
         OidcStartTypes, ConsoleTypes, ClockTypes
      DEF SignUpStep, PasswordStep, FederatedStep
    <2> QED
      BY <2>1, <2>2 DEF TypeInv
  <1>2. CASE UNCHANGED vars
    BY <1>0, <1>2
    DEF vars, store, memory, ghosts, TypeInv, ScenarioOK, TypeOK, ReqOK
  <1> QED
    BY <1>1, <1>2

LEMMA TypesHold == Spec => []TypeInv
  BY InitTypes, NextTypes, PTL DEF Spec

(* Every variable keeps its shape, through every operation of sign-up, of  *)
(* both ways to sign in, of the console and of the timer.                  *)
THEOREM AccountTypes == Spec => []TypeOK
  <1>1. TypeInv => TypeOK
    BY DEF TypeInv
  <1> QED
    BY <1>1, TypesHold, PTL

-----------------------------------------------------------------------------
(* Invites *)

(* No request takes an invite up. *)
NoNewHolder == \A r \in Requests, i \in Invites : Holds(r, i)' => Holds(r, i)

LEMMA HolderSteps ==
  ASSUME ReqOK, NEW r \in Requests
  PROVE  /\ Finish(r) => NoNewHolder
         /\ \A pc : pc \notin SignUpPcs \/ req[r].pc \in SignUpPcs
              => (Goto(r, pc) => NoNewHolder)
         /\ \A pc, u : pc \notin SignUpPcs => (GotoWith(r, pc, u) => NoNewHolder)
         /\ \A op, q : q.pc \notin SignUpPcs \/ q.invite = None
              => (Start(r, op, q) => NoNewHolder)
         /\ req[r].pc \in SignUpPcs /\ GiveUp(r) => NoNewHolder
         /\ LookupFails(r) => NoNewHolder
  <1>0. req \in [Requests -> Request]
    BY DEF ReqOK
  <1>1. ASSUME NEW q, req' = [req EXCEPT ![r] = q],
               \A i \in Invites : q.pc \in SignUpPcs /\ q.invite = i => Holds(r, i)
        PROVE  NoNewHolder
    BY <1>0, <1>1 DEF NoNewHolder, Holds
  <1>2. Finish(r) => NoNewHolder
    <2>1. "idle" \notin SignUpPcs /\ Idle.pc = "idle"
      BY DEF SignUpPcs, Idle
    <2> QED
      BY <1>1, <2>1 DEF Finish
  <1>3. ASSUME NEW pc, pc \notin SignUpPcs \/ req[r].pc \in SignUpPcs, Goto(r, pc)
        PROVE  NoNewHolder
    <2>1. /\ [req[r] EXCEPT !.pc = pc].pc = pc
          /\ [req[r] EXCEPT !.pc = pc].invite = req[r].invite
      BY <1>0 DEF Request
    <2>2. req' = [req EXCEPT ![r] = [req[r] EXCEPT !.pc = pc]]
      BY <1>3 DEF Goto
    <2> QED
      BY <1>1, <1>3, <2>1, <2>2 DEF Holds
  <1>4. ASSUME NEW pc, NEW u, pc \notin SignUpPcs, GotoWith(r, pc, u)
        PROVE  NoNewHolder
    <2>1. [req[r] EXCEPT !.pc = pc, !.user = u].pc = pc
      BY <1>0 DEF Request
    <2> QED
      BY <1>1, <1>4, <2>1 DEF GotoWith
  <1>5. ASSUME NEW op, NEW q, q.pc \notin SignUpPcs \/ q.invite = None,
               Start(r, op, q)
        PROVE  NoNewHolder
    BY <1>1, <1>5, NoneIsApart DEF Start
  <1> QED
    BY <1>2, <1>3, <1>4, <1>5 DEF GiveUp, LookupFails

(* A step that spends no invite, gives none back and makes no account with *)
(* one. *)
Unspent ==
    /\ scenario' = scenario
    /\ \A i \in Invites : invite'[i].used = invite[i].used
    /\ \A u \in Ids : via'[u] \in {via[u], None}
    /\ NoNewHolder

LEMMA UnspentKeepsInvites ==
  ASSUME InvitesInv, Unspent
  PROVE  InvitesInv'
  <1> SUFFICES ASSUME "lost_reply" \notin Faults, NEW i \in Invites
               PROVE  InviteKept(i)'
    BY Zenon DEF InvitesInv, Unspent, Faults
  <1>1. InviteKept(i)
    BY Zenon DEF InvitesInv
  <1>2. \A u \in Ids : via'[u] = i => via[u] = i
    BY NoneIsApart DEF Unspent
  <1> QED
    BY <1>1, <1>2 DEF InviteKept, Unspent, NoNewHolder

(* Signing in, by password *)
LEMMA PasswordSpendsNone ==
  ASSUME TypeInv, scenario' = scenario, NEW r \in Requests, PasswordStep(r)
  PROVE  Unspent
  <1>0. ReqOK
    BY DEF TypeInv
  <1>1. {"log_load", "log_wait", "log_verify", "left"} \cap SignUpPcs = {}
    BY DEF SignUpPcs
  <1>2. NoNewHolder
    <2>1. \A n, b : SignIn(n, b).pc = "log_load"
      BY DEF SignIn, Idle
    <2> QED
      BY <1>0, <1>1, <2>1, HolderSteps
      DEF PasswordStep, Login, LoginLoad, TakePermit, LoginJudged, LeftEnds
  <1>3. UNCHANGED <<invite, via>>
    BY DEF PasswordStep, Login, LoginLoad, TakePermit, LoginJudged, LeftEnds,
           store, ghosts
  <1> QED
    BY <1>2, <1>3 DEF Unspent

(* or through the provider, *)
LEMMA FederatedSpendsNone ==
  ASSUME TypeInv, scenario' = scenario, NEW r \in Requests, FederatedStep(r)
  PROVE  Unspent
  <1>0. ReqOK /\ via \in [Ids -> Invites \cup {None}]
    BY DEF TypeInv, TypeOK
  <1>1. {"idle", "cb_lookup", "cb_create", "cb_link", "enrol"} \cap SignUpPcs = {}
    BY DEF SignUpPcs
  <1>2. NoNewHolder
    <2>1. /\ \A s : Return(s).pc = "cb_lookup"
          /\ \A u, n, k : Enrolment(u, n, k).pc = "enrol"
          /\ Idle.pc = "idle"
      BY DEF Return, Enrolment, Idle
    <2> QED
      BY <1>0, <1>1, <2>1, HolderSteps
      DEF FederatedStep, Callback, CallbackLookup, CallbackCreate, CallbackLink,
          Enrol, EnrolWrite
  <1>3. invite' = invite
    BY DEF FederatedStep, Callback, CallbackLookup, CallbackCreate, CallbackLink,
           Enrol, EnrolWrite, store
  <1>4. \A u \in Ids : via'[u] \in {via[u], None}
    BY <1>0 DEF FederatedStep, Callback, CallbackLookup, CallbackCreate,
           CallbackLink, Enrol, EnrolWrite, ghosts, Insert, NoInsert
  <1> QED
    BY <1>2, <1>3, <1>4 DEF Unspent

(* and everything nobody asked for leave invites as they are. *)
LEMMA OthersSpendNone ==
  ASSUME TypeInv, scenario' = scenario,
         \/ \E r \in Requests : Cancel(r)
         \/ \E f \in Flows : OidcStart(f)
         \/ Console \/ Clock \/ UNCHANGED vars
  PROVE  Unspent
  <1>0. ReqOK /\ invite \in [Invites -> Invite]
    BY DEF TypeInv, TypeOK
  <1>1. NoNewHolder
    <2>1. "left" \notin SignUpPcs
      BY DEF SignUpPcs
    <2>2. (\E r \in Requests : Cancel(r)) \/ req' = req
      BY DEF OidcStart, Console, Clock, CreateInvite, RevokeInvite,
             SetRegistration, SetUserLock, DeleteAccount, SaveProvider,
             RemoveProvider, ExpireInvite, Grow, FlowIsLate, TimePasses, Sweep,
             vars
    <2>3. req' = req => NoNewHolder
      BY DEF NoNewHolder, Holds
    <2> QED
      BY <1>0, <2>1, <2>2, <2>3, HolderSteps DEF Cancel
  <1>2. via' = via
    BY DEF Cancel, OidcStart, Console, Clock, CreateInvite, RevokeInvite,
           SetRegistration, SetUserLock, DeleteAccount, SaveProvider,
           RemoveProvider, ExpireInvite, Grow, FlowIsLate, TimePasses, Sweep,
           vars, ghosts
  <1>3. \A i \in Invites : invite'[i].used = invite[i].used
    <2>1. \/ invite' = invite
          \/ \E j \in Invites :
               \/ invite' = [invite EXCEPT ![j].row = "present"]
               \/ invite' = [invite EXCEPT ![j].row = "gone"]
               \/ invite' = [invite EXCEPT ![j].expired = TRUE]
      BY DEF Cancel, OidcStart, Console, Clock, CreateInvite, RevokeInvite,
             SetRegistration, SetUserLock, DeleteAccount, SaveProvider,
             RemoveProvider, ExpireInvite, Grow, FlowIsLate, TimePasses, Sweep,
             vars, store
    <2> QED
      BY <1>0, <2>1 DEF Invite
  <1> QED
    BY <1>1, <1>2, <1>3 DEF Unspent

(* A sign-up that takes a code up finds nobody with it. *)
LEMMA RegisterInvitedKeepsInvites ==
  ASSUME TypeInv, InvitesInv, scenario' = scenario, NEW r \in Requests,
         NEW n \in Names, NEW k \in Bundles, NEW j \in Invites,
         RegisterInvited(r, n, k, j)
  PROVE  InvitesInv'
  <1>0. /\ req \in [Requests -> Request] /\ invite \in [Invites -> Invite]
    BY DEF TypeInv, TypeOK
  <1> SUFFICES ASSUME "lost_reply" \notin Faults, NEW i \in Invites
               PROVE  InviteKept(i)'
    BY Zenon DEF InvitesInv, Faults
  <1>k. InviteKept(i)
    BY Zenon DEF InvitesInv
  <1>1. /\ invite' = [invite EXCEPT ![j].used = TRUE]
        /\ req' = [req EXCEPT ![r] = SignUp(n, k, j)]
        /\ via' = via /\ Claimable(j)
    BY DEF RegisterInvited, Start, ghosts
  <1>2. invite'[j].used /\ \A x \in Invites \ {j} : invite'[x] = invite[x]
    BY <1>0, <1>1 DEF Invite
  <1>3. /\ \A q \in Requests \ {r}, x \in Invites : Holds(q, x)' <=> Holds(q, x)
        /\ \A x \in Invites : Holds(r, x)' => x = j
    BY <1>0, <1>1 DEF Holds, SignUp, Idle
  <1>4. ~invite[j].used
    BY <1>1 DEF Claimable
  <1> QED
    BY <1>1, <1>2, <1>3, <1>4, <1>k DEF InviteKept

(* An account is made by the one who holds the code, and gives it up. *)
LEMMA RegisterCreateKeepsInvites ==
  ASSUME TypeInv, InvitesInv, scenario' = scenario, NEW r \in Requests,
         RegisterCreate(r)
  PROVE  InvitesInv'
  <1>0. /\ req \in [Requests -> Request] /\ ReqOK
        /\ via \in [Ids -> Invites \cup {None}]
    BY DEF TypeInv, TypeOK
  <1> SUFFICES ASSUME "lost_reply" \notin Faults, NEW i \in Invites
               PROVE  InviteKept(i)'
    BY Zenon DEF InvitesInv, Faults
  <1>k. InviteKept(i)
    BY Zenon DEF InvitesInv
  <1>1. invite' = invite /\ req[r].pc \in SignUpPcs
    BY DEF RegisterCreate, Doing, SignUpPcs
  <1>2. CASE NoInsert /\ GiveUp(r)
    <2>1. NoNewHolder
      BY <1>0, <1>1, <1>2, HolderSteps
    <2> QED
      BY <1>k, <1>1, <1>2, <2>1 DEF InviteKept, NoNewHolder, NoInsert
  <1>3. ASSUME NEW u \in Ids, Finish(r),
               Insert(u, LocalAccount(req[r].name, req[r].keys),
                      req[r].invite, None)
        PROVE  InviteKept(i)'
    <2>1. via' = [via EXCEPT ![u] = req[r].invite]
      BY <1>3 DEF Insert
    <2>2. NoNewHolder /\ ~Holds(r, i)'
      BY <1>0, <1>3, HolderSteps DEF Finish, Holds, Idle, SignUpPcs
    <2>3. CASE req[r].invite = i
      <3>1. Holds(r, i)
        BY <1>1, <2>3 DEF Holds
      <3>2. invite[i].used /\ \A v \in Ids : via[v] # i
        BY <1>k, <3>1 DEF InviteKept
      <3>3. \A v \in Ids : via'[v] = i => v = u
        BY <1>0, <2>1, <3>2
      <3>4. \A q \in Requests : ~Holds(q, i)'
        BY <1>k, <2>2, <3>1 DEF InviteKept, NoNewHolder
      <3> QED
        BY <1>1, <3>2, <3>3, <3>4 DEF InviteKept
    <2>4. CASE req[r].invite # i
      <3>1. \A v \in Ids : via'[v] = i => via[v] = i
        BY <1>0, <2>1, <2>4
      <3> QED
        BY <1>k, <1>1, <2>2, <3>1 DEF InviteKept, NoNewHolder
    <2> QED
      BY <2>3, <2>4
  <1> QED
    BY <1>2, <1>3 DEF RegisterCreate

(* What is given back was held, so that it has made no account. *)
LEMMA ReleaseKeepsInvites ==
  ASSUME TypeInv, InvitesInv, scenario' = scenario, NEW r \in Requests,
         ReleaseInvite(r)
  PROVE  InvitesInv'
  <1>0. /\ req \in [Requests -> Request] /\ ReqOK
        /\ invite \in [Invites -> Invite]
    BY DEF TypeInv, TypeOK
  <1> SUFFICES ASSUME "lost_reply" \notin Faults, NEW i \in Invites
               PROVE  InviteKept(i)'
    BY Zenon DEF InvitesInv, Faults
  <1>k. InviteKept(i)
    BY Zenon DEF InvitesInv
  <1>1. via' = via /\ Finish(r) /\ req[r].pc \in SignUpPcs
    BY DEF ReleaseInvite, Doing, SignUpPcs, ghosts
  <1>2. NoNewHolder /\ ~Holds(r, i)'
    BY <1>0, <1>1, HolderSteps DEF Finish, Holds, Idle, SignUpPcs
  <1>3. CASE req[r].invite = i
    <2>1. Holds(r, i)
      BY <1>1, <1>3 DEF Holds
    <2> QED
      BY <1>k, <1>1, <1>2, <2>1 DEF InviteKept, NoNewHolder
  <1>4. CASE req[r].invite # i
    <2>1. invite'[i] = invite[i]
      BY <1>0, <1>4 DEF ReleaseInvite
    <2> QED
      BY <1>k, <1>1, <1>2, <2>1 DEF InviteKept, NoNewHolder
  <1> QED
    BY <1>3, <1>4

LEMMA InvitesStep ==
  ASSUME TypeInv, InvitesInv, [Next]_vars
  PROVE  InvitesInv'
  <1>0. scenario' = scenario /\ ReqOK /\ ScenarioOK
    BY DEF Next, vars, TypeInv
  <1>1. ASSUME NEW r \in Requests, SignUpStep(r) PROVE InvitesInv'
    <2>1. ASSUME NEW n \in Names, NEW k \in Bundles, Register(r, n, k)
          PROVE  Unspent
      <3>1. SignUp(n, k, None).invite = None
        BY DEF SignUp, Idle
      <3> QED
        BY <1>0, <2>1, <3>1, HolderSteps
        DEF Register, Unspent, store, ghosts
    <2>2. ASSUME RegisterLookup(r) PROVE Unspent
      <3>1. req[r].pc \in SignUpPcs
        BY <2>2 DEF RegisterLookup, Doing, SignUpPcs
      <3> QED
        BY <1>0, <2>2, <3>1, HolderSteps
        DEF RegisterLookup, Unspent, store, ghosts
    <2>3. ASSUME NEW n \in Names, NEW k \in Bundles, NEW i \in Invites,
                 RegisterInvited(r, n, k, i)
          PROVE  InvitesInv'
      BY <1>0, <2>3, RegisterInvitedKeepsInvites
    <2> QED
      BY <1>0, <1>1, <2>1, <2>2, <2>3, UnspentKeepsInvites,
         RegisterCreateKeepsInvites, ReleaseKeepsInvites DEF SignUpStep
  <1>2. ASSUME ~ \E r \in Requests : SignUpStep(r) PROVE Unspent
    BY <1>0, <1>2, StepCases, PasswordSpendsNone, FederatedSpendsNone,
       OthersSpendNone
  <1> QED
    BY <1>1, <1>2, UnspentKeepsInvites

(* A code admits one account at most, however many sign-ups race for it,   *)
(* fail half way and hand it back.  A code that made an account can never  *)
(* be handed back, for nobody holds it any more.                           *)
THEOREM InvitesAdmitOne == Spec => []InviteAdmitsOne
  <1>1. Init => InvitesInv
    BY NoneIsApart DEF Init, InvitesInv, InviteKept, Holds, Idle, SignUpPcs
  <1>2. TypeInv /\ InvitesInv /\ [Next]_vars => InvitesInv'
    BY InvitesStep
  <1>3. ASSUME TypeInv, InvitesInv PROVE InviteAdmitsOne
    <2>1. via \in [Ids -> Invites \cup {None}]
      BY <1>3 DEF TypeInv, TypeOK
    <2> QED
      BY <1>3, <2>1 DEF InvitesInv, InviteKept, InviteAdmitsOne
  <1> QED
    BY <1>1, <1>2, <1>3, TypesHold, PTL DEF Spec

-----------------------------------------------------------------------------
(* Keys *)

KeysStay(u) == Enrolled(u) => users'[u].keys = users[u].keys

LEMMA RequestsKeepKeys ==
  ASSUME TypeInv, NEW r \in Requests, NEW u \in Ids,
         SignUpStep(r) \/ PasswordStep(r) \/ FederatedStep(r) \/ Cancel(r)
  PROVE  KeysStay(u)
  <1>0. users \in [Ids -> User]
    BY DEF TypeInv, TypeOK
  <1>1. CASE users' = users
    BY <1>1 DEF KeysStay
  <1>2. ASSUME NEW v, NEW w, NEW i, NEW s, Insert(v, w, i, s)
        PROVE  KeysStay(u)
    BY <1>0, <1>2 DEF Insert, KeysStay, Enrolled, Present
  <1>3. CASE users' = [users EXCEPT ![req[r].user]
                                     = EnrolKeys(users[req[r].user], r)]
    BY <1>0, <1>3 DEF EnrolKeys, KeysStay, Enrolled, Present
  <1>4. CASE SignUpStep(r)
    BY <1>1, <1>2, <1>4
    DEF SignUpStep, Register, RegisterInvited, RegisterLookup, RegisterCreate,
        ReleaseInvite, NoInsert, store
  <1>5. PasswordStep(r) => users' = users
    BY DEF PasswordStep, Login, LoginLoad, TakePermit, LoginJudged, LeftEnds,
           store
  <1>6. CASE FederatedStep(r)
    BY <1>1, <1>2, <1>3, <1>6
    DEF FederatedStep, Callback, CallbackLookup, CallbackCreate, CallbackLink,
        Enrol, EnrolWrite, NoInsert, store
  <1>7. Cancel(r) => users' = users
    BY DEF Cancel, store
  <1> QED
    BY <1>1, <1>4, <1>5, <1>6, <1>7

LEMMA OthersKeepKeys ==
  ASSUME TypeInv, NEW u \in Ids,
         (\E f \in Flows : OidcStart(f)) \/ Console \/ Clock
  PROVE  KeysStay(u) \/ DeleteAccount(u)
  <1>0. users \in [Ids -> User]
    BY DEF TypeInv, TypeOK
  <1>1. CASE users' = users
    BY <1>1 DEF KeysStay
  <1>2. ASSUME NEW v, NEW b, \/ users' = [users EXCEPT ![v].locked = b]
                             \/ users' = [users EXCEPT ![v].old = b]
        PROVE  KeysStay(u)
    BY <1>0, <1>2 DEF KeysStay, User
  <1>3. ASSUME NEW v \in Ids, DeleteAccount(v)
        PROVE  KeysStay(u) \/ DeleteAccount(u)
    BY <1>0, <1>3 DEF DeleteAccount, DeleteUsers, KeysStay
  <1>4. CASE Sweep
    BY <1>0, <1>1, <1>4 DEF Sweep, DeleteUsers, Shell, KeysStay, Enrolled
  <1>5. CASE Console
    BY <1>1, <1>2, <1>3, <1>5
    DEF Console, CreateInvite, RevokeInvite, SetRegistration, SetUserLock,
        SaveProvider, RemoveProvider
  <1>6. CASE Clock
    BY <1>1, <1>2, <1>4, <1>6
    DEF Clock, ExpireInvite, Grow, FlowIsLate, TimePasses, store
  <1> QED
    BY <1>1, <1>5, <1>6 DEF OidcStart, store

(* An account that has its keys keeps them until it is deleted: no         *)
(* enrolment, sent twice or from two tabs, writes over them, and the purge *)
(* of accounts that never enrolled passes it by.                           *)
THEOREM KeysAreNeverReplaced == Spec => EnrolledStay
  <1>1. ASSUME TypeInv, [Next]_vars
        PROVE  [\A u \in Ids : Enrolled(u) =>
                  users'[u].keys = users[u].keys \/ DeleteAccount(u)]_vars
    <2>1. CASE Next
      <3>1. ASSUME NEW u \in Ids PROVE KeysStay(u) \/ DeleteAccount(u)
        BY <1>1, <2>1, StepCases, RequestsKeepKeys, OthersKeepKeys DEF TypeInv
      <3> QED
        BY <3>1 DEF KeysStay
    <2> QED
      BY <1>1, <2>1
  <1> QED
    BY <1>1, TypesHold, PTL DEF Spec, EnrolledStay

-----------------------------------------------------------------------------
(* Federated accounts *)

Aware == {"cb_create", "cb_link", "enrol", "log_wait", "log_verify"}

(* No request learns anything about an account. *)
Calm == \A r \in Requests :
    /\ req'[r].user \in {None, req[r].user}
    /\ \/ req'[r] = req[r]
       \/ req'[r].pc \notin Aware
       \/ /\ Doing(r, "log_wait") /\ req'[r].pc = "log_verify"
          /\ req'[r].user = req[r].user

LEMMA CalmSteps ==
  ASSUME ReqOK, NEW r \in Requests
  PROVE  /\ Finish(r) => Calm
         /\ \A pc : pc \notin Aware => (Goto(r, pc) => Calm)
         /\ Doing(r, "log_wait") /\ Goto(r, "log_verify") => Calm
         /\ \A op, q : q.pc \notin Aware /\ q.user = None
              => (Start(r, op, q) => Calm)
         /\ GiveUp(r) => Calm
         /\ LookupFails(r) => Calm
         /\ req' = req => Calm
  <1>0. req \in [Requests -> Request]
    BY DEF ReqOK
  <1>1. ASSUME NEW q, req' = [req EXCEPT ![r] = q], q.user \in {None, req[r].user},
               \/ q.pc \notin Aware
               \/ /\ Doing(r, "log_wait") /\ q.pc = "log_verify"
                  /\ q.user = req[r].user
        PROVE  Calm
    BY <1>0, <1>1 DEF Calm
  <1>2. Finish(r) => Calm
    <2>1. Idle.pc \notin Aware /\ Idle.user = None
      BY DEF Idle, Aware
    <2> QED
      BY <1>1, <2>1 DEF Finish
  <1>3. ASSUME NEW pc, Goto(r, pc),
               pc \notin Aware \/ (Doing(r, "log_wait") /\ pc = "log_verify")
        PROVE  Calm
    <2>1. /\ [req[r] EXCEPT !.pc = pc].pc = pc
          /\ [req[r] EXCEPT !.pc = pc].user = req[r].user
      BY <1>0 DEF Request
    <2>2. req' = [req EXCEPT ![r] = [req[r] EXCEPT !.pc = pc]]
      BY <1>3 DEF Goto
    <2> QED
      BY <1>1, <1>3, <2>1, <2>2
  <1>4. ASSUME NEW op, NEW q, q.pc \notin Aware, q.user = None, Start(r, op, q)
        PROVE  Calm
    BY <1>1, <1>4 DEF Start
  <1>5. req' = req => Calm
    BY DEF Calm
  <1>6. "reg_release" \notin Aware
    BY DEF Aware
  <1> QED
    BY <1>2, <1>3, <1>4, <1>5, <1>6 DEF GiveUp, LookupFails

(* What these invariants read of an account. *)
RowsStay == \A u \in Ids : /\ users'[u].row = users[u].row
                           /\ users'[u].password = users[u].password
                           /\ users'[u].keys = users[u].keys

LEMMA CalmKeepsReach ==
  ASSUME TypeInv, ReachInv, Calm, RowsStay,
         UNCHANGED <<identity, origin, tokens, raced, cut>>
  PROVE  ReachInv'
  <1>1. NewIsUnknown'
    BY NoneIsApart DEF ReachInv, NewIsUnknown, Calm, RowsStay
  <1>2. LinksAreTrue'
    BY DEF ReachInv, LinksAreTrue, RowsStay, Present, TypeInv, TypeOK
  <1>3. ASSUME NEW r \in Requests PROVE RequestIsTrue(r)'
    <2>1. \A q \in Requests : Making(q)' => Making(q) /\ req'[q] = req[q]
      BY DEF Calm, Making, Doing, Aware
    <2>2. RequestIsTrue(r)
      BY DEF ReachInv, RequestsAreTrue
    <2>3. Doing(r, "enrol")' => Doing(r, "enrol") /\ req'[r] = req[r]
      BY DEF Calm, Doing, Aware
    <2>4. Doing(r, "log_wait")' \/ Doing(r, "log_verify")' =>
             /\ Doing(r, "log_wait") \/ Doing(r, "log_verify")
             /\ req'[r].user = req[r].user
      BY DEF Calm, Doing, Aware
    <2>5. Doing(r, "cb_link")' => Doing(r, "cb_link") /\ req'[r] = req[r]
      BY DEF Calm, Doing, Aware
    <2> QED
      BY <2>1, <2>2, <2>3, <2>4, <2>5 DEF RequestIsTrue
  <1>4. PasswordsAreLocal'
    BY DEF ReachInv, PasswordsAreLocal, RowsStay, Present
  <1>5. HoldersAreLinked'
    BY DEF ReachInv, HoldersAreLinked, RowsStay, Present, TypeInv, TypeOK
  <1>6. EnrolledHaveHolders'
    BY DEF ReachInv, EnrolledHaveHolders, RowsStay, Enrolled, Present
  <1> QED
    BY <1>1, <1>2, <1>3, <1>4, <1>5, <1>6 DEF ReachInv, RequestsAreTrue

(* An account that is deleted takes its link with it. *)
LEMMA DeletionKeepsReach ==
  ASSUME TypeInv, ReachInv, NEW U \in SUBSET Ids, DeleteUsers(U),
         \A u \in U : Present(u),
         UNCHANGED <<req, origin, tokens, raced, cut>>
  PROVE  ReachInv'
  <1>0. /\ users \in [Ids -> User] /\ identity \in [Subjects -> Ids \cup {None}]
        /\ tokens \subseteq Ids
    BY DEF TypeInv, TypeOK
  <1>1. /\ \A u \in Ids \ U : users'[u] = users[u]
        /\ \A u \in U : /\ users'[u].row = "gone" /\ ~users'[u].password
                        /\ users'[u].keys = None
    BY <1>0 DEF DeleteUsers, NoUser
  <1>2. \A s \in Subjects : /\ identity'[s] \in {None, identity[s]}
                            /\ identity[s] \notin U => identity'[s] = identity[s]
                            /\ identity[s] \in U => identity'[s] = None
    BY <1>0 DEF DeleteUsers, Unlink
  <1>3. NewIsUnknown'
    <2>1. \A u \in Ids : users'[u].row = "new" => users[u].row = "new"
      BY <1>1
    <2> QED
      BY <1>2, <2>1, NoneIsApart DEF ReachInv, NewIsUnknown
  <1>4. LinksAreTrue'
    BY <1>0, <1>1, <1>2 DEF ReachInv, LinksAreTrue, Present
  <1>5. RequestsAreTrue'
    <2> SUFFICES ASSUME NEW r \in Requests PROVE RequestIsTrue(r)'
      BY DEF RequestsAreTrue
    <2>1. RequestIsTrue(r)
      BY DEF ReachInv, RequestsAreTrue
    <2>2. Making(r) => req[r].subject \in Subjects
      BY DEF TypeInv, ReqOK, Known, Making, Doing
    <2> QED
      BY <1>2, <2>1, <2>2 DEF RequestIsTrue, Making, Doing
  <1>6. PasswordsAreLocal'
    BY <1>1 DEF ReachInv, PasswordsAreLocal, Present
  <1>7. HoldersAreLinked'
    BY <1>0, <1>1, <1>2 DEF ReachInv, HoldersAreLinked, Present
  <1>8. EnrolledHaveHolders'
    BY <1>1 DEF ReachInv, EnrolledHaveHolders, Enrolled, Present
  <1> QED
    BY <1>3, <1>4, <1>5, <1>6, <1>7, <1>8 DEF ReachInv

LEMMA ProviderRemovalKeepsReach ==
  ASSUME TypeInv, ReachInv, RemoveProvider
  PROVE  ReachInv'
  <1>1. /\ \A s \in Subjects : identity'[s] = None
        /\ cut' /\ UNCHANGED <<users, req, origin, tokens, raced>>
    BY DEF RemoveProvider, memory
  <1>2. NewIsUnknown' /\ LinksAreTrue' /\ PasswordsAreLocal' /\ EnrolledHaveHolders'
    BY <1>1, NoneIsApart
    DEF ReachInv, NewIsUnknown, LinksAreTrue, PasswordsAreLocal,
        EnrolledHaveHolders, Present, Enrolled
  <1>3. HoldersAreLinked'
    BY <1>1 DEF HoldersAreLinked
  <1>4. RequestsAreTrue'
    <2> SUFFICES ASSUME NEW r \in Requests PROVE RequestIsTrue(r)'
      BY DEF RequestsAreTrue
    <2>1. RequestIsTrue(r)
      BY DEF ReachInv, RequestsAreTrue
    <2>2. Making(r) => req[r].subject \in Subjects
      BY DEF TypeInv, ReqOK, Known, Making, Doing
    <2> QED
      BY <1>1, <2>1, <2>2 DEF RequestIsTrue, Making, Doing
  <1> QED
    BY <1>2, <1>3, <1>4 DEF ReachInv

(* The console and the timer *)
LEMMA OthersKeepReach ==
  ASSUME TypeInv, ReachInv,
         (\E f \in Flows : OidcStart(f)) \/ Console \/ Clock \/ UNCHANGED vars
  PROVE  ReachInv'
  <1>0. ReqOK /\ users \in [Ids -> User]
    BY DEF TypeInv, TypeOK
  <1>1. req' = req => Calm
    BY DEF Calm
  <1>2. CASE UNCHANGED <<users, identity, origin, tokens, raced, cut, req>>
    BY <1>1, <1>2, CalmKeepsReach DEF RowsStay
  <1>3. ASSUME NEW u \in Ids, NEW b \in BOOLEAN, SetUserLock(u, b) \/ Grow(u)
        PROVE  ReachInv'
    <2>1. RowsStay
      BY <1>0, <1>3 DEF SetUserLock, Grow, RowsStay, User
    <2> QED
      BY <1>1, <1>3, <2>1, CalmKeepsReach DEF SetUserLock, Grow, memory, ghosts
  <1>4. ASSUME NEW u \in Ids, DeleteAccount(u) PROVE ReachInv'
    BY <1>4, DeletionKeepsReach DEF DeleteAccount, memory, ghosts
  <1>5. ASSUME Sweep PROVE ReachInv'
    <2> DEFINE U == {u \in Ids : Shell(u) /\ users[u].old /\ Linked(u)}
    <2>1. UNCHANGED <<req, origin, tokens, raced, cut>>
      BY <1>5 DEF Sweep
    <2>2. DeleteUsers(U) \/ UNCHANGED <<users, identity>>
      BY <1>5 DEF Sweep
    <2>3. U \in SUBSET Ids /\ \A u \in U : Present(u)
      BY DEF Shell
    <2> HIDE DEF U
    <2> QED
      BY <1>2, <2>1, <2>2, <2>3, DeletionKeepsReach
  <1>6. ASSUME Console PROVE ReachInv'
    BY <1>2, <1>3, <1>4, <1>6, ProviderRemovalKeepsReach
    DEF Console, CreateInvite, RevokeInvite, SetRegistration, SaveProvider,
        memory, ghosts
  <1>7. ASSUME Clock PROVE ReachInv'
    BY <1>2, <1>3, <1>5, <1>7
    DEF Clock, ExpireInvite, FlowIsLate, TimePasses, store, memory, ghosts
  <1> QED
    BY <1>2, <1>6, <1>7 DEF OidcStart, vars, store, memory, ghosts

(* A new account is nobody's yet, *)
LEMMA InsertedIsNobodys ==
  ASSUME TypeInv, ReachInv, NEW u \in Ids, NEW w, NEW i,
         NEW s \in Subjects \cup {None}, Insert(u, w, i, s),
         w.row = "present", w.password \/ w.keys # None => s = None,
         UNCHANGED <<identity, tokens, raced, cut>>
  PROVE  /\ LinksAreTrue' /\ PasswordsAreLocal' /\ HoldersAreLinked'
         /\ EnrolledHaveHolders'
         /\ \A v \in Ids : users'[v].row = "new" => users[v].row = "new" /\ v # u
         /\ \A v \in Ids \ {u} : origin'[v] = origin[v]
         /\ origin'[u] = s
         /\ \A r \in Requests : req[r].user # u
  <1>0. /\ users \in [Ids -> User] /\ origin \in [Ids -> Subjects \cup {None}]
        /\ identity \in [Subjects -> Ids \cup {None}] /\ tokens \subseteq Ids
    BY DEF TypeInv, TypeOK
  <1>1. /\ \A v \in Ids \ {u} : users'[v] = users[v] /\ origin'[v] = origin[v]
        /\ users'[u] = w /\ origin'[u] = s /\ users[u].row = "new"
    BY <1>0 DEF Insert
  <1>2. /\ u \notin tokens /\ \A x \in Subjects : identity[x] # u
        /\ \A r \in Requests : req[r].user # u
    BY <1>1 DEF ReachInv, NewIsUnknown
  <1>3. LinksAreTrue'
    BY <1>0, <1>1, <1>2 DEF ReachInv, LinksAreTrue, Present
  <1>4. PasswordsAreLocal'
    BY <1>1 DEF ReachInv, PasswordsAreLocal, Present
  <1>5. HoldersAreLinked'
    BY <1>0, <1>1, <1>2 DEF ReachInv, HoldersAreLinked, Present
  <1>6. EnrolledHaveHolders'
    BY <1>1 DEF ReachInv, EnrolledHaveHolders, Enrolled, Present
  <1>7. \A v \in Ids : users'[v].row = "new" => users[v].row = "new" /\ v # u
    BY <1>1
  <1> QED
    BY <1>1, <1>2, <1>3, <1>4, <1>5, <1>6, <1>7

(* whether a sign-up made it, *)
LEMMA CalmInsertKeepsReach ==
  ASSUME TypeInv, ReachInv, NEW u \in Ids, NEW w, NEW i,
         NEW s \in Subjects \cup {None}, Insert(u, w, i, s),
         w.row = "present", w.password \/ w.keys # None => s = None,
         UNCHANGED <<identity, tokens, raced, cut>>, Calm
  PROVE  ReachInv'
  <1>1. /\ LinksAreTrue' /\ PasswordsAreLocal' /\ HoldersAreLinked'
        /\ EnrolledHaveHolders'
        /\ \A v \in Ids : users'[v].row = "new" => users[v].row = "new" /\ v # u
        /\ \A v \in Ids \ {u} : origin'[v] = origin[v]
        /\ origin'[u] = s
        /\ \A r \in Requests : req[r].user # u
    BY InsertedIsNobodys
  <1>2. NewIsUnknown'
    BY <1>1, NoneIsApart DEF ReachInv, NewIsUnknown, Calm
  <1>3. ASSUME NEW r \in Requests PROVE RequestIsTrue(r)'
    <2>1. \A q \in Requests : Making(q)' => Making(q) /\ req'[q] = req[q]
      BY DEF Calm, Making, Doing, Aware
    <2>2. RequestIsTrue(r) /\ Known(req[r])
      BY DEF ReachInv, RequestsAreTrue, TypeInv, ReqOK
    <2>3. Doing(r, "enrol")' => Doing(r, "enrol") /\ req'[r] = req[r]
      BY DEF Calm, Doing, Aware
    <2>4. Doing(r, "log_wait")' \/ Doing(r, "log_verify")' =>
             /\ Doing(r, "log_wait") \/ Doing(r, "log_verify")
             /\ req'[r].user = req[r].user
             /\ req[r].user \in Ids \ {u}
      BY <1>1, <2>2 DEF Calm, Doing, Aware, Known
    <2>5. Doing(r, "cb_link")' => /\ Doing(r, "cb_link") /\ req'[r] = req[r]
                                  /\ req[r].user \in Ids \ {u}
      BY <1>1, <2>2 DEF Calm, Doing, Aware, Known
    <2> QED
      BY <1>1, <2>1, <2>2, <2>3, <2>4, <2>5 DEF RequestIsTrue
  <1> QED
    BY <1>1, <1>2, <1>3 DEF ReachInv, RequestsAreTrue

LEMMA SignUpKeepsReach ==
  ASSUME TypeInv, ReachInv, NEW r \in Requests, SignUpStep(r)
  PROVE  ReachInv'
  <1>0. ReqOK
    BY DEF TypeInv
  <1>1. CASE /\ ~ RegisterCreate(r)
    <2>1. /\ \A n, k, i : SignUp(n, k, i).pc = "reg_lookup"
          /\ \A n, k, i : SignUp(n, k, i).user = None
          /\ Idle.pc = "idle" /\ Idle.user = None
          /\ {"reg_lookup", "reg_create", "idle"} \cap Aware = {}
      BY DEF SignUp, Idle, Aware
    <2>2. Calm
      BY <1>0, <1>1, <2>1, CalmSteps
      DEF SignUpStep, Register, RegisterInvited, RegisterLookup, ReleaseInvite
    <2>3. UNCHANGED <<users, identity, origin, tokens, raced, cut>>
      BY <1>1 DEF SignUpStep, Register, RegisterInvited, RegisterLookup,
                  ReleaseInvite, store, memory, ghosts
    <2> QED
      BY <2>2, <2>3, CalmKeepsReach DEF RowsStay
  <1>2. CASE RegisterCreate(r)
    <2>1. Calm
      BY <1>0, <1>2, CalmSteps DEF RegisterCreate
    <2>2. UNCHANGED <<identity, tokens, raced, cut>>
      BY <1>2 DEF RegisterCreate, memory
    <2>3. CASE NoInsert
      BY <2>1, <2>2, <2>3, CalmKeepsReach DEF NoInsert, RowsStay
    <2>4. CASE ~NoInsert
      <3>1. PICK u \in Ids : Insert(u, LocalAccount(req[r].name, req[r].keys),
                                    req[r].invite, None)
        BY <1>2, <2>4 DEF RegisterCreate
      <3>2. LocalAccount(req[r].name, req[r].keys).row = "present"
        BY DEF LocalAccount
      <3> QED
        BY <2>1, <2>2, <3>1, <3>2, CalmInsertKeepsReach
    <2> QED
      BY <2>3, <2>4
  <1> QED
    BY <1>1, <1>2

(* Whoever gets a token of an account its subject is led to. *)
LEMMA NewHolderKeepsReach ==
  ASSUME TypeInv, ReachInv, Calm, UNCHANGED <<users, identity, origin, raced, cut>>,
         NEW u \in Ids, tokens' \in {tokens, tokens \cup {u}},
         users[u].row # "new",
         \A s \in Subjects : origin[u] = s => identity[s] = u
  PROVE  ReachInv'
  <1>0. tokens \subseteq Ids
    BY DEF TypeInv, TypeOK
  <1>1. NewIsUnknown'
    BY NoneIsApart DEF ReachInv, NewIsUnknown, Calm
  <1>2. LinksAreTrue' /\ PasswordsAreLocal'
    BY DEF ReachInv, LinksAreTrue, PasswordsAreLocal, Present
  <1>3. ASSUME NEW r \in Requests PROVE RequestIsTrue(r)'
    <2>1. \A q \in Requests : Making(q)' => Making(q) /\ req'[q] = req[q]
      BY DEF Calm, Making, Doing, Aware
    <2>2. RequestIsTrue(r)
      BY DEF ReachInv, RequestsAreTrue
    <2>3. Doing(r, "enrol")' => Doing(r, "enrol") /\ req'[r] = req[r]
      BY DEF Calm, Doing, Aware
    <2>4. Doing(r, "log_wait")' \/ Doing(r, "log_verify")' =>
             /\ Doing(r, "log_wait") \/ Doing(r, "log_verify")
             /\ req'[r].user = req[r].user
      BY DEF Calm, Doing, Aware
    <2>5. Doing(r, "cb_link")' => Doing(r, "cb_link") /\ req'[r] = req[r]
      BY DEF Calm, Doing, Aware
    <2> QED
      BY <2>1, <2>2, <2>3, <2>4, <2>5 DEF RequestIsTrue
  <1>4. HoldersAreLinked'
    BY <1>0 DEF ReachInv, HoldersAreLinked, Present
  <1>5. EnrolledHaveHolders'
    BY DEF ReachInv, EnrolledHaveHolders, Enrolled, Present
  <1> QED
    BY <1>1, <1>2, <1>3, <1>4, <1>5 DEF ReachInv, RequestsAreTrue

(* A password opens accounts that were made for no subject. *)
LEMMA PasswordKeepsReach ==
  ASSUME TypeInv, ReachInv, NEW r \in Requests, PasswordStep(r)
  PROVE  ReachInv'
  <1>0. /\ ReqOK /\ Known(req[r]) /\ req \in [Requests -> Request]
        /\ tokens \subseteq Ids
    BY DEF TypeInv, TypeOK, ReqOK
  <1>1. UNCHANGED <<users, identity, origin, raced, cut>>
    BY DEF PasswordStep, Login, LoginLoad, TakePermit, LoginJudged, LeftEnds,
           store, ghosts
  <1>2. CASE Calm /\ tokens' = tokens
    BY <1>1, <1>2, CalmKeepsReach DEF RowsStay
  <1>3. CASE \/ \E n \in Names, right \in BOOLEAN : Login(r, n, right)
             \/ TakePermit(r) \/ LeftEnds(r)
    <2>1. /\ \A n, b : SignIn(n, b).pc = "log_load" /\ SignIn(n, b).user = None
          /\ "log_load" \notin Aware
      BY DEF SignIn, Idle, Aware
    <2>2. Calm
      BY <1>0, <1>3, <2>1, CalmSteps DEF Login, TakePermit, LeftEnds
    <2> QED
      BY <1>2, <1>3, <2>2 DEF Login, TakePermit, LeftEnds, memory
  <1>4. CASE LoginLoad(r)
    <2>1. tokens' = tokens
      BY <1>4 DEF LoginLoad
    <2>2. CASE Finish(r) \/ LookupFails(r)
      BY <1>0, <1>2, <2>1, <2>2, CalmSteps
    <2>3. ASSUME NEW u \in Ids, HasName(u, req[r].name), users[u].password,
                 GotoWith(r, "log_wait", u)
          PROVE  ReachInv'
      <3>1. origin[u] = None /\ users[u].row # "new"
        BY <2>3 DEF ReachInv, PasswordsAreLocal, HasName, Present
      <3>2. /\ req' = [req EXCEPT ![r] = [req[r] EXCEPT !.pc = "log_wait",
                                                        !.user = u]]
            /\ req'[r].pc = "log_wait" /\ req'[r].user = u
            /\ \A q \in Requests \ {r} : req'[q] = req[q]
        BY <1>0, <2>3 DEF GotoWith, Request
      <3>3. NewIsUnknown'
        BY <1>1, <2>1, <3>1, <3>2 DEF ReachInv, NewIsUnknown
      <3>4. ASSUME NEW q \in Requests PROVE RequestIsTrue(q)'
        <4>1. \A p \in Requests : Making(p)' => Making(p) /\ req'[p] = req[p]
          BY <3>2 DEF Making, Doing
        <4>2. RequestIsTrue(q)
          BY DEF ReachInv, RequestsAreTrue
        <4>3. CASE q = r
          BY <1>1, <3>1, <3>2, <4>3 DEF RequestIsTrue, Making, Doing
        <4>4. CASE q # r
          BY <1>1, <2>1, <3>2, <4>1, <4>2, <4>4 DEF RequestIsTrue, Doing
        <4> QED
          BY <4>3, <4>4
      <3>5. /\ LinksAreTrue' /\ PasswordsAreLocal' /\ HoldersAreLinked'
            /\ EnrolledHaveHolders'
        BY <1>1, <2>1
        DEF ReachInv, LinksAreTrue, PasswordsAreLocal, HoldersAreLinked,
            EnrolledHaveHolders, Present, Enrolled
      <3> QED
        BY <3>3, <3>4, <3>5 DEF ReachInv, RequestsAreTrue
    <2> QED
      BY <1>4, <2>2, <2>3 DEF LoginLoad
  <1>5. CASE LoginJudged(r)
    <2>1. Calm
      BY <1>0, <1>5, CalmSteps DEF LoginJudged
    <2>2. /\ req[r].user \in Ids /\ origin[req[r].user] = None
          /\ users[req[r].user].row # "new"
          /\ tokens' \in {tokens, tokens \cup {req[r].user}}
      BY <1>0, <1>5
      DEF LoginJudged, Doing, Known, ReachInv, RequestsAreTrue, RequestIsTrue,
          NewIsUnknown
    <2> QED
      BY <1>1, <2>1, <2>2, NewHolderKeepsReach, NoneIsApart
  <1> QED
    BY <1>3, <1>4, <1>5 DEF PasswordStep

(* A callback that finds the link signs its account in; one that finds     *)
(* none goes on to make an account, alone unless the two raced. *)
LEMMA LookupKeepsReach ==
  ASSUME TypeInv, ReachInv, NEW r \in Requests, CallbackLookup(r)
  PROVE  ReachInv'
  <1> DEFINE s == req[r].subject
             u == identity[s]
  <1>0. /\ ReqOK /\ Known(req[r]) /\ req \in [Requests -> Request]
        /\ identity \in [Subjects -> Ids \cup {None}]
    BY DEF TypeInv, TypeOK, ReqOK
  <1>1. /\ UNCHANGED <<users, identity, origin, cut>> /\ s \in Subjects
        /\ Doing(r, "cb_lookup")
    BY <1>0 DEF CallbackLookup, store, Known, Doing
  <1>2. CASE Calm /\ tokens' = tokens /\ raced' = raced
    BY <1>1, <1>2, CalmKeepsReach DEF RowsStay
  <1>3. ASSUME u # None, Finish(r), raced' = raced,
               tokens' = IF users[u].locked THEN tokens ELSE tokens \cup {u}
        PROVE  ReachInv'
    <2>1. /\ u \in Ids /\ users[u].row # "new"
          /\ \A x \in Subjects : origin[u] = x => identity[x] = u
      BY <1>0, <1>1, <1>3 DEF ReachInv, LinksAreTrue, Present
    <2>2. Calm
      BY <1>0, <1>3, CalmSteps
    <2> HIDE DEF u
    <2> QED
      BY <1>1, <1>3, <2>1, <2>2, NewHolderKeepsReach
  <1>4. ASSUME u = None, Goto(r, "cb_create"), tokens' = tokens,
               raced' = IF Overlaps(r) THEN raced \cup {s} ELSE raced
        PROVE  ReachInv'
    <2>1. /\ req'[r].pc = "cb_create" /\ req'[r].user = req[r].user
          /\ req'[r].subject = s
          /\ \A q \in Requests \ {r} : req'[q] = req[q]
      BY <1>0, <1>4 DEF Goto, Request
    <2>2. ASSUME NEW q \in Requests PROVE RequestIsTrue(q)'
      <3>1. RequestIsTrue(q)
        BY DEF ReachInv, RequestsAreTrue
      <3>2. CASE q = r
        <4>1. s \notin raced' =>
                \A p \in Requests : Making(p)' /\ req'[p].subject = s => p = r
          BY <1>4, <2>1 DEF Overlaps, Making, Doing
        <4> QED
          BY <1>1, <1>4, <2>1, <3>2, <4>1 DEF RequestIsTrue, Making, Doing
      <3>3. CASE q # r
        <4>1. Making(q)' /\ req'[q].subject \notin raced' => req[q].subject # s
          BY <1>4, <2>1, <3>3 DEF Overlaps, Making, Doing
        <4>2. req[q].subject \notin raced' => req[q].subject \notin raced
          BY <1>4
        <4> QED
          BY <1>1, <1>4, <2>1, <3>1, <3>3, <4>1, <4>2
          DEF RequestIsTrue, Making, Doing
      <3> QED
        BY <3>2, <3>3
    <2>3. NewIsUnknown'
      BY <1>1, <1>4, <2>1 DEF ReachInv, NewIsUnknown
    <2>4. raced \subseteq raced'
      BY <1>4
    <2>5. HoldersAreLinked'
      BY <1>1, <1>4, <2>4 DEF ReachInv, HoldersAreLinked, Present
    <2>6. LinksAreTrue' /\ PasswordsAreLocal' /\ EnrolledHaveHolders'
      BY <1>1, <1>4 DEF ReachInv, LinksAreTrue, PasswordsAreLocal,
                        EnrolledHaveHolders, Present, Enrolled
    <2> QED
      BY <2>2, <2>3, <2>5, <2>6 DEF ReachInv, RequestsAreTrue
  <1> QED
    BY <1>0, <1>2, <1>3, <1>4, CalmSteps DEF CallbackLookup

(* The account it makes is for its subject, *)
LEMMA ShellKeepsReach ==
  ASSUME TypeInv, ReachInv, NEW r \in Requests, CallbackCreate(r)
  PROVE  ReachInv'
  <1> DEFINE s == req[r].subject
  <1>0. /\ ReqOK /\ Known(req[r]) /\ req \in [Requests -> Request]
    BY DEF TypeInv, TypeOK, ReqOK
  <1>1. /\ UNCHANGED <<identity, tokens, raced, cut>> /\ s \in Subjects
        /\ Doing(r, "cb_create")
    BY <1>0 DEF CallbackCreate, memory, Known, Doing
  <1>2. CASE NoInsert /\ Finish(r)
    BY <1>0, <1>1, <1>2, CalmSteps, CalmKeepsReach DEF NoInsert, RowsStay
  <1>3. NewShell.row = "present" /\ ~NewShell.password /\ NewShell.keys = None
    BY DEF NewShell, NoUser
  <1>4. ASSUME NEW u \in Ids, Insert(u, NewShell, None, s), Finish(r)
        PROVE  ReachInv'
    BY <1>0, <1>1, <1>3, <1>4, CalmSteps, CalmInsertKeepsReach
  <1>5. ASSUME NEW u \in Ids, Insert(u, NewShell, None, s),
               GotoWith(r, "cb_link", u)
        PROVE  ReachInv'
    <2>1. /\ LinksAreTrue' /\ PasswordsAreLocal' /\ HoldersAreLinked'
          /\ EnrolledHaveHolders'
          /\ \A v \in Ids : users'[v].row = "new" => users[v].row = "new" /\ v # u
          /\ \A v \in Ids \ {u} : origin'[v] = origin[v]
          /\ origin'[u] = s
          /\ \A q \in Requests : req[q].user # u
      BY <1>1, <1>3, <1>5, InsertedIsNobodys
    <2>2. /\ req'[r].pc = "cb_link" /\ req'[r].user = u /\ req'[r].subject = s
          /\ \A q \in Requests \ {r} : req'[q] = req[q]
      BY <1>0, <1>5 DEF GotoWith, Request
    <2>3. NewIsUnknown'
      BY <1>1, <2>1, <2>2 DEF ReachInv, NewIsUnknown
    <2>4. ASSUME NEW q \in Requests PROVE RequestIsTrue(q)'
      <3>1. RequestIsTrue(q) /\ Known(req[q])
        BY DEF ReachInv, RequestsAreTrue, TypeInv, ReqOK
      <3>2. \A p \in Requests : Making(p)' => Making(p) /\ req'[p].subject
                                                             = req[p].subject
        BY <1>1, <2>2 DEF Making, Doing
      <3>3. CASE q = r
        BY <1>1, <2>1, <2>2, <3>1, <3>2, <3>3 DEF RequestIsTrue, Making, Doing
      <3>4. CASE q # r
        BY <1>1, <2>1, <2>2, <3>1, <3>2, <3>4 DEF RequestIsTrue, Doing, Known
      <3> QED
        BY <3>3, <3>4
    <2> QED
      BY <2>1, <2>3, <2>4 DEF ReachInv, RequestsAreTrue
  <1> QED
    BY <1>2, <1>4, <1>5 DEF CallbackCreate

(* and the link leads to it. *)
LEMMA LinkKeepsReach ==
  ASSUME TypeInv, ReachInv, NEW r \in Requests, CallbackLink(r)
  PROVE  ReachInv'
  <1> DEFINE s == req[r].subject
             u == req[r].user
  <1>0. /\ ReqOK /\ Known(req[r]) /\ req \in [Requests -> Request]
        /\ identity \in [Subjects -> Ids \cup {None}] /\ tokens \subseteq Ids
        /\ RequestIsTrue(r)
    BY DEF TypeInv, TypeOK, ReqOK, ReachInv, RequestsAreTrue
  <1>1. /\ UNCHANGED <<users, origin, raced, cut>> /\ s \in Subjects /\ u \in Ids
        /\ Doing(r, "cb_link") /\ origin[u] = s /\ Finish(r)
    BY <1>0 DEF CallbackLink, ghosts, Known, Doing, RequestIsTrue
  <1>2. Calm
    BY <1>0, <1>1, CalmSteps
  <1>3. CASE UNCHANGED <<identity, tokens>>
    BY <1>1, <1>2, <1>3, CalmKeepsReach DEF RowsStay
  <1>4. ASSUME Present(u),
               identity' = IF identity[s] = None
                           THEN [identity EXCEPT ![s] = u] ELSE identity,
               tokens' \in {tokens, tokens \cup {u}}
        PROVE  ReachInv'
    <2>1. /\ \A x \in Subjects \ {s} : identity'[x] = identity[x]
          /\ identity[s] = None => identity'[s] = u
          /\ identity[s] # None => identity'[s] = identity[s]
      BY <1>0, <1>1, <1>4
    <2>2. s \notin raced => /\ identity[s] = None
                            /\ \A q \in Requests : Making(q) /\ req[q].subject = s
                                                     => q = r
      BY <1>0, <1>1 DEF RequestIsTrue, Making
    <2>3. NewIsUnknown'
      BY <1>1, <1>2, <1>4, <2>1, NoneIsApart
      DEF ReachInv, NewIsUnknown, Calm, Present
    <2>4. LinksAreTrue'
      BY <1>1, <1>4, <2>1 DEF ReachInv, LinksAreTrue, Present
    <2>5. ASSUME NEW q \in Requests PROVE RequestIsTrue(q)'
      <3>1. RequestIsTrue(q) /\ Known(req[q])
        BY DEF ReachInv, RequestsAreTrue, TypeInv, ReqOK
      <3>2. /\ \A p \in Requests \ {r} : req'[p] = req[p]
            /\ req'[r].pc = "idle"
        BY <1>0, <1>1 DEF Finish, Idle
      <3>3. \A p \in Requests : Making(p)' => Making(p) /\ p # r
                                                /\ req'[p] = req[p]
        BY <3>2 DEF Making, Doing
      <3>4. CASE q = r
        BY <3>2, <3>4 DEF RequestIsTrue, Making, Doing
      <3>5. CASE q # r
        <4>1. Making(q) /\ req[q].subject \notin raced => req[q].subject # s
          BY <2>2, <3>5
        <4>2. Making(q) => req[q].subject \in Subjects
          BY <3>1 DEF Making, Doing, Known
        <4> QED
          BY <1>1, <1>4, <2>1, <3>1, <3>2, <3>3, <3>5, <4>1, <4>2
          DEF RequestIsTrue, Making, Doing
      <3> QED
        BY <3>4, <3>5
    <2>6. PasswordsAreLocal'
      BY <1>1 DEF ReachInv, PasswordsAreLocal, Present
    <2>7. HoldersAreLinked'
      <3>1. ASSUME ~cut, NEW v \in tokens, NEW x \in Subjects \ raced,
                   Present(v), origin[v] = x
            PROVE  identity'[x] = v
        BY <2>1, <2>2, <3>1, <1>0, NoneIsApart DEF ReachInv, HoldersAreLinked
      <3>2. s \notin raced => identity'[s] = u
        BY <2>1, <2>2
      <3> QED
        BY <1>1, <1>4, <3>1, <3>2 DEF HoldersAreLinked, Present
    <2>8. EnrolledHaveHolders'
      BY <1>1, <1>4 DEF ReachInv, EnrolledHaveHolders, Present, Enrolled
    <2> QED
      BY <2>3, <2>4, <2>5, <2>6, <2>7, <2>8 DEF ReachInv, RequestsAreTrue
  <1> QED
    BY <1>3, <1>4 DEF CallbackLink

(* Whoever enrols has a token, before and after. *)
LEMMA EnrolmentKeepsReach ==
  ASSUME TypeInv, ReachInv, NEW r \in Requests, NEW n \in Names,
         NEW k \in Bundles, NEW u \in Ids, Enrol(r, u, n, k)
  PROVE  ReachInv'
  <1>0. /\ ReqOK /\ req \in [Requests -> Request]
    BY DEF TypeInv, TypeOK, ReqOK
  <1>1. UNCHANGED <<users, identity, origin, tokens, raced, cut>> /\ u \in tokens
    BY DEF Enrol, store, memory, ghosts
  <1>2. CASE \E op : Start(r, op, Idle)
    <2>1. Idle.pc \notin Aware /\ Idle.user = None
      BY DEF Idle, Aware
    <2> QED
      BY <1>0, <1>1, <1>2, <2>1, CalmSteps, CalmKeepsReach DEF RowsStay
  <1>3. CASE Start(r, "oidc", Enrolment(u, n, k))
    <2>1. /\ req'[r].pc = "enrol" /\ req'[r].user = u
          /\ \A q \in Requests \ {r} : req'[q] = req[q]
      BY <1>0, <1>3 DEF Start, Enrolment, Idle
    <2>2. NewIsUnknown'
      BY <1>1, <2>1 DEF ReachInv, NewIsUnknown
    <2>3. ASSUME NEW q \in Requests PROVE RequestIsTrue(q)'
      <3>1. RequestIsTrue(q)
        BY DEF ReachInv, RequestsAreTrue
      <3>2. \A p \in Requests : Making(p)' => Making(p) /\ req'[p] = req[p]
        BY <2>1 DEF Making, Doing
      <3> QED
        BY <1>1, <2>1, <3>1, <3>2 DEF RequestIsTrue, Making, Doing
    <2>4. /\ LinksAreTrue' /\ PasswordsAreLocal' /\ HoldersAreLinked'
          /\ EnrolledHaveHolders'
      BY <1>1 DEF ReachInv, LinksAreTrue, PasswordsAreLocal, HoldersAreLinked,
                  EnrolledHaveHolders, Present, Enrolled
    <2> QED
      BY <2>2, <2>3, <2>4 DEF ReachInv, RequestsAreTrue
  <1> QED
    BY <1>2, <1>3 DEF Enrol

LEMMA EnrolWriteKeepsReach ==
  ASSUME TypeInv, ReachInv, NEW r \in Requests, EnrolWrite(r)
  PROVE  ReachInv'
  <1>0. /\ ReqOK /\ Known(req[r]) /\ users \in [Ids -> User] /\ RequestIsTrue(r)
    BY DEF TypeInv, TypeOK, ReqOK, ReachInv, RequestsAreTrue
  <1>1. /\ UNCHANGED <<identity, origin, tokens, raced, cut>>
        /\ req[r].user \in tokens /\ req[r].user \in Ids /\ Calm
    BY <1>0, CalmSteps
    DEF EnrolWrite, memory, ghosts, RequestIsTrue, Doing, Known
  <1>2. CASE users' = users
    BY <1>1, <1>2, CalmKeepsReach DEF RowsStay
  <1>3. CASE users' = [users EXCEPT ![req[r].user]
                                     = EnrolKeys(users[req[r].user], r)]
    <2>1. \A v \in Ids : /\ users'[v].row = users[v].row
                         /\ users'[v].password = users[v].password
                         /\ v # req[r].user => users'[v] = users[v]
      <3>1. ASSUME NEW w \in User
            PROVE  /\ EnrolKeys(w, r).row = w.row
                   /\ EnrolKeys(w, r).password = w.password
        BY DEF EnrolKeys, User
      <3> QED
        BY <1>0, <1>1, <1>3, <3>1
    <2>2. NewIsUnknown'
      BY <1>1, <2>1, NoneIsApart DEF ReachInv, NewIsUnknown, Calm
    <2>3. LinksAreTrue'
      BY <1>1, <2>1 DEF ReachInv, LinksAreTrue, Present, TypeInv, TypeOK
    <2>4. ASSUME NEW q \in Requests PROVE RequestIsTrue(q)'
      <3>1. RequestIsTrue(q)
        BY DEF ReachInv, RequestsAreTrue
      <3>2. \A p \in Requests : Making(p)' => Making(p) /\ req'[p] = req[p]
        BY <1>1 DEF Calm, Making, Doing, Aware
      <3>3. /\ Doing(q, "enrol")' \/ Doing(q, "cb_link")' => req'[q] = req[q]
            /\ Doing(q, "log_wait")' \/ Doing(q, "log_verify")' =>
                 /\ Doing(q, "log_wait") \/ Doing(q, "log_verify")
                 /\ req'[q].user = req[q].user
        BY <1>1 DEF Calm, Doing, Aware
      <3> QED
        BY <1>1, <3>1, <3>2, <3>3 DEF RequestIsTrue, Doing
    <2>5. PasswordsAreLocal' /\ HoldersAreLinked'
      BY <1>1, <2>1
      DEF ReachInv, PasswordsAreLocal, HoldersAreLinked, Present, TypeInv, TypeOK
    <2>6. EnrolledHaveHolders'
      BY <1>1, <2>1 DEF ReachInv, EnrolledHaveHolders, Enrolled, Present
    <2> QED
      BY <2>2, <2>3, <2>4, <2>5, <2>6 DEF ReachInv, RequestsAreTrue
  <1> QED
    BY <1>2, <1>3 DEF EnrolWrite

LEMMA ReachStep ==
  ASSUME TypeInv, ReachInv, [Next]_vars
  PROVE  ReachInv'
  <1>0. ScenarioOK /\ ReqOK
    BY DEF TypeInv
  <1>1. ASSUME NEW r \in Requests, FederatedStep(r) PROVE ReachInv'
    <2>1. ASSUME NEW f \in Flows, NEW s \in Subjects, Callback(r, f, s)
          PROVE  ReachInv'
      <3>1. /\ Return(s).pc \notin Aware /\ Return(s).user = None
            /\ Idle.pc \notin Aware /\ Idle.user = None
        BY DEF Return, Idle, Aware
      <3>2. Calm
        BY <1>0, <2>1, <3>1, CalmSteps DEF Callback
      <3> QED
        BY <2>1, <3>2, CalmKeepsReach DEF Callback, RowsStay, store, ghosts
    <2> QED
      BY <1>1, <2>1, LookupKeepsReach, ShellKeepsReach, LinkKeepsReach,
         EnrolmentKeepsReach, EnrolWriteKeepsReach DEF FederatedStep
  <1>2. ASSUME NEW r \in Requests, Cancel(r) PROVE ReachInv'
    <2>1. Calm
      <3>1. "left" \notin Aware
        BY DEF Aware
      <3> QED
        BY <1>0, <1>2, <3>1, CalmSteps DEF Cancel
    <2> QED
      BY <1>2, <2>1, CalmKeepsReach DEF Cancel, RowsStay, store, memory, ghosts
  <1>3. CASE Next
    BY <1>0, <1>1, <1>2, <1>3, StepCases, SignUpKeepsReach, PasswordKeepsReach,
       OthersKeepReach
  <1> QED
    BY <1>3, OthersKeepReach

LEMMA InitReach == Init => ReachInv
  BY NoneIsApart
  DEF Init, ReachInv, NewIsUnknown, LinksAreTrue, RequestsAreTrue,
      RequestIsTrue, PasswordsAreLocal, HoldersAreLinked, EnrolledHaveHolders,
      Present, Enrolled, Making, Doing, Idle, NoUser

(* Whoever enrolled the account their first sign-in made is led to it by   *)
(* every later one, whatever fails on the way: a token of the account is   *)
(* given out only after its link was written.  It takes that no two first  *)
(* callbacks overlapped and that the provider was never removed.           *)
THEOREM EnrolledAccountsAreReached == Spec => []EnrolledIsReached
  <1>2. TypeInv /\ ReachInv /\ [Next]_vars => ReachInv'
    BY ReachStep
  <1>3. ASSUME TypeInv, ReachInv PROVE EnrolledIsReached
    BY <1>3, NoneIsApart
    DEF TypeInv, TypeOK, ReachInv, EnrolledHaveHolders, HoldersAreLinked,
        EnrolledIsReached, Enrolled
  <1> QED
    BY InitReach, <1>2, <1>3, TypesHold, PTL DEF Spec

-----------------------------------------------------------------------------
(* Spent invites *)

(* What SpentInvitesMadeAccounts needs beside itself. *)
NewHasNoInvite == \A u \in Ids : users[u].row = "new" => via[u] = None

SpentInv == NewHasNoInvite /\ SpentInvitesMadeAccounts

Made(i) == \E u \in Ids : via[u] = i

Held(i) == \E r \in Requests : Holds(r, i)

(* No sign-up under way lets go of its invite. *)
KeepsHolders == \A r \in Requests, i \in Invites : Holds(r, i) => Holds(r, i)'

LEMMA KeeperSteps ==
  ASSUME ReqOK, NEW r \in Requests
  PROVE  /\ req[r].pc \notin SignUpPcs =>
              \A q : req' = [req EXCEPT ![r] = q] => KeepsHolders
         /\ \A pc : /\ req[r].pc \notin SignUpPcs \/ pc \in SignUpPcs
                    /\ Goto(r, pc)
              => KeepsHolders
         /\ GiveUp(r) /\ req[r].pc \in SignUpPcs => KeepsHolders
  <1>0. req \in [Requests -> Request]
    BY DEF ReqOK
  <1>1. ASSUME req[r].pc \notin SignUpPcs, NEW q, req' = [req EXCEPT ![r] = q]
        PROVE  KeepsHolders
    BY <1>0, <1>1 DEF KeepsHolders, Holds
  <1>2. ASSUME NEW pc, Goto(r, pc), req[r].pc \notin SignUpPcs \/ pc \in SignUpPcs
        PROVE  KeepsHolders
    <2>1. /\ req'[r].pc = pc /\ req'[r].invite = req[r].invite
          /\ \A q \in Requests \ {r} : req'[q] = req[q]
      BY <1>0, <1>2 DEF Goto, Request
    <2> QED
      BY <1>2, <2>1 DEF KeepsHolders, Holds
  <1>3. ASSUME GiveUp(r), req[r].pc \in SignUpPcs PROVE KeepsHolders
    <2>1. CASE req[r].invite = None
      <3>1. \A q \in Requests \ {r} : req'[q] = req[q]
        BY <1>0, <1>3, <2>1 DEF GiveUp, Finish
      <3> QED
        BY <2>1, <3>1, NoneIsApart DEF KeepsHolders, Holds
    <2>2. CASE req[r].invite # None
      <3>1. "reg_release" \in SignUpPcs
        BY DEF SignUpPcs
      <3> QED
        BY <1>2, <1>3, <2>2, <3>1 DEF GiveUp
    <2> QED
      BY <2>1, <2>2
  <1> QED
    BY <1>1, <1>2, <1>3

(* Steps that spend none and let go of none. *)
Thrifty ==
    /\ scenario' = scenario
    /\ \A i \in Invites : invite'[i].used = invite[i].used
    /\ via' = via /\ KeepsHolders
    /\ \A u \in Ids : users'[u].row = "new" => users[u].row = "new"

LEMMA ThriftyKeepsSpent ==
  ASSUME SpentInv, Thrifty
  PROVE  SpentInv'
  <1>1. NewHasNoInvite'
    BY DEF SpentInv, NewHasNoInvite, Thrifty
  <1>2. SpentInvitesMadeAccounts'
    BY DEF SpentInv, SpentInvitesMadeAccounts, Thrifty, KeepsHolders, Faults
  <1> QED
    BY <1>1, <1>2 DEF SpentInv

(* An account is made. *)
LEMMA InsertKeepsSpent ==
  ASSUME TypeInv, SpentInv, scenario' = scenario, invite' = invite,
         NEW u \in Ids, NEW w, NEW i, NEW s, Insert(u, w, i, s), w.row = "present",
         NEW r \in Requests, \A q \in Requests \ {r} : req'[q] = req[q],
         \A j \in Invites : Holds(r, j) => j = i
  PROVE  SpentInv'
  <1>0. /\ users \in [Ids -> User] /\ via \in [Ids -> Invites \cup {None}]
    BY DEF TypeInv, TypeOK
  <1>1. /\ via'[u] = i /\ via[u] = None
        /\ \A v \in Ids \ {u} : via'[v] = via[v] /\ users'[v] = users[v]
        /\ users'[u] = w
    BY <1>0 DEF Insert, SpentInv, NewHasNoInvite
  <1>2. NewHasNoInvite'
    BY <1>1 DEF SpentInv, NewHasNoInvite
  <1>3. SpentInvitesMadeAccounts'
    <2> SUFFICES ASSUME Faults \subseteq {"write"}, NEW j \in Invites,
                        invite[j].used
                 PROVE  Made(j)' \/ Held(j)'
      BY DEF SpentInvitesMadeAccounts, Faults, Made, Held
    <2>1. Made(j) \/ Held(j)
      BY DEF SpentInv, SpentInvitesMadeAccounts, Made, Held
    <2>2. CASE Made(j)
      BY <1>1, <2>2, NoneIsApart DEF Made
    <2>3. ASSUME NEW q \in Requests, Holds(q, j) PROVE Made(j)' \/ Held(j)'
      BY <1>1, <2>3 DEF Made, Held, Holds
    <2> QED
      BY <2>1, <2>2, <2>3 DEF Held
  <1> QED
    BY <1>2, <1>3 DEF SpentInv

LEMMA SignUpKeepsSpent ==
  ASSUME TypeInv, SpentInv, scenario' = scenario, NEW r \in Requests,
         SignUpStep(r)
  PROVE  SpentInv'
  <1>0. /\ ReqOK /\ req \in [Requests -> Request]
        /\ invite \in [Invites -> Invite] /\ "idle" \notin SignUpPcs
        /\ {"reg_lookup", "reg_create", "reg_release"} \subseteq SignUpPcs
    BY DEF TypeInv, TypeOK, SignUpPcs
  <1>1. ASSUME NEW n \in Names, NEW k \in Bundles, Register(r, n, k)
        PROVE  SpentInv'
    <2>1. KeepsHolders
      BY <1>0, <1>1, KeeperSteps DEF Register, Start, Doing
    <2> QED
      BY <1>1, <2>1, ThriftyKeepsSpent DEF Register, Thrifty, store, ghosts
  <1>2. ASSUME NEW n \in Names, NEW k \in Bundles, NEW j \in Invites,
               RegisterInvited(r, n, k, j)
        PROVE  SpentInv'
    <2>1. KeepsHolders
      BY <1>0, <1>2, KeeperSteps DEF RegisterInvited, Start, Doing
    <2>2. /\ via' = via /\ users' = users
          /\ \A i \in Invites \ {j} : invite'[i] = invite[i]
      BY <1>0, <1>2 DEF RegisterInvited, ghosts
    <2>3. "lost_reply" \notin Faults => Holds(r, j)'
      <3>1. SignUp(n, k, j).pc = "reg_lookup" /\ SignUp(n, k, j).invite = j
        BY DEF SignUp, Idle
      <3> QED
        BY <1>0, <1>2, <3>1 DEF RegisterInvited, Start, Holds
    <2>4. NewHasNoInvite'
      BY <2>2 DEF SpentInv, NewHasNoInvite
    <2>5. SpentInvitesMadeAccounts'
      BY <2>1, <2>2, <2>3
      DEF SpentInv, SpentInvitesMadeAccounts, KeepsHolders, Faults
    <2> QED
      BY <2>4, <2>5 DEF SpentInv
  <1>3. CASE RegisterLookup(r)
    <2>1. req[r].pc \in SignUpPcs
      BY <1>0, <1>3 DEF RegisterLookup, Doing
    <2>2. ("lookup" \in Faults) \/ KeepsHolders
      BY <1>0, <1>3, <2>1, KeeperSteps DEF RegisterLookup, LookupFails
    <2>3. UNCHANGED <<users, invite, via>>
      BY <1>3 DEF RegisterLookup, store, ghosts
    <2>4. CASE KeepsHolders
      BY <2>3, <2>4, ThriftyKeepsSpent DEF Thrifty
    <2>5. CASE "lookup" \in Faults
      BY <2>3, <2>5
      DEF SpentInv, NewHasNoInvite, SpentInvitesMadeAccounts, Faults
    <2> QED
      BY <2>2, <2>4, <2>5
  <1>4. CASE RegisterCreate(r)
    <2>1. req[r].pc \in SignUpPcs /\ invite' = invite
      BY <1>0, <1>4 DEF RegisterCreate, Doing
    <2>2. CASE NoInsert /\ GiveUp(r)
      BY <1>0, <2>1, <2>2, KeeperSteps, ThriftyKeepsSpent DEF Thrifty, NoInsert
    <2>3. ASSUME NEW u \in Ids, Finish(r) \/ GiveUp(r),
                 Insert(u, LocalAccount(req[r].name, req[r].keys),
                        req[r].invite, None)
          PROVE  SpentInv'
      <3>1. LocalAccount(req[r].name, req[r].keys).row = "present"
        BY DEF LocalAccount
      <3>2. \A q \in Requests \ {r} : req'[q] = req[q]
        BY <1>0, <2>3 DEF Finish, GiveUp, Goto
      <3>3. \A j \in Invites : Holds(r, j) => j = req[r].invite
        BY DEF Holds
      <3> QED
        BY <2>1, <2>3, <3>1, <3>2, <3>3, InsertKeepsSpent
    <2> QED
      BY <1>4, <2>2, <2>3 DEF RegisterCreate
  <1>5. CASE ReleaseInvite(r)
    <2>1. /\ via' = via /\ users' = users
          /\ \A q \in Requests \ {r} : req'[q] = req[q]
      BY <1>0, <1>5 DEF ReleaseInvite, ghosts, Finish
    <2>2. \A i \in Invites : "release" \notin Faults =>
            /\ invite'[i].used => invite[i].used
            /\ i = req[r].invite => ~invite'[i].used
      BY <1>0, <1>5 DEF ReleaseInvite, Invite
    <2>3. NewHasNoInvite'
      BY <2>1 DEF SpentInv, NewHasNoInvite
    <2>4. SpentInvitesMadeAccounts'
      <3> SUFFICES ASSUME Faults \subseteq {"write"}, NEW j \in Invites,
                          invite'[j].used
                   PROVE  Made(j)' \/ Held(j)'
        BY DEF SpentInvitesMadeAccounts, Faults, Made, Held
      <3>1. invite[j].used /\ j # req[r].invite
        BY <2>2
      <3>2. Made(j) \/ Held(j)
        BY <3>1 DEF SpentInv, SpentInvitesMadeAccounts, Made, Held
      <3> QED
        BY <2>1, <3>1, <3>2 DEF Made, Held, Holds
    <2> QED
      BY <2>3, <2>4 DEF SpentInv
  <1> QED
    BY <1>1, <1>2, <1>3, <1>4, <1>5 DEF SignUpStep

LEMMA SignInKeepsSpent ==
  ASSUME TypeInv, SpentInv, scenario' = scenario, NEW r \in Requests,
         PasswordStep(r) \/ FederatedStep(r)
  PROVE  SpentInv'
  <1>0. ReqOK /\ req \in [Requests -> Request]
    BY DEF TypeInv, TypeOK
  <1>1. req[r].pc \notin SignUpPcs
    BY DEF PasswordStep, FederatedStep, Login, LoginLoad, TakePermit,
           LoginJudged, LeftEnds, Callback, CallbackLookup, CallbackCreate,
           CallbackLink, Enrol, EnrolWrite, Start, Doing, SignUpPcs
  <1>2. \E q : req' = [req EXCEPT ![r] = q]
    <2>1. Finish(r) => \E q : req' = [req EXCEPT ![r] = q]
      BY DEF Finish
    <2>2. \A pc : Goto(r, pc) => \E q : req' = [req EXCEPT ![r] = q]
      BY DEF Goto
    <2>3. \A pc, u : GotoWith(r, pc, u) => \E q : req' = [req EXCEPT ![r] = q]
      BY DEF GotoWith
    <2>4. \A op, q : Start(r, op, q) => \E p : req' = [req EXCEPT ![r] = p]
      BY DEF Start
    <2> QED
      BY <2>1, <2>2, <2>3, <2>4
      DEF PasswordStep, FederatedStep, Login, LoginLoad, TakePermit,
          LoginJudged, LeftEnds, Callback, CallbackLookup, CallbackCreate,
          CallbackLink, Enrol, EnrolWrite, LookupFails
  <1>3. KeepsHolders /\ \A q \in Requests \ {r} : req'[q] = req[q]
    BY <1>0, <1>1, <1>2, KeeperSteps
  <1>4. invite' = invite
    BY DEF PasswordStep, FederatedStep, Login, LoginLoad, TakePermit,
           LoginJudged, LeftEnds, Callback, CallbackLookup, CallbackCreate,
           CallbackLink, Enrol, EnrolWrite, store
  <1>5. CASE via' = via /\ \A u \in Ids : users'[u].row = users[u].row
    BY <1>3, <1>4, <1>5, ThriftyKeepsSpent DEF Thrifty
  <1>6. ASSUME NEW u \in Ids, Insert(u, NewShell, None, req[r].subject)
        PROVE  SpentInv'
    <2>1. NewShell.row = "present"
      BY DEF NewShell, NoUser
    <2> QED
      BY <1>1, <1>3, <1>4, <1>6, <2>1, InsertKeepsSpent DEF Holds
  <1>7. CASE CallbackCreate(r)
    BY <1>5, <1>6, <1>7 DEF CallbackCreate, NoInsert
  <1>8. CASE EnrolWrite(r)
    <2>1. users \in [Ids -> User] /\ via' = via
      BY <1>8 DEF TypeInv, TypeOK, EnrolWrite, ghosts
    <2>2. \A w \in User : EnrolKeys(w, r).row = w.row
      BY DEF EnrolKeys, User
    <2>3. \A u \in Ids : users'[u].row = users[u].row
      BY <1>8, <2>1, <2>2 DEF EnrolWrite
    <2> QED
      BY <1>5, <2>1, <2>3
  <1>9. CASE ~CallbackCreate(r) /\ ~EnrolWrite(r)
    <2>1. UNCHANGED <<users, via>>
      BY <1>9 DEF PasswordStep, FederatedStep, Login, LoginLoad, TakePermit,
                  LoginJudged, LeftEnds, Callback, CallbackLookup,
                  CallbackLink, Enrol, store, ghosts
    <2> QED
      BY <1>5, <2>1
  <1> QED
    BY <1>7, <1>8, <1>9

LEMMA OthersKeepSpent ==
  ASSUME TypeInv, SpentInv, scenario' = scenario,
         \/ \E r \in Requests : Cancel(r)
         \/ \E f \in Flows : OidcStart(f)
         \/ Console \/ Clock \/ UNCHANGED vars
  PROVE  SpentInv'
  <1>0. /\ users \in [Ids -> User] /\ invite \in [Invites -> Invite]
    BY DEF TypeInv, TypeOK
  <1>1. CASE \E r \in Requests : Cancel(r)
    <2>1. "crash" \in Faults /\ UNCHANGED <<users, via>>
      BY <1>1 DEF Cancel, store, ghosts
    <2> QED
      BY <2>1 DEF SpentInv, NewHasNoInvite, SpentInvitesMadeAccounts, Faults
  <1>2. CASE ~ \E r \in Requests : Cancel(r)
    <2>1. via' = via /\ req' = req
      BY <1>2 DEF OidcStart, Console, Clock, CreateInvite, RevokeInvite,
             SetRegistration, SetUserLock, DeleteAccount, SaveProvider,
             RemoveProvider, ExpireInvite, Grow, FlowIsLate, TimePasses, Sweep,
             vars, ghosts
    <2>2. \A i \in Invites : invite'[i].used = invite[i].used
      BY <1>2, OthersSpendNone DEF Unspent
    <2>3. \A u \in Ids : users'[u].row = "new" => users[u].row = "new"
      <3>1. \/ users' = users
            \/ \E u \in Ids, b \in BOOLEAN :
                 \/ users' = [users EXCEPT ![u].locked = b]
                 \/ users' = [users EXCEPT ![u].old = b]
            \/ \E U \in SUBSET Ids : DeleteUsers(U)
        <4>1. ASSUME Sweep
              PROVE  users' = users \/ \E U \in SUBSET Ids : DeleteUsers(U)
          <5> DEFINE U == {u \in Ids : Shell(u) /\ users[u].old /\ Linked(u)}
          <5>1. U \in SUBSET Ids /\ (DeleteUsers(U) \/ users' = users)
            BY <4>1 DEF Sweep
          <5> HIDE DEF U
          <5> QED
            BY <5>1
        <4>2. ASSUME NEW u \in Ids, DeleteAccount(u)
              PROVE  \E U \in SUBSET Ids : DeleteUsers(U)
          BY <4>2 DEF DeleteAccount
        <4> QED
          BY <1>2, <4>1, <4>2
          DEF OidcStart, Console, Clock, CreateInvite, RevokeInvite,
              SetRegistration, SetUserLock, SaveProvider, RemoveProvider,
              ExpireInvite, Grow, FlowIsLate, TimePasses, vars, store
      <3>2. ASSUME NEW U \in SUBSET Ids, DeleteUsers(U), NEW u \in Ids,
                   users'[u].row = "new"
            PROVE  users[u].row = "new"
        BY <3>2 DEF DeleteUsers, NoUser
      <3> QED
        BY <1>0, <3>1, <3>2 DEF User
    <2> QED
      BY <2>1, <2>2, <2>3, ThriftyKeepsSpent DEF Thrifty, KeepsHolders, Holds
  <1> QED
    BY <1>1, <1>2

(* Where nothing but a statement that writes may fail, a code that is      *)
(* spent made an account, or the sign-up that holds it is still under way  *)
(* and makes one or hands it back.                                         *)
THEOREM SpentInvitesMakeAccounts == Spec => []SpentInvitesMadeAccounts
  <1>1. Init => SpentInv
    BY DEF Init, SpentInv, NewHasNoInvite, SpentInvitesMadeAccounts, NoInvite
  <1>2. ASSUME TypeInv, SpentInv, [Next]_vars PROVE SpentInv'
    <2>1. scenario' = scenario /\ ScenarioOK
      BY <1>2 DEF Next, vars, TypeInv
    <2> QED
      BY <1>2, <2>1, StepCases, SignUpKeepsSpent, SignInKeepsSpent,
         OthersKeepSpent
  <1>3. SpentInv => SpentInvitesMadeAccounts
    BY DEF SpentInv
  <1> QED
    BY <1>1, <1>2, <1>3, TypesHold, PTL DEF Spec

-----------------------------------------------------------------------------
(* Shells *)

SweepInv == (provider = "gone" => cut) /\ ShellsCanBeSwept

KeepsLinkers == \A r \in Requests : Doing(r, "cb_link") => req'[r] = req[r]

(* A step that makes no shell and takes no link keeps shells findable. *)
LEMMA QuietKeepsShells ==
  ASSUME SweepInv, scenario' = scenario, cut' = cut, identity' = identity,
         provider' = "gone" => provider = "gone", raced \subseteq raced',
         KeepsLinkers,
         \A u \in Ids : Shell(u)' => Shell(u) /\ origin'[u] = origin[u]
  PROVE  SweepInv'
  <1>1. Faults' = Faults /\ \A u \in Ids : Linked(u)' <=> Linked(u)
    BY DEF Faults, Linked
  <1>2. \A u \in Ids : Linking(u) => Linking(u)'
    BY DEF Linking, KeepsLinkers, Doing
  <1>3. \A u \in Ids : Shell(u)' /\ ShellIsKnown(u) => ShellIsKnown(u)'
    BY <1>1, <1>2 DEF ShellIsKnown
  <1> QED
    BY <1>1, <1>3 DEF SweepInv, ShellsCanBeSwept

(* So do deletions: a link goes with its account. *)
LEMMA DeletionKeepsShells ==
  ASSUME TypeInv, SweepInv, NEW U \in SUBSET Ids, DeleteUsers(U),
         UNCHANGED <<scenario, provider, cut, req, origin, raced>>
  PROVE  SweepInv'
  <1>0. /\ users \in [Ids -> User] /\ identity \in [Subjects -> Ids \cup {None}]
    BY DEF TypeInv, TypeOK
  <1>1. \A u \in Ids : Shell(u)' => Shell(u) /\ u \notin U
    BY <1>0 DEF DeleteUsers, NoUser, Shell, Present
  <1>2. \A u \in Ids \ U : Linked(u) => Linked(u)'
    BY <1>0 DEF DeleteUsers, Unlink, Linked
  <1>3. \A u \in Ids : Linking(u) <=> Linking(u)'
    BY DEF Linking, Doing
  <1>4. \A u \in Ids : Shell(u)' /\ ShellIsKnown(u) => ShellIsKnown(u)'
    BY <1>1, <1>2, <1>3 DEF ShellIsKnown
  <1>5. Faults' = Faults
    BY DEF Faults
  <1> QED
    BY <1>1, <1>4, <1>5 DEF SweepInv, ShellsCanBeSwept

(* A first callback links the shell it made, or had raced with another. *)
LEMMA LinkKeepsShells ==
  ASSUME TypeInv, ReachInv, SweepInv, scenario' = scenario,
         NEW r \in Requests, CallbackLink(r)
  PROVE  SweepInv'
  <1>0. /\ req \in [Requests -> Request] /\ Known(req[r])
        /\ identity \in [Subjects -> Ids \cup {None}] /\ RequestIsTrue(r)
    BY DEF TypeInv, TypeOK, ReqOK, ReachInv, RequestsAreTrue
  <1>p. PICK u \in Ids, s \in Subjects : req[r].user = u /\ req[r].subject = s
    BY <1>0 DEF CallbackLink, Known, Doing
  <1>1. /\ UNCHANGED <<users, provider, origin, raced, cut>>
        /\ origin[u] = s /\ Finish(r) /\ Doing(r, "cb_link")
    BY <1>0, <1>p DEF CallbackLink, ghosts, RequestIsTrue
  <1>2. \A v \in Ids \ {u} : Linking(v) => Linking(v)'
    BY <1>0, <1>1, <1>p DEF Linking, Doing, Finish
  <1>3. \A v \in Ids : Linked(v) => Linked(v)'
    BY <1>0, <1>1, <1>p, NoneIsApart DEF CallbackLink, Linked
  <1>4. "write" \notin Faults /\ ~cut /\ Present(u) => ShellIsKnown(u)'
    <2> SUFFICES ASSUME "write" \notin Faults, ~cut, Present(u)
                 PROVE  ShellIsKnown(u)'
      OBVIOUS
    <2>1. provider # "gone"
      BY DEF SweepInv
    <2>2. identity' = IF identity[s] = None
                      THEN [identity EXCEPT ![s] = u] ELSE identity
      BY <1>p, <2>1 DEF CallbackLink
    <2>3. CASE s \in raced
      BY <1>1, <2>3 DEF ShellIsKnown
    <2>4. CASE s \notin raced
      <3>1. identity'[s] = u
        BY <1>0, <1>1, <1>p, <2>2, <2>4 DEF RequestIsTrue, Making
      <3> QED
        BY <1>1, <3>1 DEF ShellIsKnown, Linked
    <2> QED
      BY <2>3, <2>4
  <1>5. Faults' = Faults /\ \A v \in Ids : Shell(v)' <=> Shell(v)
    BY <1>1 DEF Faults, Shell, Present
  <1>6. \A v \in Ids \ {u} : ShellIsKnown(v) => ShellIsKnown(v)'
    BY <1>1, <1>2, <1>3 DEF ShellIsKnown
  <1>7. \A v \in Ids : Shell(v) => Present(v)
    BY DEF Shell
  <1>8. ASSUME Faults \subseteq {"lookup", "release"}, ~cut, NEW v \in Ids, Shell(v)
        PROVE  ShellIsKnown(v)'
    <2>1. ShellIsKnown(v)
      BY <1>8 DEF SweepInv, ShellsCanBeSwept
    <2> QED
      BY <1>4, <1>6, <1>7, <1>8, <2>1
  <1> QED
    BY <1>1, <1>5, <1>8 DEF SweepInv, ShellsCanBeSwept

(* The shell a first callback makes, it is about to link. *)
LEMMA CreationKeepsShells ==
  ASSUME TypeInv, SweepInv, scenario' = scenario, NEW r \in Requests,
         CallbackCreate(r)
  PROVE  SweepInv'
  <1>0. /\ req \in [Requests -> Request] /\ users \in [Ids -> User]
        /\ origin \in [Ids -> Subjects \cup {None}]
    BY DEF TypeInv, TypeOK
  <1>1. /\ UNCHANGED <<identity, provider, raced, cut>> /\ Doing(r, "cb_create")
        /\ \A q \in Requests \ {r} : req'[q] = req[q]
    BY <1>0 DEF CallbackCreate, Finish, GotoWith
  <1>2. KeepsLinkers
    BY <1>1 DEF KeepsLinkers, Doing
  <1>3. CASE NoInsert
    BY <1>1, <1>2, <1>3, QuietKeepsShells DEF NoInsert, Shell, Present
  <1>4. ASSUME NEW u \in Ids, Insert(u, NewShell, None, req[r].subject),
               GotoWith(r, "cb_link", u)
        PROVE  SweepInv'
    <2>1. Linking(u)'
      BY <1>0, <1>4 DEF GotoWith, Request, Linking, Doing
    <2>2. \A v \in Ids \ {u} : /\ origin'[v] = origin[v] /\ users'[v] = users[v]
                               /\ Shell(v)' <=> Shell(v)
                               /\ Linked(v)' <=> Linked(v)
                               /\ Linking(v) => Linking(v)'
      BY <1>0, <1>1, <1>2, <1>4
      DEF Insert, Shell, Present, Linked, Linking, KeepsLinkers, Doing
    <2>3. \A v \in Ids : v = u \/ ShellIsKnown(v) => ShellIsKnown(v)'
      BY <1>1, <2>1, <2>2 DEF ShellIsKnown
    <2> QED
      BY <1>1, <2>2, <2>3 DEF SweepInv, ShellsCanBeSwept, Faults
  <1>5. CASE "lost_reply" \in Faults
    BY <1>1, <1>5 DEF SweepInv, ShellsCanBeSwept, Faults
  <1> QED
    BY <1>3, <1>4, <1>5 DEF CallbackCreate

LEMMA SignUpKeepsShells ==
  ASSUME TypeInv, SweepInv, scenario' = scenario, NEW r \in Requests,
         SignUpStep(r)
  PROVE  SweepInv'
  <1>0. /\ req \in [Requests -> Request] /\ users \in [Ids -> User]
        /\ origin \in [Ids -> Subjects \cup {None}]
    BY DEF TypeInv, TypeOK
  <1>1. UNCHANGED <<identity, provider, raced, cut>>
    BY DEF SignUpStep, Register, RegisterInvited, RegisterLookup,
           RegisterCreate, ReleaseInvite, store, ghosts
  <1>2. ~Doing(r, "cb_link") /\ \A q \in Requests \ {r} : req'[q] = req[q]
    BY <1>0 DEF SignUpStep, Register, RegisterInvited, RegisterLookup,
                RegisterCreate, ReleaseInvite, Start, Doing, LookupFails,
                Finish, GiveUp, Goto
  <1>3. KeepsLinkers
    BY <1>2 DEF KeepsLinkers
  <1>4. CASE UNCHANGED <<users, origin>>
    BY <1>1, <1>3, <1>4, QuietKeepsShells DEF Shell, Present
  <1>5. ASSUME NEW u \in Ids,
               Insert(u, LocalAccount(req[r].name, req[r].keys),
                      req[r].invite, None)
        PROVE  SweepInv'
    <2>1. LocalAccount(req[r].name, req[r].keys).password
      BY DEF LocalAccount
    <2>2. \A v \in Ids : Shell(v)' => Shell(v) /\ origin'[v] = origin[v]
      BY <1>0, <1>5, <2>1 DEF Insert, Shell, Present
    <2> QED
      BY <1>1, <1>3, <2>2, QuietKeepsShells
  <1> QED
    BY <1>4, <1>5 DEF SignUpStep, Register, RegisterInvited, RegisterLookup,
       RegisterCreate, ReleaseInvite, NoInsert, store, ghosts

LEMMA SignInKeepsShells ==
  ASSUME TypeInv, ReachInv, SweepInv, scenario' = scenario, NEW r \in Requests,
         PasswordStep(r) \/ FederatedStep(r)
  PROVE  SweepInv'
  <1>0. /\ req \in [Requests -> Request] /\ users \in [Ids -> User]
    BY DEF TypeInv, TypeOK
  <1>1. CASE CallbackLink(r) \/ CallbackCreate(r)
    BY <1>1, LinkKeepsShells, CreationKeepsShells
  <1>2. CASE ~CallbackLink(r) /\ ~CallbackCreate(r)
    <2>1. UNCHANGED <<identity, provider, origin, cut>>
      BY <1>2 DEF PasswordStep, FederatedStep, Login, LoginLoad, TakePermit,
         LoginJudged, LeftEnds, Callback, CallbackLookup, Enrol, EnrolWrite,
         store, ghosts
    <2>2. ~Doing(r, "cb_link") /\ \A q \in Requests \ {r} : req'[q] = req[q]
      BY <1>0, <1>2 DEF PasswordStep, FederatedStep, Login, LoginLoad,
         TakePermit, LoginJudged, LeftEnds, Callback, CallbackLookup, Enrol,
         EnrolWrite, Start, Doing, LookupFails, Finish, Goto, GotoWith
    <2>3. KeepsLinkers
      BY <2>2 DEF KeepsLinkers
    <2>4. raced \subseteq raced'
      BY <1>2 DEF PasswordStep, FederatedStep, Login, LoginLoad, TakePermit,
         LoginJudged, LeftEnds, Callback, CallbackLookup, Enrol, EnrolWrite,
         ghosts
    <2>5. users' = users \/ EnrolWrite(r)
      BY <1>2 DEF PasswordStep, FederatedStep, Login, LoginLoad, TakePermit,
         LoginJudged, LeftEnds, Callback, CallbackLookup, Enrol, store
    <2>6. \A v \in Ids : Shell(v)' => Shell(v)
      <3>1. \A w \in User : LET x == EnrolKeys(w, r)
                            IN  /\ x.row = w.row /\ x.password = w.password
                                /\ w.keys # None => x.keys = w.keys
        BY DEF EnrolKeys, User
      <3>2. CASE EnrolWrite(r)
        <4>1. \/ users' = users
              \/ users' = [users EXCEPT ![req[r].user]
                                         = EnrolKeys(users[req[r].user], r)]
          BY <3>2 DEF EnrolWrite
        <4>2. \A v \in Ids : users'[v] \in {users[v], EnrolKeys(users[v], r)}
          BY <1>0, <4>1
        <4> QED
          BY <1>0, <3>1, <4>2 DEF Shell, Present
      <3>3. CASE users' = users
        BY <3>3 DEF Shell, Present
      <3> QED
        BY <2>5, <3>2, <3>3
    <2> QED
      BY <2>1, <2>3, <2>4, <2>6, QuietKeepsShells
  <1> QED
    BY <1>1, <1>2

LEMMA OthersKeepShells ==
  ASSUME TypeInv, SweepInv, scenario' = scenario,
         \/ \E r \in Requests : Cancel(r)
         \/ \E f \in Flows : OidcStart(f)
         \/ Console \/ Clock \/ UNCHANGED vars
  PROVE  SweepInv'
  <1>0. users \in [Ids -> User]
    BY DEF TypeInv, TypeOK
  <1>1. ASSUME NEW r \in Requests, Cancel(r) PROVE SweepInv'
    BY <1>1 DEF Cancel, SweepInv, ShellsCanBeSwept, Faults, store, ghosts
  <1>2. CASE UNCHANGED <<users, identity, provider, req, origin, raced, cut>>
    BY <1>2, QuietKeepsShells DEF Shell, Present, KeepsLinkers
  <1>3. ASSUME NEW u \in Ids, NEW b \in BOOLEAN, SetUserLock(u, b) \/ Grow(u)
        PROVE  SweepInv'
    <2>1. \A v \in Ids : Shell(v)' => Shell(v)
      BY <1>0, <1>3 DEF SetUserLock, Grow, Shell, Present, User
    <2> QED
      BY <1>3, <2>1, QuietKeepsShells
      DEF SetUserLock, Grow, memory, ghosts, KeepsLinkers
  <1>4. ASSUME NEW u \in Ids, DeleteAccount(u) PROVE SweepInv'
    BY <1>4, DeletionKeepsShells DEF DeleteAccount, ghosts
  <1>5. ASSUME Sweep PROVE SweepInv'
    <2> DEFINE U == {u \in Ids : Shell(u) /\ users[u].old /\ Linked(u)}
    <2>1. /\ UNCHANGED <<provider, req, origin, raced, cut>>
          /\ DeleteUsers(U) \/ UNCHANGED <<users, identity>>
          /\ U \in SUBSET Ids
      BY <1>5 DEF Sweep
    <2> HIDE DEF U
    <2> QED
      BY <1>2, <2>1, DeletionKeepsShells
  <1>6. ASSUME RemoveProvider PROVE SweepInv'
    BY <1>6 DEF RemoveProvider, SweepInv, ShellsCanBeSwept
  <1>7. ASSUME NEW p \in {"enabled", "disabled"}, SaveProvider(p)
        PROVE  SweepInv'
    BY <1>7, QuietKeepsShells
    DEF SaveProvider, memory, ghosts, Shell, Present, KeepsLinkers
  <1>8. ASSUME Console PROVE SweepInv'
    BY <1>2, <1>3, <1>4, <1>6, <1>7, <1>8
    DEF Console, CreateInvite, RevokeInvite, SetRegistration, ghosts
  <1>9. ASSUME Clock PROVE SweepInv'
    BY <1>2, <1>3, <1>5, <1>9
    DEF Clock, ExpireInvite, FlowIsLate, TimePasses, store, ghosts
  <1> QED
    BY <1>1, <1>2, <1>8, <1>9 DEF OidcStart, vars, store, ghosts

(* Where no INSERT fails, no reply is lost and no handler is dropped,      *)
(* every account of a sign-in that was never finished is one the timer's   *)
(* DELETE finds, or is about to be, or belongs to a subject whose first    *)
(* callbacks overlapped.                                                   *)
THEOREM ShellsAreFound == Spec => []ShellsCanBeSwept
  <1>1. Init => ReachInv /\ SweepInv
    BY InitReach DEF Init, SweepInv, ShellsCanBeSwept, Shell, Present, NoUser
  <1>2. ASSUME TypeInv, ReachInv /\ SweepInv, [Next]_vars
        PROVE  ReachInv' /\ SweepInv'
    <2>1. scenario' = scenario /\ ScenarioOK
      BY <1>2 DEF Next, vars, TypeInv
    <2> QED
      BY <1>2, <2>1, StepCases, ReachStep, SignUpKeepsShells, SignInKeepsShells,
         OthersKeepShells
  <1>3. SweepInv => ShellsCanBeSwept
    BY DEF SweepInv
  <1> QED
    BY <1>1, <1>2, <1>3, TypesHold, PTL DEF Spec

-----------------------------------------------------------------------------
(* Guesses *)

(* The attempts on a name that are past the check of its lock-out and may  *)
(* still be counted.                                                       *)
TryPcs == {"log_load", "log_wait", "log_verify"}

Trying(n) == {r \in scenario.slots : req[r].pc \in TryPcs /\ req[r].name = n}

(* What makes GuessesAreBounded inductive: before the lock falls every     *)
(* wrong password is in the count; once it has fallen nobody new gets past *)
(* the check until the record is begun anew, so what may still be judged   *)
(* is under way already.                                                   *)
GuessOK(n) ==
    LET f == failures[n]
    IN  /\ f.count < Threshold
        /\ f.lock = "none" => guesses[n] <= f.count
        /\ f.lock # "none" =>
             guesses[n] + Cardinality(Trying(n))
               <= Threshold + Cardinality(scenario.slots) - 1

GuessInv == Threshold > 0 => \A n \in Names : GuessOK(n)

LEMMA TryingIsFinite ==
  ASSUME ScenarioOK, NEW n
  PROVE  /\ IsFiniteSet(scenario.slots) /\ Cardinality(scenario.slots) \in Nat
         /\ \A S \in SUBSET scenario.slots :
              /\ IsFiniteSet(S) /\ Cardinality(S) \in Nat
              /\ Cardinality(S) <= Cardinality(scenario.slots)
         /\ Trying(n) \subseteq scenario.slots
  <1>1. IsFiniteSet(scenario.slots)
    BY AccountsAssumption, FS_Subset DEF ScenarioOK
  <1> QED
    BY <1>1, FS_Subset, FS_CardinalityType DEF Trying

(* Nobody new tries a name. *)
NoNewTry(n) == scenario' = scenario /\ Trying(n)' \subseteq Trying(n)

(* What is not counted, and lets nobody in, changes nothing; *)
LEMMA UncountedKeepsGuesses ==
  ASSUME ScenarioOK, CountsOK, NEW n \in Names, GuessOK(n), NoNewTry(n),
         failures'[n].count = failures[n].count,
         failures'[n].lock = "none" <=> failures[n].lock = "none",
         guesses'[n] = guesses[n]
  PROVE  GuessOK(n)'
  <1>1. Cardinality(Trying(n)') <= Cardinality(Trying(n))
    BY TryingIsFinite, FS_Subset DEF NoNewTry
  <1>2. /\ Cardinality(Trying(n)') \in Nat /\ Cardinality(Trying(n)) \in Nat
        /\ Cardinality(scenario.slots) \in Nat /\ guesses[n] \in Nat
    BY TryingIsFinite DEF NoNewTry, CountsOK
  <1> QED
    BY <1>1, <1>2, ThrottleAssumption DEF GuessOK, NoNewTry

(* nor does an attempt let in while the lock is open. *)
LEMMA OpenLockKeepsGuesses ==
  ASSUME NEW n \in Names, GuessOK(n), failures[n].lock = "none",
         failures'[n] = failures[n], guesses'[n] = guesses[n]
  PROVE  GuessOK(n)'
  BY DEF GuessOK

(* A record that is dropped takes its guesses with it. *)
LEMMA ClearedKeepsGuesses ==
  ASSUME NEW n \in Names, Threshold > 0,
         failures'[n] = NoFailures, guesses'[n] = 0
  PROVE  GuessOK(n)'
  BY DEF GuessOK, NoFailures

(* A wrong password uses its attempt up. *)
LEMMA FailKeepsGuesses ==
  ASSUME ScenarioOK, CountsOK, NEW n \in Names, GuessOK(n), Threshold > 0, Fail(n),
         NEW r \in Trying(n), scenario' = scenario,
         Trying(n)' \subseteq Trying(n) \ {r}
  PROVE  GuessOK(n)'
  <1> DEFINE slots == Cardinality(scenario.slots)
             before == Cardinality(Trying(n))
             after == Cardinality(Trying(n)')
  <1>1. /\ slots \in Nat /\ before \in Nat /\ after \in Nat
        /\ after <= before - 1 /\ before <= slots
    <2>1. IsFiniteSet(Trying(n)) /\ before \in Nat /\ before <= slots /\ slots \in Nat
      BY TryingIsFinite
    <2>2. IsFiniteSet(Trying(n) \ {r}) /\ Cardinality(Trying(n) \ {r}) = before - 1
      BY <2>1, FS_RemoveElement
    <2>3. after \in Nat /\ after <= Cardinality(Trying(n) \ {r})
      BY <2>2, FS_Subset, FS_CardinalityType
    <2> QED
      BY <2>1, <2>2, <2>3
  <1>2. /\ failures[n] \in Failures /\ guesses[n] \in Nat /\ Threshold \in Nat
        /\ failures'[n] = RecordFailure(failures[n])
        /\ guesses'[n] = IF failures[n].stale THEN 1 ELSE guesses[n] + 1
    BY ThrottleAssumption DEF CountsOK, Fail
  <1>3. failures[n].count \in Nat /\ failures[n].count < Threshold
    BY <1>2 DEF Failures, GuessOK
  <1> HIDE DEF slots, before, after
  <1>4. CASE Counted(failures[n]) >= Threshold
    <2>1. failures'[n].count = 0 /\ failures'[n].lock = "on"
      BY <1>2, <1>4 DEF RecordFailure
    <2>2. guesses'[n] + after <= Threshold + slots - 1
      <3>1. CASE failures[n].lock = "none"
        BY <1>1, <1>2, <1>3, <3>1 DEF GuessOK
      <3>2. CASE failures[n].lock # "none"
        <4>1. guesses[n] + before <= Threshold + slots - 1
          BY <3>2 DEF GuessOK, before, slots
        <4> QED
          BY <1>1, <1>2, <4>1
      <3> QED
        BY <3>1, <3>2
    <2> QED
      BY <2>1, <2>2 DEF GuessOK, after, slots
  <1>5. CASE ~(Counted(failures[n]) >= Threshold)
    <2>1. /\ failures'[n].count = Counted(failures[n])
          /\ failures'[n].lock = failures[n].lock
      BY <1>2, <1>5 DEF RecordFailure
    <2>2. failures'[n].count < Threshold
      BY <1>2, <1>3, <1>5, <2>1 DEF Counted
    <2>3. failures[n].lock = "none" => guesses'[n] <= failures'[n].count
      BY <1>2, <1>3, <2>1 DEF Counted, GuessOK
    <2>4. failures[n].lock # "none" => guesses'[n] + after <= Threshold + slots - 1
      <3> SUFFICES ASSUME failures[n].lock # "none"
                   PROVE  guesses'[n] + after <= Threshold + slots - 1
        OBVIOUS
      <3>1. guesses[n] + before <= Threshold + slots - 1
        BY DEF GuessOK, before, slots
      <3> QED
        BY <1>1, <1>2, <3>1
    <2> QED
      BY <2>1, <2>2, <2>3, <2>4 DEF GuessOK, after, slots
  <1> QED
    BY <1>4, <1>5

(* Requests that do not begin to try a name, and that end their attempt. *)
LEMMA TrySteps ==
  ASSUME ReqOK, scenario' = scenario, NEW r \in Requests
  PROVE  /\ UNCHANGED req => \A n : NoNewTry(n)
         /\ Finish(r) => \A n : NoNewTry(n) /\ Trying(n)' \subseteq Trying(n) \ {r}
         /\ LookupFails(r) => \A n : NoNewTry(n)
         /\ \A pc : pc \notin TryPcs \/ req[r].pc \in TryPcs
              => (Goto(r, pc) => \A n : NoNewTry(n))
         /\ \A pc, u : pc \notin TryPcs \/ req[r].pc \in TryPcs
              => (GotoWith(r, pc, u) => \A n : NoNewTry(n))
         /\ GiveUp(r) => \A n : NoNewTry(n)
         /\ \A op, q : q.pc \notin TryPcs /\ Start(r, op, q) => \A n : NoNewTry(n)
  <1>0. req \in [Requests -> Request]
    BY DEF ReqOK
  <1>1. ASSUME NEW q, req' = [req EXCEPT ![r] = q],
               q.pc \in TryPcs => req[r].pc \in TryPcs /\ q.name = req[r].name
        PROVE  \A n : NoNewTry(n)
    BY <1>0, <1>1 DEF NoNewTry, Trying
  <1>2. Idle.pc = "idle" /\ "idle" \notin TryPcs /\ "reg_release" \notin TryPcs
    BY DEF Idle, TryPcs
  <1>3. Finish(r) => \A n : NoNewTry(n) /\ Trying(n)' \subseteq Trying(n) \ {r}
    <2>1. Finish(r) => \A n : NoNewTry(n)
      BY <1>1, <1>2 DEF Finish
    <2>2. Finish(r) => req'[r].pc \notin TryPcs
      BY <1>0, <1>2 DEF Finish
    <2> QED
      BY <2>1, <2>2 DEF NoNewTry, Trying
  <1>4. ASSUME NEW pc, pc \notin TryPcs \/ req[r].pc \in TryPcs, Goto(r, pc)
        PROVE  \A n : NoNewTry(n)
    <2>1. /\ [req[r] EXCEPT !.pc = pc].pc = pc
          /\ [req[r] EXCEPT !.pc = pc].name = req[r].name
      BY <1>0 DEF Request
    <2>2. req' = [req EXCEPT ![r] = [req[r] EXCEPT !.pc = pc]]
      BY <1>4 DEF Goto
    <2> QED
      BY <1>1, <1>4, <2>1, <2>2
  <1>5. ASSUME NEW pc, NEW u, pc \notin TryPcs \/ req[r].pc \in TryPcs,
               GotoWith(r, pc, u)
        PROVE  \A n : NoNewTry(n)
    <2>1. /\ [req[r] EXCEPT !.pc = pc, !.user = u].pc = pc
          /\ [req[r] EXCEPT !.pc = pc, !.user = u].name = req[r].name
      BY <1>0 DEF Request
    <2>2. req' = [req EXCEPT ![r] = [req[r] EXCEPT !.pc = pc, !.user = u]]
      BY <1>5 DEF GotoWith
    <2> QED
      BY <1>1, <1>5, <2>1, <2>2
  <1>6. ASSUME NEW op, NEW q, q.pc \notin TryPcs, Start(r, op, q)
        PROVE  \A n : NoNewTry(n)
    BY <1>1, <1>6 DEF Start
  <1>7. UNCHANGED req => \A n : NoNewTry(n)
    BY DEF NoNewTry, Trying
  <1> QED
    BY <1>2, <1>3, <1>4, <1>5, <1>6, <1>7 DEF GiveUp, LookupFails

(* A step that counts nothing, for any name. *)
LEMMA CalmKeepsGuesses ==
  ASSUME TypeInv, Threshold > 0, GuessInv,
         \A n \in Names : NoNewTry(n), UNCHANGED <<failures, guesses>>
  PROVE  \A n \in Names : GuessOK(n)'
  <1>1. CountsOK /\ ScenarioOK
    BY DEF TypeInv, TypeOK, CountsOK
  <1> QED
    BY <1>1, UncountedKeepsGuesses DEF GuessInv

(* Passwords. *)
LEMMA PasswordKeepsGuesses ==
  ASSUME TypeInv, Threshold > 0, GuessInv, scenario' = scenario,
         NEW r \in scenario.slots, PasswordStep(r)
  PROVE  \A n \in Names : GuessOK(n)'
  <1>0. /\ CountsOK /\ ScenarioOK /\ ReqOK /\ r \in Requests
        /\ \A n \in Names : GuessOK(n)
    BY AccountsAssumption DEF TypeInv, TypeOK, CountsOK, ScenarioOK, GuessInv
  <1>p. {"log_wait", "log_verify"} \subseteq TryPcs /\ "left" \notin TryPcs
    BY DEF TryPcs
  <1>1. ASSUME NEW n \in Names, NEW right \in BOOLEAN, Login(r, n, right)
        PROVE  \A m \in Names : GuessOK(m)'
    <2>1. ASSUME NEW m \in Names, m # n PROVE GuessOK(m)'
      <3>1. failures'[m] = failures[m] /\ guesses'[m] = guesses[m]
        BY <1>0, <1>1, <2>1 DEF Login, CountsOK
      <3>2. NoNewTry(m)
        BY <1>0, <1>1, <2>1 DEF Login, Start, SignIn, Idle, NoNewTry, Trying, ReqOK
      <3> QED
        BY <1>0, <3>1, <3>2, UncountedKeepsGuesses
    <2>2. failures[n] \in Failures /\ failures[n].lock # "on"
      BY <1>0, <1>1 DEF Login, LockedOut, CountsOK
    <2>3. CASE failures[n].lock = "over"
      <3>1. failures'[n] = NoFailures /\ guesses'[n] = 0
        BY <1>0, <1>1, <2>3 DEF Login, ClearEnded, CountsOK
      <3> QED
        BY <2>1, <3>1, ClearedKeepsGuesses
    <2>4. CASE failures[n].lock = "none"
      <3>1. failures'[n] = failures[n] /\ guesses'[n] = guesses[n]
        BY <1>0, <1>1, <2>4 DEF Login, ClearEnded, CountsOK
      <3> QED
        BY <1>0, <2>1, <2>4, <3>1, OpenLockKeepsGuesses
    <2> QED
      BY <2>2, <2>3, <2>4 DEF Failures
  <1>2. ASSUME NEW n \in Names, Doing(r, "log_load") \/ Doing(r, "log_verify"),
               req[r].name = n, Fail(n), Finish(r)
        PROVE  \A m \in Names : GuessOK(m)'
    <2>1. r \in Trying(n)
      BY <1>2, <1>p DEF Trying, Doing, TryPcs
    <2>2. \A m : NoNewTry(m) /\ Trying(m)' \subseteq Trying(m) \ {r}
      BY <1>0, <1>2, TrySteps
    <2>3. GuessOK(n)'
      BY <1>0, <1>2, <2>1, <2>2, FailKeepsGuesses
    <2>4. ASSUME NEW m \in Names, m # n PROVE GuessOK(m)'
      <3>1. failures'[m] = failures[m] /\ guesses'[m] = guesses[m]
        BY <1>0, <1>2, <2>4 DEF Fail, CountsOK
      <3> QED
        BY <1>0, <2>2, <3>1, UncountedKeepsGuesses
    <2> QED
      BY <2>3, <2>4
  <1>3. CASE LoginLoad(r)
    <2>0. req[r].name \in Names
      BY <1>0, <1>3 DEF LoginLoad, Doing, Known, ReqOK
    <2>1. CASE NotCounted /\ \A n \in Names : NoNewTry(n)
      BY <2>1, CalmKeepsGuesses DEF NotCounted
    <2>2. CASE Fail(req[r].name) /\ Finish(r)
      BY <1>2, <1>3, <2>0, <2>2 DEF LoginLoad
    <2>3. /\ Doing(r, "log_load") => req[r].pc \in TryPcs
          /\ LookupFails(r) \/ Finish(r) => \A n \in Names : NoNewTry(n)
          /\ \A u : Doing(r, "log_load") /\ GotoWith(r, "log_wait", u)
                      => \A n \in Names : NoNewTry(n)
      <3>1. Doing(r, "log_load") => req[r].pc \in TryPcs
        BY DEF Doing, TryPcs
      <3> QED
        BY <1>0, <3>1, TrySteps
    <2> QED
      BY <1>3, <2>1, <2>2, <2>3 DEF LoginLoad
  <1>4. CASE TakePermit(r)
    <2>1. req[r].pc \in TryPcs /\ (Finish(r) \/ Goto(r, "log_verify"))
      BY <1>4 DEF TakePermit, Doing, TryPcs
    <2> QED
      BY <1>0, <1>4, <2>1, TrySteps, CalmKeepsGuesses DEF TakePermit, memory, ghosts
  <1>5. CASE LoginJudged(r)
    <2>0. req[r].name \in Names
      BY <1>0, <1>5 DEF LoginJudged, Doing, Known, ReqOK
    <2>1. CASE ~req[r].right
      BY <1>2, <1>5, <2>0, <2>1 DEF LoginJudged
    <2>2. CASE req[r].right
      <3>1. failures'[req[r].name] = NoFailures /\ guesses'[req[r].name] = 0
        BY <1>0, <1>5, <2>0, <2>2 DEF LoginJudged, RecordSuccess, CountsOK
      <3>2. ASSUME NEW m \in Names, m # req[r].name PROVE GuessOK(m)'
        <4>1. failures'[m] = failures[m] /\ guesses'[m] = guesses[m]
          BY <1>0, <1>5, <2>2, <3>2 DEF LoginJudged, CountsOK
        <4>2. NoNewTry(m)
          BY <1>0, <1>5, TrySteps DEF LoginJudged
        <4> QED
          BY <1>0, <4>1, <4>2, UncountedKeepsGuesses
      <3> QED
        BY <2>0, <3>1, <3>2, ClearedKeepsGuesses
    <2> QED
      BY <2>1, <2>2
  <1>6. CASE LeftEnds(r)
    BY <1>0, <1>6, TrySteps, CalmKeepsGuesses DEF LeftEnds, memory, ghosts
  <1> QED
    BY <1>1, <1>3, <1>4, <1>5, <1>6 DEF PasswordStep

(* No other request counts, or tries a name. *)
LEMMA OtherRequestsKeepGuesses ==
  ASSUME TypeInv, Threshold > 0, GuessInv, scenario' = scenario,
         NEW r \in Requests, SignUpStep(r) \/ FederatedStep(r) \/ Cancel(r)
  PROVE  \A n \in Names : GuessOK(n)'
  <1>0. ReqOK
    BY DEF TypeInv
  <1>1. {"reg_create", "reg_release", "cb_create", "cb_link", "left"} \cap TryPcs = {}
    BY DEF TryPcs
  <1>2. /\ Idle.pc \notin TryPcs
        /\ \A n, k, i : SignUp(n, k, i).pc \notin TryPcs
        /\ \A s : Return(s).pc \notin TryPcs
        /\ \A u, n, k : Enrolment(u, n, k).pc \notin TryPcs
    BY DEF Idle, SignUp, Return, Enrolment, TryPcs
  <1>3. CASE SignUpStep(r)
    <2>1. \A n : NoNewTry(n)
      BY <1>0, <1>1, <1>2, <1>3, TrySteps
      DEF SignUpStep, Register, RegisterInvited, RegisterLookup, RegisterCreate,
          ReleaseInvite
    <2>2. UNCHANGED <<failures, guesses>>
      BY <1>3 DEF SignUpStep, Register, RegisterInvited, RegisterLookup,
         RegisterCreate, ReleaseInvite, memory, ghosts
    <2> QED
      BY <2>1, <2>2, CalmKeepsGuesses
  <1>4. CASE FederatedStep(r)
    <2>1. \A n : NoNewTry(n)
      BY <1>0, <1>1, <1>2, <1>4, TrySteps
      DEF FederatedStep, Callback, CallbackLookup, CallbackCreate, CallbackLink,
          Enrol, EnrolWrite
    <2>2. UNCHANGED <<failures, guesses>>
      BY <1>4 DEF FederatedStep, Callback, CallbackLookup, CallbackCreate,
         CallbackLink, Enrol, EnrolWrite, memory, ghosts
    <2> QED
      BY <2>1, <2>2, CalmKeepsGuesses
  <1>5. CASE Cancel(r)
    BY <1>0, <1>1, <1>5, TrySteps, CalmKeepsGuesses DEF Cancel, memory, ghosts
  <1> QED
    BY <1>3, <1>4, <1>5

(* Time goes by, a lock ends, records are pruned; the console has no part. *)
LEMMA OthersKeepGuesses ==
  ASSUME TypeInv, Threshold > 0, GuessInv, scenario' = scenario,
         \/ \E f \in Flows : OidcStart(f)
         \/ Console \/ Clock \/ UNCHANGED vars
  PROVE  \A n \in Names : GuessOK(n)'
  <1>0. /\ CountsOK /\ ScenarioOK /\ ReqOK
        /\ \A n \in Names : GuessOK(n)
    BY DEF TypeInv, TypeOK, CountsOK, GuessInv
  <1>1. CASE UNCHANGED <<failures, guesses, req>>
    <2>1. \A n : NoNewTry(n)
      BY <1>1 DEF NoNewTry, Trying
    <2> QED
      BY <1>1, <2>1, CalmKeepsGuesses
  <1>2. ASSUME NEW n \in Names, TimePasses(n) PROVE \A m \in Names : GuessOK(m)'
    <2>1. ASSUME NEW m \in Names
          PROVE  /\ failures'[m].count = failures[m].count
                 /\ failures'[m].lock = "none" <=> failures[m].lock = "none"
                 /\ guesses'[m] = guesses[m] /\ NoNewTry(m)
      <3>1. failures[n] \in Failures
        BY <1>0 DEF CountsOK
      <3>2. /\ Stale(failures[n]).count = failures[n].count
            /\ Stale(failures[n]).lock = failures[n].lock
            /\ LockEnded(failures[n]).count = failures[n].count
            /\ LockEnded(failures[n]).lock = "over"
        BY <3>1 DEF Stale, LockEnded, Failures
      <3>3. \/ failures'[m] = failures[m]
            \/ m = n /\ LockedOut(failures[n]) /\ failures'[m] = LockEnded(failures[n])
            \/ m = n /\ failures'[m] = Stale(failures[n])
        BY <1>0, <1>2 DEF TimePasses, CountsOK
      <3>4. guesses' = guesses /\ NoNewTry(m)
        BY <1>2 DEF TimePasses, ghosts, NoNewTry, Trying
      <3> QED
        BY <3>2, <3>3, <3>4 DEF LockedOut
    <2> QED
      BY <1>0, <2>1, UncountedKeepsGuesses
  <1>3. CASE Sweep
    <2>1. PICK P \in SUBSET Names :
            /\ failures' = [n \in Names |-> IF n \in P THEN NoFailures ELSE failures[n]]
            /\ guesses' = [n \in Names |-> IF n \in P THEN 0 ELSE guesses[n]]
      BY <1>3 DEF Sweep
    <2>2. \A n : NoNewTry(n)
      BY <1>3 DEF Sweep, NoNewTry, Trying
    <2>3. ASSUME NEW n \in Names PROVE GuessOK(n)'
      <3>1. CASE n \in P
        BY <2>1, <3>1, ClearedKeepsGuesses
      <3>2. CASE n \notin P
        BY <1>0, <2>1, <2>2, <3>2, UncountedKeepsGuesses
      <3> QED
        BY <3>1, <3>2
    <2> QED
      BY <2>3
  <1>4. ASSUME NEW f \in Flows, OidcStart(f) PROVE UNCHANGED <<failures, guesses, req>>
    BY <1>4 DEF OidcStart, ghosts
  <1>5. ASSUME Console PROVE UNCHANGED <<failures, guesses, req>>
    BY <1>5 DEF Console, CreateInvite, RevokeInvite, SetRegistration, SetUserLock,
       DeleteAccount, SaveProvider, RemoveProvider, memory, ghosts
  <1>6. CASE Clock
    BY <1>1, <1>2, <1>3, <1>6 DEF Clock, ExpireInvite, Grow, FlowIsLate, memory, ghosts
  <1> QED
    BY <1>1, <1>4, <1>5, <1>6 DEF vars, memory, ghosts

LEMMA GuessStep ==
  ASSUME TypeInv, GuessInv, [Next]_vars
  PROVE  GuessInv'
  <1> SUFFICES ASSUME Threshold > 0 PROVE \A n \in Names : GuessOK(n)'
    BY DEF GuessInv
  <1>1. scenario' = scenario /\ scenario.slots \subseteq Requests
    BY AccountsAssumption DEF Next, vars, TypeInv, ScenarioOK
  <1>2. ASSUME NEW r \in scenario.slots, Begin(r) \/ Continue(r) \/ Cancel(r)
        PROVE  SignUpStep(r) \/ PasswordStep(r) \/ FederatedStep(r) \/ Cancel(r)
    BY <1>2, Zenon DEF Begin, Continue, SignUpStep, PasswordStep, FederatedStep
  <1>3. \/ \E r \in scenario.slots : \/ SignUpStep(r) \/ PasswordStep(r)
                                     \/ FederatedStep(r) \/ Cancel(r)
        \/ \E f \in Flows : OidcStart(f)
        \/ Console \/ Clock \/ UNCHANGED vars
    BY <1>2, Zenon DEF Next
  <1> QED
    BY <1>1, <1>3, PasswordKeepsGuesses, OtherRequestsKeepGuesses, OthersKeepGuesses

(* However attempts on a name interleave with each other, with the end of  *)
(* its lock-out and with the pruning of its record, the wrong passwords    *)
(* judged before the record is begun anew are at most the threshold and    *)
(* the attempts that were past the check when the lock fell.               *)
THEOREM GuessesStayBounded == Spec => []GuessesAreBounded
  <1>1. Init => GuessInv
    BY DEF Init, GuessInv, GuessOK, NoFailures
  <1>2. TypeInv /\ GuessInv => GuessesAreBounded
    <2> SUFFICES ASSUME TypeInv, GuessInv, Threshold > 0, NEW n \in Names
                 PROVE  guesses[n] <= Threshold + Cardinality(scenario.slots) - 1
      BY DEF GuessesAreBounded
    <2>1. /\ GuessOK(n) /\ failures[n] \in Failures /\ guesses[n] \in Nat
          /\ Cardinality(scenario.slots) \in Nat /\ Cardinality(Trying(n)) \in Nat
      BY TryingIsFinite DEF TypeInv, TypeOK, GuessInv
    <2>2. failures[n].count \in Nat
      BY <2>1 DEF Failures
    <2> QED
      BY <2>1, <2>2, ThrottleAssumption DEF GuessOK
  <1> QED
    BY <1>1, <1>2, GuessStep, TypesHold, PTL DEF Spec
=============================================================================
