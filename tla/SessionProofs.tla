---------------------------- MODULE SessionProofs ----------------------------
(***************************************************************************)
(* Theorems about Session, for any number of accounts, devices and calls.  *)
(*                                                                         *)
(* A device's record names a method, and what the server keeps for that    *)
(* method was wrapped by the callback that made it.  Between the two the   *)
(* method is known to that callback alone, so the invariant says of a      *)
(* callback that is about to register that its key is of the account its   *)
(* record was written for, and that no other account's record names its    *)
(* method.                                                                 *)
(*                                                                         *)
(* That a session is one account's is not seen from the store alone: a     *)
(* callback brings back the tokens it took along, the key it is about to   *)
(* register, what the server answered it, however long ago, and the name   *)
(* its form was made for.  The second invariant, PatientInv, is about all  *)
(* that the tab holds, in the store or under way.                          *)
(***************************************************************************)
EXTENDS Session, TLAPS

Pages == {"door", "callback", "finish", "vaults"}

Modals == [open : BOOLEAN, user : Accounts \cup {None},
           checking : BOOLEAN, start : BOOLEAN]

Servers == [ver : [Accounts -> 1 .. MaxVersion], methods : Registry,
            known : SUBSET Accounts, ready : SUBSET Accounts]

Devices == [Accounts -> Methods \cup {None}]

(* What a call is about to need.                                           *)
Fits(r) ==
    /\ r.refreshing => r.refresh # None
    /\ r.call \in {"login", "create"} => r.user \in Accounts
    /\ r.kind = "unlock" /\ r.remember => r.user \in Accounts
    /\ r.call = "register" =>
          /\ r.kind = "unlock" /\ r.user \in Accounts /\ r.method \in Methods
          /\ r.key \in Secret /\ r.key.acct = r.user

FittingCalls == {r \in Call : Fits(r)}

Callbacks == [Tasks -> FittingCalls \cup {Idle}]

Rendered(s, p, mo) ==
    /\ mo.open => p = "vaults" /\ s.keys = None /\ IsAuthenticated(s)
    /\ ~mo.open => mo = Closed

(* A method that is being registered is in no other account's record.      *)
OwnMethod(ts, d) ==
    \A t \in Tasks : ts[t] \in FittingCalls /\ ts[t].call = "register" =>
        \A a \in Accounts : d[a] = ts[t].method => a = ts[t].user

OpensOwn(d, sv) ==
    \A a \in Accounts : d[a] \in DOMAIN sv.methods
        => sv.methods[d[a]].key.acct = a

ScreenOK ==
    store \in Session /\ page \in Pages /\ modal \in Modals
      /\ Rendered(store, page, modal)

DevicesOK ==
    /\ task \in Callbacks /\ device \in Devices
    /\ OwnMethod(task, device) /\ OpensOwn(device, server)

ServerOK == server \in Servers

SessionInv ==
    /\ scenario \in Scenarios /\ left \in Nat
    /\ ScreenOK /\ DevicesOK /\ ServerOK

LEMMA InvariantGivesProperties == SessionInv => TypeOK /\ DeviceOpensOwn
<1>1. Callbacks \subseteq [Tasks -> Call \cup {Idle}]
  BY DEF Callbacks, FittingCalls
<1> QED  BY <1>1 DEF SessionInv, ScreenOK, DevicesOK, ServerOK, Rendered, TypeOK,
                     DeviceOpensOwn, OpensOwn, Pages, Modals, Devices, Servers
-----------------------------------------------------------------------------
(* Helpers *)

LEMMA IdleIsNoCall == Idle \notin Call
  BY DEF Idle, Call

LEMMA NotIdle ==
  ASSUME task \in Callbacks, NEW t \in Tasks, task[t].kind # "idle"
  PROVE  task[t] \in FittingCalls /\ task[t] \in Call
  BY DEF Callbacks, FittingCalls, Idle

(* An effect's clean-up changes two flags of a call and nothing else.      *)
LEMMA CancelKeeps ==
  ASSUME NEW ts \in Callbacks, NEW own \in BOOLEAN
  PROVE  /\ Cancel(ts, own) \in Callbacks
         /\ \A d : OwnMethod(ts, d) => OwnMethod(Cancel(ts, own), d)
<1> DEFINE c == Cancel(ts, own)
<1>1. ASSUME NEW t \in Tasks
      PROVE  \/ c[t] = ts[t]
             \/ /\ ts[t] \in FittingCalls /\ c[t] \in FittingCalls
                /\ c[t].call = ts[t].call /\ c[t].method = ts[t].method
                /\ c[t].user = ts[t].user
  <2>1. CASE ts[t].kind # "silent"
    BY <2>1 DEF Cancel
  <2>2. CASE ts[t].kind = "silent"
    <3>1. ts[t] \in Call /\ Fits(ts[t])
      BY <2>2 DEF Callbacks, FittingCalls, Idle
    <3>2. c[t] = [ts[t] EXCEPT !.cancelled = TRUE, !.own = ts[t].own /\ own]
      BY <2>2 DEF Cancel
    <3>3. (ts[t].own /\ own) \in BOOLEAN
      OBVIOUS
    <3>4. c[t] \in Call
      BY <3>1, <3>2, <3>3 DEF Call
    <3>5. /\ c[t].call = ts[t].call /\ c[t].method = ts[t].method
          /\ c[t].user = ts[t].user /\ c[t].kind = ts[t].kind
          /\ c[t].refreshing = ts[t].refreshing /\ c[t].refresh = ts[t].refresh
          /\ c[t].key = ts[t].key /\ c[t].remember = ts[t].remember
      BY <3>1, <3>2 DEF Call
    <3> QED  BY <3>1, <3>4, <3>5 DEF Fits, FittingCalls
  <2> QED  BY <2>1, <2>2
<1>2. c \in Callbacks
  BY <1>1 DEF Cancel, Callbacks
<1>3. ASSUME NEW d, OwnMethod(ts, d)  PROVE OwnMethod(c, d)
  BY <1>1, <1>3 DEF OwnMethod
<1> QED  BY <1>2, <1>3

(* A page that is rendered shows the unlock screen where it belongs.       *)
LEMMA BecomeKeeps ==
  ASSUME ScreenOK, NEW s \in Session, NEW p \in Pages, NEW ts \in Callbacks,
         Become(s, p, ts)
  PROVE  /\ ScreenOK' /\ task' \in Callbacks
         /\ \A d : OwnMethod(ts, d) => OwnMethod(task', d)
<1> DEFINE at == IF p = "vaults" /\ ~IsAuthenticated(s) THEN "door" ELSE p
           user == AccountId(s.access)
           shown == at = "vaults" /\ s.keys = None
<1>1. user \in Accounts \cup {None}
  BY DEF AccountId, Session, Token, Secret
<1>2. store' = s /\ page' = at /\ at \in Pages
       /\ (shown => IsAuthenticated(s))
  BY DEF Become, Pages
<1>3. modal' \in Modals /\ (modal'.open = TRUE => shown)
        /\ (modal'.open = TRUE \/ modal' = Closed)
  <2>1. CASE ~shown
    <3>1. modal' = Closed
      BY <2>1 DEF Become
    <3> QED  BY <3>1 DEF Modals, Closed
  <2>2. CASE shown /\ ~modal.open
    <3>1. modal' = [open |-> TRUE, user |-> user, checking |-> TRUE, start |-> TRUE]
      BY <2>2 DEF Become
    <3> QED  BY <1>1, <2>2, <3>1 DEF Modals
  <2>3. CASE shown /\ modal.open
    <3>1. modal' = [modal EXCEPT !.user = user, !.start = TRUE] \/ modal' = modal
      BY <2>3 DEF Become
    <3>2. modal \in Modals /\ modal.open = TRUE
      BY <2>3 DEF ScreenOK, Modals
    <3> QED  BY <1>1, <2>3, <3>1, <3>2 DEF Modals
  <2> QED  BY <2>1, <2>2, <2>3
<1>4. modal'.open \in BOOLEAN
  BY <1>3 DEF Modals
<1>5. Rendered(s, at, modal')
  BY <1>2, <1>3, <1>4 DEF Rendered
<1>6. ScreenOK'
  BY <1>2, <1>3, <1>5 DEF ScreenOK, Rendered, IsAuthenticated, Closed
<1>7. task' \in {ts, Cancel(ts, FALSE), Cancel(ts, TRUE)}
  BY DEF Become
<1> QED  BY <1>6, <1>7, CancelKeeps

(* A callback that ends.                                                   *)
LEMMA EndsKeeps ==
  ASSUME task \in Callbacks, NEW t \in Tasks
  PROVE  /\ Ends(t) \in Callbacks
         /\ \A d : OwnMethod(task, d) => OwnMethod(Ends(t), d)
  BY IdleIsNoCall DEF Ends, Callbacks, OwnMethod, FittingCalls

(* A callback that waits for another call, which registers nothing.        *)
LEMMA AsksKeeps ==
  ASSUME task \in Callbacks, NEW t \in Tasks, NEW r \in FittingCalls,
         \/ r.call # "register"
         \/ /\ task[t] \in FittingCalls /\ task[t].call = "register"
            /\ r.method = task[t].method /\ r.user = task[t].user
  PROVE  /\ [task EXCEPT ![t] = r] \in Callbacks
         /\ \A d : OwnMethod(task, d) => OwnMethod([task EXCEPT ![t] = r], d)
  BY DEF Callbacks, OwnMethod
-----------------------------------------------------------------------------
(* What a step leaves to be shown, by what it changes. *)

LEMMA InitEstablishes == Init => SessionInv
<1> SUFFICES ASSUME Init PROVE SessionInv
  OBVIOUS
<1>1. /\ scenario \in Scenarios /\ left \in Nat
      /\ scenario.ready \subseteq scenario.known /\ scenario.known \subseteq Accounts
      /\ scenario.start \in Accounts \cup {None}
  BY SessionAssumption DEF Init
<1>2. 1 \in 1 .. MaxVersion
  BY SessionAssumption
<1>3. <<>> \in [{} -> Wrapped] /\ DOMAIN <<>> = {}
  OBVIOUS
<1>4. <<>> \in Registry
  BY <1>3 DEF Registry
<1>5. ServerOK
  BY <1>1, <1>2, <1>4 DEF Init, ServerOK, Servers
<1>6. \A a \in Accounts : Of(a) \in Secret
  BY <1>2 DEF Init, Of, Secret
<1>7. ScreenOK
  <2>1. CASE scenario.start = None
    BY <1>1, <2>1 DEF Init, ScreenOK, Rendered, Session, Token, Pages, Modals,
                      SignedOut, Closed
  <2>2. CASE scenario.start # None
    <3>1. Of(scenario.start) \in Secret /\ Of(scenario.start) # None
      BY <1>1, <1>6, <2>2, SessionAssumption DEF Secret
    <3>2. store \in Session /\ page \in Pages /\ modal \in Modals
      BY <1>1, <2>2, <3>1 DEF Init, Session, Token, Pages, Modals
    <3>3. store.keys = None /\ store.access # None /\ page = "vaults"
      BY <2>2, <3>1 DEF Init
    <3>4. modal.open = TRUE
      BY <2>2 DEF Init
    <3> QED  BY <3>2, <3>3, <3>4 DEF ScreenOK, Rendered, IsAuthenticated
  <2> QED  BY <2>1, <2>2
<1>8. DevicesOK
  BY <1>3, SessionAssumption, IdleIsNoCall
  DEF Init, DevicesOK, Callbacks, FittingCalls, Devices, OwnMethod, OpensOwn
<1> QED  BY <1>1, <1>5, <1>7, <1>8 DEF SessionInv

(* A registration on the server. *)
LEMMA RegistryIs ==
  ASSUME NEW f
  PROVE  f \in Registry <=>
            /\ DOMAIN f \subseteq Methods
            /\ f \in [DOMAIN f -> Wrapped]
  BY DEF Registry

LEMMA OfIsASecret ==
  ASSUME ServerOK, NEW a \in Accounts
  PROVE  Of(a) \in Secret /\ Of(a).acct = a
  BY DEF ServerOK, Servers, Of, Secret

(* Calls that the user makes. *)
LEMMA RequestIsACall ==
  ASSUME ScreenOK,
         NEW k \in {"sign_in", "oidc", "enrol", "silent", "unlock", "save", "rotate"},
         NEW c \in {"login", "create", "profile", "enrol", "wrapped", "bundle",
                    "save", "manifest"},
         NEW u \in Accounts \cup {None}
  PROVE  /\ Request(k, c, u) \in Call
         /\ Request(k, c, u).call = c /\ Request(k, c, u).user = u
         /\ Request(k, c, u).kind = k
         /\ ~Request(k, c, u).refreshing
         /\ ~Request(k, c, u).remember
  BY DEF ScreenOK, Session, Request, Call, Token

LEMMA NextCallIsACall ==
  ASSUME ScreenOK, NEW r \in Call,
         NEW c \in {"login", "bundle", "register", "rotate"}
  PROVE  /\ NextCall(r, c) \in Call
         /\ NextCall(r, c).call = c /\ NextCall(r, c).user = r.user
         /\ NextCall(r, c).kind = r.kind /\ NextCall(r, c).key = r.key
         /\ NextCall(r, c).method = r.method
         /\ NextCall(r, c).refreshing = r.refreshing
         /\ NextCall(r, c).remember = r.remember
<1>1. store.access \in Token /\ store.refresh \in Token
  BY DEF ScreenOK, Session
<1>2. None \in Token /\ FALSE \in BOOLEAN /\ TRUE \in BOOLEAN
  BY DEF Token
<1>3. NextCall(r, c) \in Call
  BY <1>1, <1>2 DEF NextCall, Call
<1> QED  BY <1>1, <1>2, <1>3 DEF NextCall, Call

LEMMA NextCallAsks ==
  ASSUME NEW r \in Call, NEW c
  PROVE  /\ NextCall(r, c).access = store.access /\ NextCall(r, c).had = r.had
         /\ NextCall(r, c).refresh = store.refresh
         /\ NextCall(r, c).reply = None /\ ~NextCall(r, c).answered
  BY DEF NextCall, Call

LEMMA SendsKeeps ==
  ASSUME SessionInv, NEW t \in Tasks, NEW r \in FittingCalls,
         r.call # "register", Sends(t, r),
         UNCHANGED <<scenario, device, server>>, left' \in Nat
  PROVE  SessionInv'
<1>1. task' \in Callbacks /\ OwnMethod(task', device)
  BY AsksKeeps DEF SessionInv, DevicesOK, Sends
<1> QED
  BY <1>1 DEF SessionInv, DevicesOK, ScreenOK, ServerOK, Sends, Rendered,
              IsAuthenticated, Closed, OwnMethod, OpensOwn

(* A step that renders the page anew and leaves the devices alone.         *)
LEMMA BecomeIsSafe ==
  ASSUME SessionInv, NEW s \in Session, NEW p \in Pages, NEW ts \in Callbacks,
         OwnMethod(ts, device), Become(s, p, ts), UNCHANGED device
  PROVE  ScreenOK' /\ task' \in Callbacks /\ OwnMethod(task, device)'
<1>1. ScreenOK' /\ task' \in Callbacks /\ OwnMethod(task', device)
  BY BecomeKeeps DEF SessionInv
<1> QED  BY <1>1 DEF OwnMethod

(* The records still open their own where the server forgets methods.      *)
LEMMA FewerMethods ==
  ASSUME SessionInv, ServerOK',
         DOMAIN server'.methods \subseteq DOMAIN server.methods,
         \A m \in DOMAIN server'.methods : server'.methods[m] = server.methods[m],
         \A a \in Accounts : device'[a] \in {device[a], None}
  PROVE  OpensOwn(device, server)'
<1>1. None \notin DOMAIN server'.methods
  BY RegistryIs, SessionAssumption DEF ServerOK, Servers
<1> QED  BY <1>1 DEF SessionInv, DevicesOK, OpensOwn

LEMMA ForgetKeeps ==
  ASSUME device \in Devices, NEW u \in Accounts
  PROVE  /\ ForgetDevice(u) \in Devices
         /\ ForgetDevice(u)[u] = None
         /\ \A a \in Accounts : a # u => ForgetDevice(u)[a] = device[a]
  BY DEF ForgetDevice, Devices

(* Nothing more comes of a call. *)
LEMMA StopWaitingKeeps ==
  ASSUME SessionInv, NEW t \in Tasks, task[t] \in FittingCalls,
         NEW s \in Session, StopWaiting(t, s)
  PROVE  /\ ScreenOK' /\ task' \in Callbacks /\ OwnMethod(task, device)'
         /\ device' \in Devices
         /\ \A a \in Accounts : device'[a] \in {device[a], None}
         /\ task[t].call = "register" => device'[task[t].user] = None
<1> DEFINE r == task[t]
<1>1. /\ Ends(t) \in Callbacks /\ OwnMethod(Ends(t), device)
      /\ page \in Pages /\ store \in Session /\ device \in Devices
  BY EndsKeeps DEF SessionInv, DevicesOK, ScreenOK
<1>2. CASE r.kind = "unlock" /\ r.call = "register"
  <2>1. r.user \in Accounts /\ r.key \in Token
    BY <1>2 DEF FittingCalls, Fits, Token
  <2>2. device' = ForgetDevice(r.user) /\ Become([s EXCEPT !.keys = r.key], page, Ends(t))
    BY <1>2 DEF StopWaiting
  <2>3. [s EXCEPT !.keys = r.key] \in Session
    BY <2>1 DEF Session
  <2>4. ScreenOK' /\ task' \in Callbacks /\ OwnMethod(task', device)
    BY <1>1, <2>2, <2>3, BecomeKeeps DEF SessionInv
  <2>5. /\ device' \in Devices /\ device'[r.user] = None
        /\ \A a \in Accounts : device'[a] \in {device[a], None}
    BY <1>1, <2>1, <2>2, ForgetKeeps
  <2>6. OwnMethod(task', device')
    <3>1. ASSUME NEW k \in Tasks, task'[k] \in FittingCalls, task'[k].call = "register"
          PROVE  task'[k].method # None
      BY <3>1, SessionAssumption DEF FittingCalls, Fits
    <3> QED  BY <2>4, <2>5, <3>1 DEF OwnMethod
  <2> QED  BY <2>4, <2>5, <2>6 DEF OwnMethod
<1>3. CASE ~(r.kind = "unlock" /\ r.call = "register")
  <2>1. r.call # "register"
    BY <1>3 DEF FittingCalls, Fits
  <2>2. UNCHANGED device
    BY <1>3 DEF StopWaiting
  <2>3. CASE s = store
    <3>1. task' = Ends(t) /\ UNCHANGED <<store, page>>
      BY <1>3, <2>3 DEF StopWaiting
    <3>2. modal' = modal \/ modal' = [modal EXCEPT !.checking = FALSE]
      BY <1>3, <2>3 DEF StopWaiting
    <3>3. /\ modal' \in Modals /\ modal'.open = modal.open
          /\ (modal = Closed => modal' = Closed)
      <4>1. modal \in Modals
        BY DEF SessionInv, ScreenOK
      <4>2. CASE modal' = [modal EXCEPT !.checking = FALSE]
        <5>1. modal' \in Modals /\ modal'.open = modal.open
          BY <4>1, <4>2 DEF Modals
        <5>2. ASSUME modal = Closed PROVE modal' = Closed
          BY <4>2, <5>2 DEF Closed
        <5> QED  BY <5>1, <5>2
      <4> QED  BY <3>2, <4>1, <4>2
    <3>4. ScreenOK'
      BY <3>1, <3>3 DEF SessionInv, ScreenOK, Rendered, IsAuthenticated, Closed
    <3>5. task' \in Callbacks /\ OwnMethod(task, device)'
      BY <1>1, <2>2, <3>1 DEF OwnMethod
    <3> QED  BY <1>1, <2>1, <2>2, <3>4, <3>5
  <2>4. CASE s # store
    <3>1. Become(s, page, Ends(t))
      BY <1>3, <2>4 DEF StopWaiting
    <3>2. ScreenOK' /\ task' \in Callbacks /\ OwnMethod(task, device)'
      BY <1>1, <2>2, <3>1, BecomeIsSafe
    <3> QED  BY <1>1, <2>1, <2>2, <3>2
  <2> QED  BY <2>3, <2>4
<1> QED  BY <1>2, <1>3

(* The server, and what it has, as it was.                                 *)
LEMMA StopWaitingIsSafe ==
  ASSUME SessionInv, NEW t \in Tasks, task[t] \in FittingCalls,
         NEW s \in {store, SignedOut}, StopWaiting(t, s),
         UNCHANGED <<scenario, left, server>>
  PROVE  SessionInv'
<1>1. s \in Session
  BY DEF SessionInv, ScreenOK, SignedOut, Session, Token
<1>2. /\ ScreenOK' /\ task' \in Callbacks /\ OwnMethod(task, device)'
      /\ device' \in Devices
      /\ \A a \in Accounts : device'[a] \in {device[a], None}
  BY <1>1, StopWaitingKeeps
<1>3. ServerOK'
  BY DEF SessionInv, ServerOK
<1>4. OpensOwn(device, server)'
  BY <1>2, <1>3, FewerMethods
<1> QED  BY <1>2, <1>3, <1>4 DEF SessionInv, DevicesOK

(* A step that renders the page anew and leaves the rest alone.            *)
LEMMA BecomeAloneIsSafe ==
  ASSUME SessionInv, NEW s \in Session, NEW p \in Pages, NEW ts \in Callbacks,
         OwnMethod(ts, device), Become(s, p, ts),
         UNCHANGED <<scenario, device, server>>, left' \in Nat
  PROVE  SessionInv'
<1>1. ScreenOK' /\ task' \in Callbacks /\ OwnMethod(task, device)'
  BY BecomeIsSafe
<1> QED  BY <1>1 DEF SessionInv, DevicesOK, ServerOK, OpensOwn

(* A call is taken up again, or another one is made, in the same callback. *)
LEMMA TaskIsSafe ==
  ASSUME SessionInv, task' \in Callbacks, OwnMethod(task', device),
         UNCHANGED <<scenario, left, store, page, modal, device, server>>
  PROVE  SessionInv'
  BY DEF SessionInv, ScreenOK, DevicesOK, ServerOK, OpensOwn, OwnMethod, Rendered,
         IsAuthenticated, Closed
-----------------------------------------------------------------------------
(* The steps of a callback *)

LEMMA AcceptedHasAToken ==
  ASSUME NEW r \in Call, Accepts(r), r.call \notin {"login", "create"}
  PROVE  r.access \in Secret /\ r.access.acct \in Accounts
  BY DEF Accepts, Call, Token, Secret

LEMMA WhatIsHeard ==
  ASSUME SessionInv, NEW t \in Tasks, NEW c, Heard(t, c)
  PROVE  /\ task[t] \in FittingCalls /\ task[t] \in Call /\ task[t].call = c
         /\ ~task[t].refreshing /\ task[t].answered
         /\ task[t].reply \in Secret /\ task[t].reply # None
         /\ task[t] # Idle
<1>1. task[t] \in FittingCalls /\ task[t] \in Call
  BY NotIdle DEF SessionInv, DevicesOK, Heard, Waiting
<1>2. task[t].reply \in Secret
  BY <1>1 DEF Heard, Call, Token
<1> QED  BY <1>1, <1>2 DEF Heard, Waiting, Idle

LEMMA WhatIsAsked ==
  ASSUME SessionInv, NEW t \in Tasks, NEW c, Asked(t, c)
  PROVE  /\ task[t] \in FittingCalls /\ task[t] \in Call /\ task[t].call = c
         /\ ~task[t].refreshing /\ ~task[t].answered /\ task[t] # Idle
<1>1. task[t] \in FittingCalls /\ task[t] \in Call
  BY NotIdle DEF SessionInv, DevicesOK, Asked, Waiting
<1> QED  BY <1>1 DEF Asked, Waiting, Idle

(* The server's answer changes nothing else of a call.                     *)
LEMMA AnswerIsACall ==
  ASSUME NEW q \in FittingCalls, NEW x \in Token
  PROVE  LET r == [q EXCEPT !.answered = TRUE, !.reply = x]
         IN  /\ r \in FittingCalls /\ r \in Call
             /\ r.call = q.call /\ r.method = q.method /\ r.user = q.user
             /\ r.kind = q.kind /\ r.key = q.key /\ r.refreshing = q.refreshing
             /\ r.access = q.access /\ r.refresh = q.refresh /\ r.had = q.had
             /\ r.answered = TRUE /\ r.reply = x
<1> DEFINE r == [q EXCEPT !.answered = TRUE, !.reply = x]
<1>1. q \in Call /\ Fits(q)
  BY DEF FittingCalls
<1>2. /\ r \in Call
      /\ r.call = q.call /\ r.method = q.method /\ r.user = q.user
      /\ r.kind = q.kind /\ r.key = q.key /\ r.refreshing = q.refreshing
      /\ r.access = q.access /\ r.refresh = q.refresh /\ r.had = q.had
      /\ r.remember = q.remember /\ r.answered = TRUE /\ r.reply = x
  BY <1>1 DEF Call
<1>3. r \in FittingCalls
  BY <1>1, <1>2 DEF FittingCalls, Fits
<1> QED  BY <1>2, <1>3

LEMMA SaysKeeps ==
  ASSUME SessionInv, NEW t \in Tasks, task[t] \in FittingCalls, NEW x \in Token,
         Says(t, x)
  PROVE  /\ task' = [task EXCEPT ![t] =
                        [task[t] EXCEPT !.answered = TRUE, !.reply = x]]
         /\ task' \in Callbacks /\ OwnMethod(task', device)
         /\ UNCHANGED <<scenario, left, store, page, modal, device>>
<1> DEFINE r == [task[t] EXCEPT !.answered = TRUE, !.reply = x]
<1>1. /\ task' = [task EXCEPT ![t] = r]
      /\ UNCHANGED <<scenario, left, store, page, modal, device>>
  BY DEF Says, SessionInv, DevicesOK, Callbacks
<1>2. /\ r \in FittingCalls /\ r.call = task[t].call
      /\ r.method = task[t].method /\ r.user = task[t].user
  BY AnswerIsACall
<1>3. task' \in Callbacks /\ OwnMethod(task', device)
  BY <1>1, <1>2, AsksKeeps DEF SessionInv, DevicesOK
<1> QED  BY <1>1, <1>3

(* The server answers, and has done no more than its registry bears.       *)
LEMMA SaysIsSafe ==
  ASSUME SessionInv, NEW t \in Tasks, task[t] \in FittingCalls, NEW x \in Token,
         Says(t, x), ServerOK', OpensOwn(device, server')
  PROVE  SessionInv'
<1>1. /\ task' \in Callbacks /\ OwnMethod(task', device)
      /\ UNCHANGED <<scenario, left, store, page, modal, device>>
  BY SaysKeeps
<1> QED
  BY <1>1 DEF SessionInv, ScreenOK, DevicesOK, OpensOwn, OwnMethod, Rendered,
              IsAuthenticated, Closed

LEMMA RegisteredIsSafe ==
  ASSUME SessionInv, NEW t \in Tasks, Registered(t)  PROVE SessionInv'
<1> DEFINE r == NextCall(task[t], "login")
<1>1. /\ task[t] \in FittingCalls /\ task[t] \in Call /\ task[t].call = "create"
      /\ task' = [task EXCEPT ![t] = r]
      /\ UNCHANGED <<scenario, left, store, page, modal, device, server>>
  BY WhatIsHeard DEF Registered
<1>2. /\ r \in Call /\ r.call = "login" /\ r.user = task[t].user
      /\ r.kind = task[t].kind /\ r.remember = task[t].remember
      /\ r.refreshing = task[t].refreshing
  BY <1>1, NextCallIsACall DEF SessionInv
<1>3. ~task[t].refreshing
  BY WhatIsHeard DEF Registered
<1>4. r \in FittingCalls
  BY <1>1, <1>2, <1>3 DEF FittingCalls, Fits
<1>5. task' \in Callbacks /\ OwnMethod(task', device)
  BY <1>1, <1>2, <1>4, AsksKeeps DEF SessionInv, DevicesOK
<1> QED  BY <1>1, <1>5, TaskIsSafe

LEMMA LoggedInIsSafe ==
  ASSUME SessionInv, NEW t \in Tasks, LoggedIn(t)  PROVE SessionInv'
<1> DEFINE a == task[t].user
           new == task[t].reply
           s == SignedInAs(a, new, new)
<1>1. a \in Accounts /\ new \in Secret
  <2>1. task[t] \in FittingCalls /\ task[t].call = "login" /\ new \in Secret
    BY WhatIsHeard DEF LoggedIn
  <2> QED  BY <2>1 DEF FittingCalls, Fits
<1>2. s \in Session
  BY <1>1 DEF Session, Token, SignedInAs
<1>3. Become(s, "vaults", Ends(t)) /\ UNCHANGED <<scenario, left, device, server>>
  BY DEF LoggedIn
<1>4. Ends(t) \in Callbacks /\ OwnMethod(Ends(t), device)
  BY EndsKeeps DEF SessionInv, DevicesOK
<1> QED  BY <1>2, <1>3, <1>4, BecomeAloneIsSafe DEF SessionInv, Pages

LEMMA ProfileReadIsSafe ==
  ASSUME SessionInv, NEW t \in Tasks, ProfileRead(t)  PROVE SessionInv'
<1> DEFINE s == [store EXCEPT !.access = task[t].had.access,
                              !.refresh = task[t].had.refresh,
                              !.named = task[t].reply.acct]
<1>1. task[t] \in Call /\ task[t].reply.acct \in Accounts
  BY WhatIsHeard DEF ProfileRead, Secret
<1>2. s \in Session
  BY <1>1 DEF SessionInv, ScreenOK, Session, Call
<1>3. Become(s, "vaults", Ends(t)) /\ UNCHANGED <<scenario, left, device, server>>
  BY DEF ProfileRead
<1>4. Ends(t) \in Callbacks /\ OwnMethod(Ends(t), device)
  BY EndsKeeps DEF SessionInv, DevicesOK
<1> QED  BY <1>2, <1>3, <1>4, BecomeAloneIsSafe DEF SessionInv, Pages

LEMMA EnrolledIsSafe ==
  ASSUME SessionInv, NEW t \in Tasks, Enrolled(t)  PROVE SessionInv'
<1> DEFINE had == task[t].had
           named == IF had.access # None /\ had.refresh # None
                      THEN [access |-> had.access, refresh |-> had.refresh,
                            named |-> task[t].reply.acct]
                      ELSE store
           s == [access |-> named.access, refresh |-> named.refresh,
                 named |-> named.named, keys |-> task[t].reply]
<1>1. task[t] \in Call /\ task[t].reply \in Secret /\ task[t].reply.acct \in Accounts
  BY WhatIsHeard DEF Enrolled, Secret
<1>2. had.access \in Token /\ had.refresh \in Token /\ store \in Session
  BY <1>1 DEF SessionInv, ScreenOK, Call
<1>3. s \in Session
  BY <1>1, <1>2 DEF Session, Token
<1>4. Become(s, "vaults", Ends(t)) /\ UNCHANGED <<scenario, left, device, server>>
  BY DEF Enrolled
<1>5. Ends(t) \in Callbacks /\ OwnMethod(Ends(t), device)
  BY EndsKeeps DEF SessionInv, DevicesOK
<1> QED  BY <1>3, <1>4, <1>5, BecomeAloneIsSafe DEF SessionInv, Pages

(* The silent unlock comes to nothing. *)
LEMMA EndSilentIsSafe ==
  ASSUME SessionInv, NEW t \in Tasks, EndSilent(t),
         UNCHANGED <<scenario, left, server>>
  PROVE  SessionInv'
<1>1. task' = Ends(t) /\ UNCHANGED <<store, page, device>>
  BY DEF EndSilent
<1>2. /\ modal' \in Modals /\ modal'.open = modal.open
      /\ (modal = Closed => modal' = Closed)
  <2>1. modal \in Modals
    BY DEF SessionInv, ScreenOK
  <2>2. CASE modal' = [modal EXCEPT !.checking = FALSE]
    <3>1. modal' \in Modals /\ modal'.open = modal.open
      BY <2>1, <2>2 DEF Modals
    <3>2. ASSUME modal = Closed PROVE modal' = Closed
      BY <2>2, <3>2 DEF Closed
    <3> QED  BY <3>1, <3>2
  <2> QED  BY <2>1, <2>2 DEF EndSilent
<1>3. ScreenOK'
  BY <1>1, <1>2 DEF SessionInv, ScreenOK, Rendered, IsAuthenticated, Closed
<1>4. Ends(t) \in Callbacks /\ OwnMethod(Ends(t), device)
  BY EndsKeeps DEF SessionInv, DevicesOK
<1> QED  BY <1>1, <1>3, <1>4 DEF SessionInv, DevicesOK, ServerOK, OpensOwn, OwnMethod

(* A callback goes on to its next call, which registers nothing.           *)
LEMMA GoesOn ==
  ASSUME SessionInv, NEW t \in Tasks, task[t] \in FittingCalls, ~task[t].refreshing,
         NEW c \in {"bundle", "rotate"}, NEW k \in Token,
         task' = [task EXCEPT ![t] = [NextCall(task[t], c) EXCEPT !.key = k]],
         UNCHANGED <<scenario, left, store, page, modal, device, server>>
  PROVE  SessionInv'
<1> DEFINE q == NextCall(task[t], c)
           r == [q EXCEPT !.key = k]
<1>1. task[t] \in Call /\ Fits(task[t])
  BY DEF FittingCalls
<1>2. /\ q \in Call /\ q.call = c /\ q.user = task[t].user
      /\ q.kind = task[t].kind /\ q.remember = task[t].remember
      /\ q.refreshing = task[t].refreshing
  BY <1>1, NextCallIsACall DEF SessionInv
<1>3. /\ r \in Call /\ r.call = c /\ r.user = task[t].user
      /\ r.refreshing = task[t].refreshing /\ r.kind = task[t].kind
      /\ r.remember = task[t].remember
  BY <1>2 DEF Call
<1>4. r \in FittingCalls
  BY <1>1, <1>3 DEF FittingCalls, Fits
<1>5. task' \in Callbacks /\ OwnMethod(task', device)
  BY <1>3, <1>4, AsksKeeps DEF SessionInv, DevicesOK
<1> QED  BY <1>5, TaskIsSafe

LEMMA WrappedMasterKeyIsSafe ==
  ASSUME SessionInv, NEW t \in Tasks, WrappedMasterKey(t)  PROVE SessionInv'
<1>1. /\ task[t] \in FittingCalls /\ ~task[t].refreshing
      /\ task[t].reply \in Token /\ UNCHANGED <<scenario, left, server>>
  BY WhatIsHeard DEF WrappedMasterKey, Token
<1>2. CASE EndSilent(t)
  BY <1>1, <1>2, EndSilentIsSafe
<1>3. CASE /\ task' = [task EXCEPT ![t] =
                  [NextCall(task[t], "bundle") EXCEPT !.key = task[t].reply]]
           /\ UNCHANGED <<store, page, modal, device>>
  BY <1>1, <1>3, GoesOn
<1> QED  BY <1>2, <1>3 DEF WrappedMasterKey

LEMMA SilentBundleIsSafe ==
  ASSUME SessionInv, NEW t \in Tasks, SilentBundle(t)  PROVE SessionInv'
<1> DEFINE s == [store EXCEPT !.keys = task[t].key]
<1>1. task[t] \in Call /\ UNCHANGED <<scenario, left, server>>
  BY WhatIsHeard DEF SilentBundle
<1>2. CASE EndSilent(t)
  BY <1>1, <1>2, EndSilentIsSafe
<1>3. CASE ~EndSilent(t)
  <2>1. Become(s, page, Ends(t)) /\ UNCHANGED device
    BY <1>3 DEF SilentBundle
  <2>2. s \in Session /\ page \in Pages
    BY <1>1 DEF SessionInv, ScreenOK, Session, Call
  <2>3. Ends(t) \in Callbacks /\ OwnMethod(Ends(t), device)
    BY EndsKeeps DEF SessionInv, DevicesOK
  <2> QED  BY <1>1, <2>1, <2>2, <2>3, BecomeAloneIsSafe DEF SessionInv
<1> QED  BY <1>2, <1>3

(* A method is fresh when no record and no other callback names it.        *)
LEMMA TrustIsSafe ==
  ASSUME SessionInv, NEW t \in Tasks, NEW m \in FreshMethods, NEW u \in Accounts,
         NEW r \in FittingCalls, r.call = "register", r.method = m, r.user = u,
         device' = [device EXCEPT ![u] = m], task' = [task EXCEPT ![t] = r],
         UNCHANGED <<scenario, left, store, page, modal, server>>
  PROVE  SessionInv'
<1>1. /\ m \in Methods /\ m \notin DOMAIN server.methods
      /\ \A a \in Accounts : device[a] # m
  BY DEF FreshMethods
<1>2. \A k \in Tasks : task[k] \in FittingCalls => task[k].method # m
  BY DEF FreshMethods, FittingCalls, Call
<1>3. task' \in Callbacks /\ device' \in Devices
  BY <1>1 DEF SessionInv, DevicesOK, Callbacks, Devices
<1>4. OwnMethod(task, device)'
  <2> SUFFICES ASSUME NEW k \in Tasks, task'[k] \in FittingCalls,
                      task'[k].call = "register", NEW a \in Accounts,
                      device'[a] = task'[k].method
               PROVE  a = task'[k].user
    BY DEF OwnMethod
  <2>1. CASE k = t
    <3>1. task'[k] = r
      BY <2>1 DEF SessionInv, DevicesOK, Callbacks
    <3>2. a # u => device'[a] # m
      BY <1>1 DEF SessionInv, DevicesOK, Devices
    <3> QED  BY <3>1, <3>2
  <2>2. CASE k # t
    <3>1. task'[k] = task[k]
      BY <2>2 DEF SessionInv, DevicesOK, Callbacks
    <3>2. task[k].method # m
      BY <1>2, <3>1
    <3>3. device'[u] = m /\ (a # u => device'[a] = device[a])
      BY DEF SessionInv, DevicesOK, Devices
    <3> QED  BY <3>1, <3>2, <3>3 DEF SessionInv, DevicesOK, OwnMethod
  <2> QED  BY <2>1, <2>2
<1>5. OpensOwn(device, server)'
  BY <1>1 DEF SessionInv, DevicesOK, Devices, OpensOwn
<1> QED
  BY <1>3, <1>4, <1>5 DEF SessionInv, DevicesOK, ScreenOK, ServerOK, Rendered,
                          IsAuthenticated, Closed

LEMMA UnlockBundleIsSafe ==
  ASSUME SessionInv, NEW t \in Tasks, UnlockBundle(t)  PROVE SessionInv'
<1> DEFINE r == task[t]
           k == r.reply
           n(m) == [NextCall(r, "register") EXCEPT !.key = k, !.method = m]
<1>1. /\ r \in FittingCalls /\ r \in Call /\ r.kind = "unlock" /\ ~r.refreshing
      /\ UNCHANGED <<scenario, left, server>> /\ k \in Secret
  BY WhatIsHeard DEF UnlockBundle
<1>2. CASE StopWaiting(t, store)
  BY <1>1, <1>2, StopWaitingIsSafe
<1>3. CASE UNCHANGED device /\ Become([store EXCEPT !.keys = k], page, Ends(t))
  <2>1. [store EXCEPT !.keys = k] \in Session /\ page \in Pages
    BY <1>1 DEF SessionInv, ScreenOK, Session, Token
  <2>2. Ends(t) \in Callbacks /\ OwnMethod(Ends(t), device)
    BY EndsKeeps DEF SessionInv, DevicesOK
  <2> QED  BY <1>1, <1>3, <2>1, <2>2, BecomeAloneIsSafe DEF SessionInv
<1>4. CASE /\ k.acct = r.user
           /\ \E m \in FreshMethods :
                /\ device' = TrustThisDevice(r.user, m)
                /\ task' = [task EXCEPT ![t] = n(m)]
           /\ UNCHANGED <<store, page, modal>>
  <2>1. PICK m \in FreshMethods :
                /\ device' = [device EXCEPT ![r.user] = m]
                /\ task' = [task EXCEPT ![t] = n(m)]
    BY <1>4 DEF TrustThisDevice
  <2>2. m \in Methods /\ r.user \in Accounts
    BY <1>1, <1>4 DEF FreshMethods, Secret
  <2>3. /\ NextCall(r, "register") \in Call
        /\ NextCall(r, "register").call = "register"
        /\ NextCall(r, "register").user = r.user
        /\ NextCall(r, "register").kind = "unlock"
        /\ NextCall(r, "register").refreshing = r.refreshing
    BY <1>1, NextCallIsACall DEF SessionInv
  <2>4. /\ n(m) \in Call /\ n(m).call = "register" /\ n(m).user = r.user
        /\ n(m).kind = "unlock" /\ n(m).refreshing = r.refreshing
        /\ n(m).key = k /\ n(m).method = m
    BY <1>1, <2>2, <2>3 DEF Call, Token
  <2>5. n(m) \in FittingCalls
    BY <1>1, <1>4, <2>2, <2>4 DEF FittingCalls, Fits
  <2> QED  BY <1>1, <1>4, <2>1, <2>2, <2>4, <2>5, TrustIsSafe
<1> QED  BY <1>2, <1>3, <1>4 DEF UnlockBundle

(* The server files the key under the method of the callback.              *)
LEMMA WithMethodKeeps ==
  ASSUME SessionInv, NEW r \in FittingCalls, r.call = "register", Accepts(r),
         server' = WithMethod(r)
  PROVE  /\ ServerOK'
         /\ DOMAIN server'.methods = DOMAIN server.methods \cup {r.method}
         /\ server'.methods[r.method].key.acct = r.user
         /\ \A m \in DOMAIN server.methods :
               m # r.method => server'.methods[m] = server.methods[m]
<1> DEFINE w == [owner |-> r.access.acct, key |-> r.key]
           f == [m \in DOMAIN server.methods \cup {r.method} |->
                    IF m = r.method THEN w ELSE server.methods[m]]
<1>1. /\ r \in Call /\ r.key \in Secret /\ r.key.acct = r.user
      /\ r.method \in Methods
  BY DEF FittingCalls, Fits
<1>2. w \in Wrapped
  BY <1>1, AcceptedHasAToken DEF Wrapped
<1>3. server \in Servers /\ server' = [server EXCEPT !.methods = f]
  BY DEF SessionInv, ServerOK, WithMethod
<1>4. server.methods \in Registry
  BY <1>3 DEF Servers
<1>5. DOMAIN server.methods \subseteq Methods
      /\ \A m \in DOMAIN server.methods : server.methods[m] \in Wrapped
  BY <1>4, RegistryIs
<1>6. f \in [DOMAIN f -> Wrapped] /\ DOMAIN f \subseteq Methods
  BY <1>1, <1>2, <1>5
<1>7. f \in Registry
  BY <1>6, RegistryIs
<1>8. server'.methods = f /\ ServerOK'
  BY <1>3, <1>7 DEF Servers, ServerOK
<1> QED  BY <1>1, <1>8

LEMMA ServerRegistersIsSafe ==
  ASSUME SessionInv, NEW t \in Tasks, ServerRegisters(t)  PROVE SessionInv'
<1> DEFINE r == task[t]
<1>1. /\ r \in FittingCalls /\ r \in Call /\ r.call = "register" /\ Accepts(r)
      /\ server' = WithMethod(r) /\ Says(t, r.key)
  BY WhatIsAsked DEF ServerRegisters
<1>2. r.key \in Token /\ device' = device
  BY <1>1 DEF Call, Says
<1>3. ServerOK'
  BY <1>1, WithMethodKeeps
<1>4. OpensOwn(device, server')
  <2> SUFFICES ASSUME NEW a \in Accounts, device[a] \in DOMAIN server'.methods
               PROVE  server'.methods[device[a]].key.acct = a
    BY DEF OpensOwn
  <2>1. CASE device[a] = r.method
    <3>1. a = r.user
      BY <1>1, <2>1 DEF SessionInv, DevicesOK, OwnMethod
    <3> QED  BY <1>1, <2>1, <3>1, WithMethodKeeps
  <2>2. CASE device[a] # r.method
    BY <1>1, <2>2, WithMethodKeeps DEF SessionInv, DevicesOK, OpensOwn
  <2> QED  BY <2>1, <2>2
<1> QED  BY <1>1, <1>2, <1>3, <1>4, SaysIsSafe

LEMMA UnlockRegisteredIsSafe ==
  ASSUME SessionInv, NEW t \in Tasks, UnlockRegistered(t)  PROVE SessionInv'
<1> DEFINE s == [store EXCEPT !.keys = task[t].key]
<1>1. task[t] \in Call
  BY WhatIsHeard DEF UnlockRegistered
<1>2. s \in Session /\ page \in Pages
  BY <1>1 DEF SessionInv, ScreenOK, Session, Call
<1>3. Ends(t) \in Callbacks /\ OwnMethod(Ends(t), device)
  BY EndsKeeps DEF SessionInv, DevicesOK
<1> QED  BY <1>2, <1>3, BecomeAloneIsSafe DEF SessionInv, UnlockRegistered

LEMMA SavedIsSafe ==
  ASSUME SessionInv, NEW t \in Tasks, Saved(t)  PROVE SessionInv'
  BY EndsKeeps, TaskIsSafe DEF Saved, SessionInv, DevicesOK

(* A new version of an account's passphrase.                               *)
LEMMA RotateKeeps ==
  ASSUME SessionInv, NEW a \in Accounts, Rotate(a)
  PROVE  /\ ServerOK'
         /\ [acct |-> a, ver |-> server.ver[a] + 1] \in Secret
         /\ DOMAIN server'.methods \subseteq DOMAIN server.methods
         /\ \A m \in DOMAIN server'.methods :
               server'.methods[m] = server.methods[m]
<1> DEFINE kept == {m \in DOMAIN server.methods : server.methods[m].owner # a}
           f == Restrict(server.methods, kept)
<1>1. PICK drop \in BOOLEAN :
        server' = [server EXCEPT !.ver[a] = @ + 1,
                                 !.methods = IF drop THEN f ELSE @]
  BY DEF Rotate
<1>2. server \in Servers /\ server.ver[a] < MaxVersion
  BY DEF Rotate, SessionInv, ServerOK
<1>3. server.ver[a] \in 1 .. MaxVersion /\ MaxVersion \in Nat
  BY <1>2, SessionAssumption DEF Servers
<1>4. server.ver[a] + 1 \in 1 .. MaxVersion
  BY <1>2, <1>3
<1>5. server.methods \in Registry
  BY <1>2 DEF Servers
<1>6. DOMAIN server.methods \subseteq Methods
      /\ \A m \in DOMAIN server.methods : server.methods[m] \in Wrapped
  BY <1>5, RegistryIs
<1>7. f \in Registry /\ DOMAIN f \subseteq DOMAIN server.methods
      /\ \A m \in DOMAIN f : f[m] = server.methods[m]
  BY <1>6, RegistryIs DEF Restrict
<1>8. /\ server'.methods \in {f, server.methods}
      /\ server' \in Servers
  BY <1>1, <1>2, <1>4, <1>5, <1>7 DEF Servers
<1> QED  BY <1>4, <1>7, <1>8 DEF ServerOK, Secret

LEMMA ManifestReadIsSafe ==
  ASSUME SessionInv, NEW t \in Tasks, ManifestRead(t)  PROVE SessionInv'
<1>1. /\ task[t] \in FittingCalls /\ ~task[t].refreshing
      /\ task[t].reply \in Token /\ UNCHANGED <<scenario, left, server>>
  BY WhatIsHeard DEF ManifestRead, Token
<1>2. CASE StopWaiting(t, store)
  BY <1>1, <1>2, StopWaitingIsSafe
<1>3. CASE /\ task' = [task EXCEPT ![t] =
                  [NextCall(task[t], "rotate") EXCEPT !.key = task[t].reply]]
           /\ UNCHANGED <<store, page, modal, device>>
  BY <1>1, <1>3, GoesOn
<1> QED  BY <1>2, <1>3 DEF ManifestRead

LEMMA RotatedIsSafe ==
  ASSUME SessionInv, NEW t \in Tasks, Rotated(t)  PROVE SessionInv'
<1> DEFINE new == task[t].reply
           user == task[t].user
           s == IF user = None THEN [store EXCEPT !.keys = new]
                ELSE SignedInAs(user, new, new)
<1>1. task[t] \in Call /\ new \in Secret
  BY WhatIsHeard DEF Rotated
<1>2. user \in Accounts \cup {None} /\ store \in Session /\ page \in Pages
  BY <1>1 DEF SessionInv, ScreenOK, Call
<1>3. s \in Session
  BY <1>1, <1>2 DEF Session, Token, SignedInAs
<1>4. Become(s, page, Ends(t)) /\ UNCHANGED <<scenario, left, device, server>>
  BY DEF Rotated
<1>5. Ends(t) \in Callbacks /\ OwnMethod(Ends(t), device)
  BY EndsKeeps DEF SessionInv, DevicesOK
<1> QED  BY <1>2, <1>3, <1>4, <1>5, BecomeAloneIsSafe DEF SessionInv

(* The steps of the server *)

LEMMA FoundIsAToken ==
  ASSUME SessionInv, NEW q \in FittingCalls, Accepts(q),
         q.call \in {"login", "profile", "save", "bundle", "manifest", "wrapped"}
  PROVE  /\ Found(q) \in Token
         /\ q.call = "login" => Found(q) = Of(q.user) /\ q.user \in Accounts
         /\ q.call \in {"profile", "bundle"} => Found(q) \in {None, Of(q.access.acct)}
<1> DEFINE m == q.method
<1>1. q \in Call /\ Fits(q)
  BY DEF FittingCalls
<1>2. CASE q.call = "login"
  <2>1. Found(q) = Of(q.user) /\ q.user \in Accounts
    BY <1>1, <1>2 DEF Found, Fits
  <2> QED  BY <1>2, <2>1, OfIsASecret DEF SessionInv, Token
<1>3. CASE q.call = "wrapped"
  <2>1. Found(q) = IF m \in DOMAIN server.methods
                      /\ server.methods[m].owner = q.access.acct
                     THEN server.methods[m].key ELSE None
    BY <1>3 DEF Found
  <2>2. m \in DOMAIN server.methods => server.methods[m].key \in Secret
    BY RegistryIs DEF SessionInv, ServerOK, Servers, Wrapped
  <2> QED  BY <1>3, <2>1, <2>2 DEF Token
<1>4. CASE q.call \in {"profile", "save", "bundle", "manifest"}
  <2>1. Found(q) \in {None, Of(q.access.acct)}
    BY <1>4 DEF Found
  <2>2. q.access.acct \in Accounts
    BY <1>1, <1>4, AcceptedHasAToken
  <2> QED  BY <1>4, <2>1, <2>2, OfIsASecret DEF SessionInv, Token
<1> QED  BY <1>2, <1>3, <1>4

LEMMA ServerReadsIsSafe ==
  ASSUME SessionInv, NEW t \in Tasks, ServerReads(t)  PROVE SessionInv'
<1>1. PICK c \in {"login", "profile", "save", "bundle", "manifest", "wrapped"} :
        Asked(t, c)
  BY DEF ServerReads
<1>2. /\ task[t] \in FittingCalls /\ task[t].call = c
      /\ Accepts(task[t]) /\ Says(t, Found(task[t])) /\ UNCHANGED server
  BY <1>1, WhatIsAsked DEF ServerReads
<1>3. Found(task[t]) \in Token
  BY <1>2, FoundIsAToken
<1> QED  BY <1>2, <1>3, SaysIsSafe DEF SessionInv, ServerOK, DevicesOK, OpensOwn

(* The accounts that there are, and those with keys.                       *)
LEMMA ServerOpensIsSafe ==
  ASSUME SessionInv, NEW t \in Tasks, ServerCreates(t) \/ ServerEnrols(t)
  PROVE  /\ SessionInv' /\ server'.ver = server.ver
         /\ task[t] \in FittingCalls /\ task[t] # Idle /\ ~task[t].refreshing
         /\ \/ ServerCreates(t) /\ task[t].call = "create"
               /\ task[t].user \in Accounts
               /\ (Says(t, None) \/ Says(t, Of(task[t].user)))
            \/ ServerEnrols(t) /\ task[t].call = "enrol" /\ task[t].access # None
               /\ (Says(t, None) \/ Says(t, Of(Caller(t))))
<1>1. /\ task[t] \in FittingCalls /\ task[t] \in Call /\ task[t] # Idle
      /\ ~task[t].refreshing
      /\ \/ ServerCreates(t) /\ task[t].call = "create"
         \/ ServerEnrols(t) /\ task[t].call = "enrol" /\ Accepts(task[t])
  BY WhatIsAsked DEF ServerCreates, ServerEnrols
<1> DEFINE a == IF task[t].call = "create" THEN task[t].user ELSE Caller(t)
<1>2. a \in Accounts
  BY <1>1, AcceptedHasAToken DEF FittingCalls, Fits, Caller
<1>3. PICK x \in {None, Of(a)} : Says(t, x)
  BY <1>1 DEF ServerCreates, ServerEnrols
<1>4. \/ server' = server
      \/ server' = [server EXCEPT !.known = @ \cup {a}, !.ready = @ \cup {a}]
      \/ server' = [server EXCEPT !.ready = @ \cup {a}]
  BY <1>1 DEF ServerCreates, ServerEnrols
<1>5. /\ ServerOK' /\ server'.methods = server.methods /\ server'.ver = server.ver
  <2> DEFINE kn == server.known \cup {a}  re == server.ready \cup {a}
  <2>1. server \in Servers
    BY DEF SessionInv, ServerOK
  <2>2. kn \in SUBSET Accounts /\ re \in SUBSET Accounts
    BY <1>2, <2>1 DEF Servers
  <2>3. \/ server' = server
        \/ server' = [server EXCEPT !.known = kn, !.ready = re]
        \/ server' = [server EXCEPT !.ready = re]
    BY <1>4, <2>1 DEF Servers
  <2> HIDE DEF kn, re
  <2>4. server' \in Servers /\ server'.methods = server.methods /\ server'.ver = server.ver
    BY <2>1, <2>2, <2>3 DEF Servers
  <2> QED  BY <2>4 DEF ServerOK, Servers
<1>6. x \in Token
  BY <1>2, OfIsASecret DEF SessionInv, Token
<1>7. SessionInv'
  BY <1>1, <1>3, <1>5, <1>6, SaysIsSafe DEF SessionInv, DevicesOK, OpensOwn
<1>8. CASE ServerCreates(t) /\ task[t].call = "create"
  <2>1. a = task[t].user
    BY <1>8
  <2>2. task[t].user \in Accounts /\ (Says(t, None) \/ Says(t, Of(task[t].user)))
    BY <1>2, <1>3, <2>1
  <2> QED  BY <1>1, <1>5, <1>7, <1>8, <2>2
<1>9. CASE ServerEnrols(t) /\ task[t].call = "enrol" /\ Accepts(task[t])
  <2>1. a = Caller(t) /\ task[t].access # None
    BY <1>9 DEF Accepts
  <2>2. Says(t, None) \/ Says(t, Of(Caller(t)))
    BY <1>3, <2>1
  <2> QED  BY <1>1, <1>5, <1>7, <1>9, <2>1, <2>2
<1> QED  BY <1>1, <1>8, <1>9

LEMMA ServerRotatesIsSafe ==
  ASSUME SessionInv, NEW t \in Tasks, ServerRotates(t)  PROVE SessionInv'
<1> DEFINE a == Caller(t)
           new == [acct |-> a, ver |-> server.ver[a] + 1]
<1>1. task[t] \in FittingCalls /\ task[t] \in Call /\ a \in Accounts
  BY WhatIsAsked, AcceptedHasAToken DEF ServerRotates, Caller
<1>2. CASE Says(t, None) /\ UNCHANGED server
  BY <1>1, <1>2, SaysIsSafe DEF SessionInv, ServerOK, DevicesOK, OpensOwn, Token
<1>3. CASE Rotate(a) /\ Says(t, new)
  <2>1. /\ ServerOK' /\ new \in Secret
        /\ DOMAIN server'.methods \subseteq DOMAIN server.methods
        /\ \A m \in DOMAIN server'.methods :
              server'.methods[m] = server.methods[m]
    BY <1>1, <1>3, RotateKeeps
  <2>2. device' = device
    BY <1>3 DEF Says
  <2>3. OpensOwn(device, server)'
    BY <2>1, <2>2, FewerMethods
  <2> QED  BY <1>1, <1>3, <2>1, <2>2, <2>3, SaysIsSafe DEF OpensOwn, Token
<1> QED  BY <1>2, <1>3 DEF ServerRotates

LEMMA ServerRenewsIsSafe ==
  ASSUME SessionInv, NEW t \in Tasks, ServerRenews(t)  PROVE SessionInv'
<1>1. task[t] \in FittingCalls /\ task[t] \in Call
  BY NotIdle DEF SessionInv, DevicesOK, ServerRenews
<1>2. task[t].refresh \in Token /\ Says(t, task[t].refresh) /\ UNCHANGED server
  BY <1>1 DEF ServerRenews, Call
<1> QED  BY <1>1, <1>2, SaysIsSafe DEF SessionInv, ServerOK, DevicesOK, OpensOwn

LEMMA ServingIsSafe ==
  ASSUME SessionInv, NEW t \in Tasks, Serve(t)  PROVE SessionInv'
  BY ServerReadsIsSafe, ServerOpensIsSafe, ServerRegistersIsSafe,
     ServerRotatesIsSafe, ServerRenewsIsSafe DEF Serve

LEMMA UnauthorizedIsSafe ==
  ASSUME SessionInv, NEW t \in Tasks, Unauthorized(t)  PROVE SessionInv'
<1> DEFINE r == [task[t] EXCEPT !.refreshing = TRUE]
<1>1. /\ task[t] \in FittingCalls /\ task[t] \in Call
      /\ UNCHANGED <<scenario, left, server>>
  BY NotIdle DEF SessionInv, DevicesOK, Unauthorized
<1>2. CASE StopWaiting(t, store)
  BY <1>1, <1>2, StopWaitingIsSafe
<1>3. CASE task[t].retry /\ task[t].refresh # None
  <2>1. task' = [task EXCEPT ![t].refreshing = TRUE]
        /\ UNCHANGED <<store, page, modal, device>>
    BY <1>3 DEF Unauthorized
  <2>2. task' = [task EXCEPT ![t] = r]
    BY <2>1
  <2>3. /\ r \in Call /\ r.call = task[t].call /\ r.method = task[t].method
        /\ r.user = task[t].user /\ r.kind = task[t].kind /\ r.key = task[t].key
        /\ r.remember = task[t].remember /\ r.refresh = task[t].refresh
    BY <1>1 DEF Call
  <2>4. r \in FittingCalls
    BY <1>1, <1>3, <2>3 DEF FittingCalls, Fits
  <2>5. task' \in Callbacks /\ OwnMethod(task', device)
    BY <1>1, <2>2, <2>3, <2>4, AsksKeeps DEF SessionInv, DevicesOK
  <2> QED  BY <1>1, <2>1, <2>5, TaskIsSafe
<1> QED  BY <1>2, <1>3 DEF Unauthorized

LEMMA TryRefreshIsSafe ==
  ASSUME SessionInv, NEW t \in Tasks, TryRefresh(t)  PROVE SessionInv'
<1> DEFINE new == task[t].reply
           r == [task[t] EXCEPT !.refreshing = FALSE, !.retry = FALSE,
                                !.access = new, !.answered = FALSE, !.reply = None]
           s == [store EXCEPT !.access = new]
<1>1. /\ task[t] \in FittingCalls /\ task[t] \in Call
      /\ UNCHANGED <<scenario, left, device, server>>
  BY NotIdle DEF SessionInv, DevicesOK, TryRefresh
<1>2. Become(s, page, [task EXCEPT ![t].refreshing = FALSE, ![t].retry = FALSE,
                                   ![t].access = new,
                                   ![t].answered = FALSE, ![t].reply = None])
  BY DEF TryRefresh
<1>3. [task EXCEPT ![t].refreshing = FALSE, ![t].retry = FALSE, ![t].access = new,
                   ![t].answered = FALSE, ![t].reply = None]
        = [task EXCEPT ![t] = r]
  BY DEF SessionInv, DevicesOK, Callbacks
<1>4. /\ r \in Call /\ r.call = task[t].call /\ r.method = task[t].method
      /\ r.user = task[t].user /\ r.kind = task[t].kind /\ r.key = task[t].key
      /\ r.remember = task[t].remember /\ ~r.refreshing
  BY <1>1 DEF Call, Token
<1>5. r \in FittingCalls
  BY <1>1, <1>4 DEF FittingCalls, Fits
<1>6. [task EXCEPT ![t] = r] \in Callbacks /\ OwnMethod([task EXCEPT ![t] = r], device)
  BY <1>1, <1>4, <1>5, AsksKeeps DEF SessionInv, DevicesOK
<1>7. s \in Session /\ page \in Pages
  BY <1>1 DEF SessionInv, ScreenOK, Session, Call
<1> QED  BY <1>1, <1>2, <1>3, <1>6, <1>7, BecomeAloneIsSafe DEF SessionInv

LEMMA FailureIsSafe ==
  ASSUME SessionInv, NEW t \in Tasks, RefreshFails(t) \/ CallFails(t) \/ Refused(t)
  PROVE  SessionInv'
  BY NotIdle, StopWaitingIsSafe
  DEF SessionInv, DevicesOK, RefreshFails, CallFails, Refused

LEMMA AnswersAreSafe ==
  ASSUME SessionInv, NEW t \in Tasks, Answer(t)  PROVE SessionInv'
  BY RegisteredIsSafe, LoggedInIsSafe, ProfileReadIsSafe, EnrolledIsSafe,
     WrappedMasterKeyIsSafe, SilentBundleIsSafe, UnlockBundleIsSafe,
     UnlockRegisteredIsSafe, SavedIsSafe, ManifestReadIsSafe, RotatedIsSafe,
     UnauthorizedIsSafe, TryRefreshIsSafe, FailureIsSafe DEF Answer
-----------------------------------------------------------------------------
(* What the user does *)

LEMMA UserDoesLeaves ==
  ASSUME SessionInv, NEW k, UserDoes(k)
  PROVE  left' \in Nat /\ UNCHANGED scenario
  BY DEF SessionInv, UserDoes

(* The call that a button makes. *)
LEMMA RequestFits ==
  ASSUME SessionInv,
         NEW k \in {"sign_in", "oidc", "enrol", "silent", "unlock", "save", "rotate"},
         NEW c \in {"login", "create", "profile", "enrol", "wrapped", "bundle",
                    "save", "manifest"},
         NEW u \in Accounts \cup {None},
         c \in {"login", "create"} => u \in Accounts
  PROVE  Request(k, c, u) \in FittingCalls /\ Request(k, c, u).call # "register"
<1> DEFINE r == Request(k, c, u)
<1>1. /\ r \in Call /\ r.call = c /\ r.user = u /\ r.kind = k
      /\ ~r.refreshing /\ ~r.remember
  BY RequestIsACall DEF SessionInv
<1> HIDE DEF r
<1> QED  BY <1>1 DEF FittingCalls, Fits, r

LEMMA SigningInIsSafe ==
  ASSUME SessionInv, SignIn \/ SignUp \/ Enrol \/ Save \/ RotateForm
  PROVE  SessionInv'
<1>1. server.ready \subseteq Accounts /\ store.named \in Accounts \cup {None}
  BY DEF SessionInv, ServerOK, Servers, ScreenOK, Session
<1>2. CASE SignIn
  <2>1. PICK t \in Tasks, a \in server.ready : Sends(t, Request("sign_in", "login", a))
    BY <1>2 DEF SignIn
  <2>2. Request("sign_in", "login", a) \in FittingCalls
        /\ Request("sign_in", "login", a).call # "register"
    BY <1>1, RequestFits
  <2> QED  BY <1>2, <2>1, <2>2, UserDoesLeaves, SendsKeeps DEF SignIn
<1>3. CASE SignUp
  <2>1. PICK t \in Tasks, a \in Accounts : Sends(t, Request("sign_in", "create", a))
    BY <1>3 DEF SignUp
  <2>2. Request("sign_in", "create", a) \in FittingCalls
        /\ Request("sign_in", "create", a).call # "register"
    BY RequestFits
  <2> QED  BY <1>3, <2>1, <2>2, UserDoesLeaves, SendsKeeps DEF SignUp
<1>4. CASE Enrol
  <2>1. PICK t \in Tasks : Sends(t, Request("enrol", "enrol", None))
    BY <1>4 DEF Enrol
  <2>2. Request("enrol", "enrol", None) \in FittingCalls
        /\ Request("enrol", "enrol", None).call # "register"
    BY RequestFits
  <2> QED  BY <1>4, <2>1, <2>2, UserDoesLeaves, SendsKeeps DEF Enrol
<1>5. CASE Save
  <2>1. PICK t \in Tasks : Sends(t, Request("save", "save", None))
    BY <1>5 DEF Save
  <2>2. Request("save", "save", None) \in FittingCalls
        /\ Request("save", "save", None).call # "register"
    BY RequestFits
  <2> QED  BY <1>5, <2>1, <2>2, UserDoesLeaves, SendsKeeps DEF Save
<1>6. CASE RotateForm
  <2>1. PICK t \in Tasks : Sends(t, Request("rotate", "manifest", store.named))
    BY <1>6 DEF RotateForm
  <2>2. Request("rotate", "manifest", store.named) \in FittingCalls
        /\ Request("rotate", "manifest", store.named).call # "register"
    BY <1>1, RequestFits
  <2> QED  BY <1>6, <2>1, <2>2, UserDoesLeaves, SendsKeeps DEF RotateForm
<1> QED  BY <1>2, <1>3, <1>4, <1>5, <1>6

LEMMA HandleUnlockIsSafe ==
  ASSUME SessionInv, HandleUnlock  PROVE SessionInv'
<1> DEFINE q == Request("unlock", "bundle", modal.user)
           r(b) == [q EXCEPT !.remember = b]
<1>1. PICK t \in Tasks, b \in BOOLEAN :
        (b => Ops("remember") /\ modal.user # None) /\ Sends(t, r(b))
  BY DEF HandleUnlock
<1>2. modal.user \in Accounts \cup {None}
  BY DEF SessionInv, ScreenOK, Modals
<1>3. /\ q \in Call /\ q.call = "bundle" /\ ~q.refreshing /\ q.user = modal.user
  BY <1>2, RequestIsACall DEF SessionInv
<1>4. /\ r(b) \in Call /\ r(b).call = "bundle" /\ ~r(b).refreshing
      /\ r(b).user = modal.user /\ r(b).remember = b
  BY <1>3 DEF Call
<1>5. r(b) \in FittingCalls
  BY <1>1, <1>2, <1>4 DEF FittingCalls, Fits
<1> QED  BY <1>1, <1>4, <1>5, UserDoesLeaves, SendsKeeps DEF HandleUnlock

LEMMA StartSilentIsSafe ==
  ASSUME SessionInv, NEW t \in Tasks, StartSilent(t)  PROVE SessionInv'
<1> DEFINE q == Request("silent", "wrapped", modal.user)
           r == [q EXCEPT !.method = device[modal.user]]
<1>1. modal \in Modals /\ modal.open = TRUE
  BY DEF StartSilent, SessionInv, ScreenOK, Modals
<1>2. modal' \in Modals /\ modal'.open = modal.open
  BY <1>1 DEF StartSilent, Modals
<1>3. UNCHANGED <<scenario, left, store, page, device, server>>
  BY DEF StartSilent
<1>4. ScreenOK'
  BY <1>1, <1>2, <1>3 DEF SessionInv, ScreenOK, Rendered, IsAuthenticated, Closed
<1>5. CASE UNCHANGED task
  BY <1>3, <1>4, <1>5 DEF SessionInv, DevicesOK, ServerOK, OpensOwn, OwnMethod
<1>6. CASE modal.user # None /\ task' = [task EXCEPT ![t] = r]
  <2>1. modal.user \in Accounts /\ device[modal.user] \in Methods \cup {None}
    BY <1>1, <1>6 DEF Modals, SessionInv, DevicesOK, Devices
  <2>2. q \in Call /\ q.call = "wrapped" /\ ~q.refreshing /\ q.kind = "silent"
    BY <2>1, RequestIsACall DEF SessionInv
  <2>3. r \in Call /\ r.call = "wrapped" /\ ~r.refreshing /\ r.kind = "silent"
    BY <2>1, <2>2 DEF Call
  <2>4. r \in FittingCalls
    BY <2>3 DEF FittingCalls, Fits
  <2>5. task' \in Callbacks /\ OwnMethod(task', device)
    BY <1>6, <2>3, <2>4, AsksKeeps DEF SessionInv, DevicesOK
  <2> QED
    BY <1>3, <1>4, <2>5 DEF SessionInv, DevicesOK, ServerOK, OpensOwn, OwnMethod
<1> QED  BY <1>5, <1>6 DEF StartSilent, LoadDeviceRecord

(* The callbacks that were under way are gone with the page.               *)
LEMMA OidcCallbackIsSafe ==
  ASSUME SessionInv, OidcCallback  PROVE SessionInv'
<1>1. PICK a \in Accounts, t \in Tasks :
          /\ store' = [access |-> Of(a), refresh |-> Of(a), named |-> None,
                       keys |-> None]
          /\ page' = IF a \in server.ready THEN "callback" ELSE "finish"
          /\ task' = [k \in Tasks |->
                IF k = t /\ a \in server.ready
                  THEN [Request("oidc", "profile", a) EXCEPT
                           !.had = [access |-> Of(a), refresh |-> Of(a)],
                           !.access = Of(a), !.refresh = Of(a)]
                  ELSE Idle]
          /\ server' = [server EXCEPT !.known = @ \cup {a}]
  BY DEF OidcCallback
<1> DEFINE q == Request("oidc", "profile", a)
           r == [q EXCEPT !.had = [access |-> Of(a), refresh |-> Of(a)],
                          !.access = Of(a), !.refresh = Of(a)]
<1>2. modal' = Closed /\ UNCHANGED device /\ UserDoes("oidc")
  BY DEF OidcCallback
<1>3. Of(a) \in Secret
  BY OfIsASecret DEF SessionInv
<1>4. ScreenOK'
  BY <1>1, <1>2, <1>3 DEF ScreenOK, Session, Token, Pages, Modals, Closed, Rendered
<1>5. q \in Call /\ q.call = "profile" /\ ~q.refreshing /\ q.kind = "oidc"
  BY RequestIsACall DEF SessionInv
<1>6. r \in Call /\ r.call = "profile" /\ ~r.refreshing /\ r.kind = "oidc"
  BY <1>3, <1>5 DEF Call, Token
<1>7. r \in FittingCalls
  BY <1>6 DEF FittingCalls, Fits
<1>8. task' \in Callbacks /\ OwnMethod(task, device)'
  BY <1>1, <1>6, <1>7, IdleIsNoCall DEF Callbacks, OwnMethod, FittingCalls
<1>9. ServerOK' /\ server'.methods = server.methods
  BY <1>1 DEF SessionInv, ServerOK, Servers
<1> QED  BY <1>2, <1>4, <1>8, <1>9, UserDoesLeaves DEF SessionInv, DevicesOK, OpensOwn

LEMMA ReloadIsSafe ==
  ASSUME SessionInv, Reload  PROVE SessionInv'
<1> DEFINE s == [store EXCEPT !.keys = None]
           open == page = "vaults" /\ IsAuthenticated(s)
<1>1. /\ store' = s /\ page' = (IF open THEN "vaults" ELSE "door")
      /\ modal' = (IF open THEN [open |-> TRUE, user |-> AccountId(s.access),
                                 checking |-> TRUE, start |-> TRUE]
                           ELSE Closed)
      /\ task' = [t \in Tasks |-> Idle] /\ UNCHANGED <<device, server>>
      /\ UserDoes("reload")
  BY DEF Reload
<1>2. s \in Session /\ s.keys = None
  BY DEF SessionInv, ScreenOK, Session, Token
<1>3. AccountId(s.access) \in Accounts \cup {None}
  BY <1>2 DEF AccountId, Session, Token, Secret
<1>4. ScreenOK'
  <2>1. CASE open
    BY <1>1, <1>2, <1>3, <2>1 DEF ScreenOK, Pages, Modals, Rendered, IsAuthenticated
  <2>2. CASE ~open
    BY <1>1, <1>2, <2>2 DEF ScreenOK, Pages, Modals, Rendered, Closed
  <2> QED  BY <2>1, <2>2
<1>5. task' \in Callbacks /\ OwnMethod(task, device)'
  BY <1>1, IdleIsNoCall DEF Callbacks, OwnMethod, FittingCalls
<1> QED
  BY <1>1, <1>4, <1>5, UserDoesLeaves DEF SessionInv, DevicesOK, ServerOK, OpensOwn

LEMMA ParentRendersIsSafe ==
  ASSUME SessionInv, ParentRenders  PROVE SessionInv'
<1>1. /\ modal' = [modal EXCEPT !.start = TRUE] /\ task' = Cancel(task, TRUE)
      /\ UNCHANGED <<store, page, device, server>> /\ modal.open
      /\ UserDoes("render")
  BY DEF ParentRenders
<1>2. modal' \in Modals /\ modal'.open = modal.open
  BY <1>1 DEF SessionInv, ScreenOK, Modals
<1>3. ScreenOK'
  BY <1>1, <1>2 DEF SessionInv, ScreenOK, Rendered, IsAuthenticated, Closed
<1>4. task' \in Callbacks /\ OwnMethod(task', device)
  BY <1>1, CancelKeeps DEF SessionInv, DevicesOK
<1> QED
  BY <1>1, <1>3, <1>4, UserDoesLeaves
  DEF SessionInv, DevicesOK, ServerOK, OpensOwn, OwnMethod

LEMMA GoingIsSafe ==
  ASSUME SessionInv, Go \/ Logout \/ ProfileMissed  PROVE SessionInv'
<1>1. /\ store \in Session /\ SignedOut \in Session /\ page \in Pages
      /\ "door" \in Pages /\ "vaults" \in Pages
      /\ task \in Callbacks /\ OwnMethod(task, device)
      /\ scenario \in Scenarios /\ left \in Nat
  BY DEF SessionInv, ScreenOK, DevicesOK, SignedOut, Session, Token, Pages
<1>2. CASE Go
  BY <1>1, <1>2, UserDoesLeaves, BecomeAloneIsSafe DEF Go
<1>3. CASE Logout
  BY <1>1, <1>3, UserDoesLeaves, BecomeAloneIsSafe DEF Logout
<1>4. CASE ProfileMissed
  BY <1>1, <1>4, BecomeAloneIsSafe DEF ProfileMissed
<1> QED  BY <1>2, <1>3, <1>4

LEMMA RotatedElsewhereIsSafe ==
  ASSUME SessionInv, RotatedElsewhere  PROVE SessionInv'
<1>1. PICK a \in Accounts : Rotate(a)
  BY DEF RotatedElsewhere
<1>2. UNCHANGED <<store, page, modal, device, task>> /\ UserDoes("elsewhere")
  BY DEF RotatedElsewhere
<1>3. /\ ServerOK'
      /\ DOMAIN server'.methods \subseteq DOMAIN server.methods
      /\ \A m \in DOMAIN server'.methods : server'.methods[m] = server.methods[m]
  BY <1>1, RotateKeeps
<1>4. OpensOwn(device, server)'
  BY <1>2, <1>3, FewerMethods
<1>5. ScreenOK' /\ OwnMethod(task, device)'
  BY <1>2 DEF SessionInv, ScreenOK, DevicesOK, OwnMethod, Rendered,
              IsAuthenticated, Closed
<1> QED  BY <1>2, <1>3, <1>4, <1>5, UserDoesLeaves DEF SessionInv, DevicesOK
-----------------------------------------------------------------------------
(* The invariant. *)
THEOREM SessionInvariant == Spec => []SessionInv
<1>1. ASSUME SessionInv, Next PROVE SessionInv'
  BY <1>1, SigningInIsSafe, HandleUnlockIsSafe, StartSilentIsSafe,
     OidcCallbackIsSafe, ReloadIsSafe, ParentRendersIsSafe, GoingIsSafe,
     RotatedElsewhereIsSafe, ServingIsSafe, AnswersAreSafe DEF Next
<1>2. ASSUME SessionInv, UNCHANGED vars PROVE SessionInv'
  BY <1>2 DEF vars, SessionInv, ScreenOK, DevicesOK, ServerOK, OpensOwn, OwnMethod,
              Rendered, IsAuthenticated, Closed
<1>3. SessionInv /\ [Next]_vars => SessionInv'
  BY <1>1, <1>2
<1> QED  BY InitEstablishes, <1>3, PTL DEF Spec

(* Tokens, keys, the screens, what callbacks keep while they wait and what *)
(* the server has keep their shape, and the unlock screen is there only on *)
(* the page of a session without keys (store/auth.ts, UnlockModal.tsx).    *)
THEOREM SessionTypes == Spec => []TypeOK
<1>1. SessionInv => TypeOK
  BY InvariantGivesProperties
<1> QED  BY <1>1, SessionInvariant, PTL

(* Whoever signs in, out or in again while a device is being registered,   *)
(* and whatever fails, the record kept for an account opens that account's *)
(* master key (trustedDevice.ts:28).                                       *)
THEOREM DevicesOpenTheirOwn == Spec => []DeviceOpensOwn
<1>1. SessionInv => DeviceOpensOwn
  BY InvariantGivesProperties
<1> QED  BY <1>1, SessionInvariant, PTL

-----------------------------------------------------------------------------
(* A patient user's tab: whatever it holds or has in flight is of one      *)
(* account, and as soon as one of its tokens is of the present version, so *)
(* are all the keys it holds.                                              *)

Busy(ts) == {t \in Tasks : ts[t] # Idle}

TokensOf(r) == {r.access, r.refresh, r.had.access, r.had.refresh}

TokensIn(s, ts) ==
    ({s.access, s.refresh} \cup UNION {TokensOf(ts[t]) : t \in Busy(ts)}) \ {None}

(* The calls whose answer becomes part of the session.                     *)
Telling == {"profile", "enrol", "bundle", "rotate"}

KeysOf(r) ==
    (IF r.call = "register" THEN {r.key} ELSE {})
      \cup (IF r.call \in Telling /\ ~r.refreshing THEN {r.reply} ELSE {})

KeysIn(s, ts) == ({s.keys} \cup UNION {KeysOf(ts[t]) : t \in Busy(ts)}) \ {None}

(* The names a session has, or will have once a rotation is answered.      *)
Rotating == {"manifest", "rotate"}

NamesIn(s, ts) ==
    ({s.named} \cup {ts[t].user : t \in {k \in Busy(ts) : ts[k].call \in Rotating}})
      \ {None}

(* An answer that holds tokens.                                            *)
Told(r, ver) ==
    /\ r.refreshing /\ r.answered => r.reply = r.refresh
    /\ ~r.refreshing /\ r.reply # None =>
          /\ r.call = "login" => r.reply.acct = r.user
          /\ r.call \in {"login", "rotate"} => r.reply.ver <= ver[r.reply.acct]

Holds(a, s, ts, ver) ==
    /\ NamesIn(s, ts) \subseteq {a}
    /\ \A x \in TokensIn(s, ts) \cup KeysIn(s, ts) : x.acct = a
    /\ \A x \in TokensIn(s, ts) : x.ver <= ver[a]
    /\ \A x \in TokensIn(s, ts), k \in KeysIn(s, ts) :
          x.ver = ver[a] => k.ver = ver[a]
    /\ \A t \in Busy(ts) : Told(ts[t], ver)

(* Where a call of each kind finds the user, and which calls meet.         *)
Alone == {"create", "login", "profile", "enrol"}

AtWork == {"wrapped", "bundle", "register", "save", "manifest", "rotate"}

Finds(c, p) ==
    /\ c \in {"create", "login"} => p = "door"
    /\ c = "profile" => p = "callback"
    /\ c = "enrol" => p = "finish"
    /\ c \in AtWork => p \in {"door", "vaults"}

Meets(p, s, ts) ==
    \A t \in Busy(ts) :
       /\ Finds(ts[t].call, p)
       /\ ts[t].call \in Alone => Busy(ts) = {t}
       /\ ts[t].call \in Rotating =>
            /\ p = "door" \/ s.keys # None
            /\ \A q \in Busy(ts) \ {t} : ts[q].call = "save"

PatientOK ==
    /\ \E a \in Accounts : Holds(a, store, task, server.ver)
    /\ Meets(page, store, task)

PatientInv == scenario.patient /\ Accounts # {} => PatientOK

(* A store and a callback of what the session of account a had already.    *)
Opens(a, s) ==
    /\ {s.access, s.refresh} \subseteq TokensIn(store, task) \cup {None}
    /\ s.keys \in KeysIn(store, task) \cup {None, Of(a)}
    /\ s.named \in {a, None}

Brings(a, r) ==
    /\ TokensOf(r) \subseteq TokensIn(store, task) \cup {None}
    /\ KeysOf(r) \subseteq KeysIn(store, task) \cup {None, Of(a)}
    /\ r.call \in Rotating => r.user \in {a, None}
    /\ Told(r, server.ver)
-----------------------------------------------------------------------------
(* Calls that only lose a flag are the same calls.                         *)
Alike(ts, us) ==
    \A k \in Tasks :
       \/ us[k] = ts[k]
       \/ /\ us[k] # Idle /\ ts[k] # Idle
          /\ us[k].call = ts[k].call /\ us[k].user = ts[k].user
          /\ TokensOf(us[k]) = TokensOf(ts[k]) /\ KeysOf(us[k]) = KeysOf(ts[k])
          /\ \A ver : Told(ts[k], ver) => Told(us[k], ver)

LEMMA CancelIsAlike ==
  ASSUME NEW ts \in Callbacks, NEW own \in BOOLEAN
  PROVE  Alike(ts, Cancel(ts, own))
<1> DEFINE c == Cancel(ts, own)
<1>1. ASSUME NEW k \in Tasks, c[k] # ts[k]
      PROVE  /\ c[k] # Idle /\ ts[k] # Idle
             /\ c[k].call = ts[k].call /\ c[k].user = ts[k].user
             /\ TokensOf(c[k]) = TokensOf(ts[k]) /\ KeysOf(c[k]) = KeysOf(ts[k])
             /\ \A ver : Told(ts[k], ver) => Told(c[k], ver)
  <2>1. ts[k].kind = "silent"
    BY <1>1 DEF Cancel
  <2>2. ts[k] \in Call /\ ts[k] # Idle
    BY <2>1, IdleIsNoCall DEF Callbacks, FittingCalls, Idle
  <2>3. c[k] = [ts[k] EXCEPT !.cancelled = TRUE, !.own = ts[k].own /\ own]
    BY <2>1 DEF Cancel
  <2>4. c[k].kind = "silent" /\ c[k].call = ts[k].call /\ c[k].user = ts[k].user
          /\ c[k].key = ts[k].key /\ c[k].access = ts[k].access
          /\ c[k].refresh = ts[k].refresh /\ c[k].had = ts[k].had
          /\ c[k].refreshing = ts[k].refreshing /\ c[k].reply = ts[k].reply
          /\ c[k].answered = ts[k].answered
    BY <2>1, <2>2, <2>3 DEF Call
  <2>5. TokensOf(c[k]) = TokensOf(ts[k]) /\ KeysOf(c[k]) = KeysOf(ts[k])
    BY <2>4 DEF TokensOf, KeysOf
  <2>6. \A ver : Told(ts[k], ver) => Told(c[k], ver)
    BY <2>4 DEF Told
  <2>7. c[k] # Idle
    BY <2>4 DEF Idle
  <2> QED  BY <2>2, <2>4, <2>5, <2>6, <2>7
<1> QED  BY <1>1 DEF Alike

LEMMA AlikeIsBusyAlike ==
  ASSUME NEW ts, NEW us, Alike(ts, us)
  PROVE  /\ Busy(us) = Busy(ts)
         /\ \A k \in Busy(ts) :
               /\ us[k].call = ts[k].call /\ us[k].user = ts[k].user
               /\ TokensOf(us[k]) = TokensOf(ts[k]) /\ KeysOf(us[k]) = KeysOf(ts[k])
               /\ \A ver : Told(ts[k], ver) => Told(us[k], ver)
  BY DEF Alike, Busy

LEMMA AlikeHoldsAlike ==
  ASSUME NEW ts, NEW us, Alike(ts, us), NEW s
  PROVE  /\ TokensIn(s, us) = TokensIn(s, ts)
         /\ KeysIn(s, us) = KeysIn(s, ts)
         /\ NamesIn(s, us) = NamesIn(s, ts)
         /\ \A a, ver : Holds(a, s, ts, ver) => Holds(a, s, us, ver)
         /\ \A p : Meets(p, s, ts) => Meets(p, s, us)
<1>1. TokensIn(s, us) = TokensIn(s, ts)
  BY AlikeIsBusyAlike DEF TokensIn
<1>2. KeysIn(s, us) = KeysIn(s, ts)
  BY AlikeIsBusyAlike DEF KeysIn
<1>3. NamesIn(s, us) = NamesIn(s, ts)
  BY AlikeIsBusyAlike DEF NamesIn
<1>4. ASSUME NEW p, Meets(p, s, ts)  PROVE Meets(p, s, us)
  BY <1>4, AlikeIsBusyAlike DEF Meets
<1>5. ASSUME NEW a, NEW ver, Holds(a, s, ts, ver)  PROVE Holds(a, s, us, ver)
  <2>1. \A k \in Busy(us) : Told(us[k], ver)
    BY <1>5, AlikeIsBusyAlike DEF Holds
  <2> QED  BY <1>1, <1>2, <1>3, <1>5, <2>1 DEF Holds
<1> QED  BY <1>1, <1>2, <1>3, <1>4, <1>5

LEMMA BecomeIsAlike ==
  ASSUME NEW s, NEW p, NEW ts \in Callbacks, Become(s, p, ts)
  PROVE  /\ Alike(ts, task') /\ store' = s
         /\ page' = IF p = "vaults" /\ ~IsAuthenticated(s) THEN "door" ELSE p
<1>1. task' \in {ts, Cancel(ts, FALSE), Cancel(ts, TRUE)}
  BY DEF Become
<1>2. Alike(ts, ts)
  BY DEF Alike
<1> QED  BY <1>1, <1>2, CancelIsAlike DEF Become

(* Rendering a page moves nobody but those who are shown the door.         *)
LEMMA BecomeHolds ==
  ASSUME NEW s, NEW p, NEW ts \in Callbacks, Become(s, p, ts),
         NEW a, NEW ver, Holds(a, s, ts, ver)
  PROVE  Holds(a, store', task', ver)
  BY BecomeIsAlike, AlikeHoldsAlike

LEMMA BecomeMeets ==
  ASSUME NEW s, NEW p, NEW ts \in Callbacks, Become(s, p, ts),
         NEW was, Meets(p, was, ts),
         s.keys # None \/ s.keys = was.keys \/ ~IsAuthenticated(s)
  PROVE  Meets(page', store', task')
<1>1. Meets(p, was, task') /\ store' = s
        /\ page' = IF p = "vaults" /\ ~IsAuthenticated(s) THEN "door" ELSE p
  BY BecomeIsAlike, AlikeHoldsAlike
<1>2. ASSUME NEW t \in Busy(task')
      PROVE  /\ Finds(task'[t].call, page')
             /\ task'[t].call \in Rotating => page' = "door" \/ s.keys # None
  <2>1. /\ Finds(task'[t].call, p)
        /\ task'[t].call \in Rotating => p = "door" \/ was.keys # None
    BY <1>1, <1>2 DEF Meets
  <2> QED  BY <1>1, <2>1 DEF Finds, AtWork, Rotating
<1> QED  BY <1>1, <1>2 DEF Meets
-----------------------------------------------------------------------------
(* What a session has stays of its account where nothing foreign comes in. *)
LEMMA NothingNew ==
  ASSUME SessionInv, NEW a \in Accounts, Holds(a, store, task, server.ver),
         NEW s, Opens(a, s),
         NEW us, \A k \in Tasks : us[k] # Idle => Brings(a, us[k])
  PROVE  Holds(a, s, us, server.ver)
<1>1. TokensIn(s, us) \subseteq TokensIn(store, task)
  BY DEF TokensIn, Opens, Brings, Busy
<1>2. KeysIn(s, us) \subseteq KeysIn(store, task) \cup {Of(a)}
  BY DEF KeysIn, Opens, Brings, Busy
<1>3. NamesIn(s, us) \subseteq {a}
  BY DEF NamesIn, Opens, Brings, Busy
<1>4. Of(a).acct = a /\ Of(a).ver = server.ver[a]
  BY DEF Of
<1>5. \A k \in Busy(us) : Told(us[k], server.ver)
  BY DEF Busy, Brings
<1> QED  BY <1>1, <1>2, <1>3, <1>4, <1>5 DEF Holds

LEMMA HasAlready ==
  ASSUME NEW a \in Accounts, Holds(a, store, task, server.ver)
  PROVE  /\ Opens(a, store) /\ Opens(a, SignedOut)
         /\ \A k \in Tasks : task[k] # Idle => Brings(a, task[k])
         /\ store.access # None => store.access.acct = a
         /\ \A k \in Tasks : task[k] # Idle /\ task[k].access # None
                => task[k].access.acct = a
<1>1. store.named \in {a, None}
  BY DEF Holds, NamesIn
<1>2. Opens(a, store)
  BY <1>1 DEF Opens, TokensIn, KeysIn
<1>3. Opens(a, SignedOut)
  BY DEF Opens, SignedOut
<1>4. ASSUME NEW k \in Tasks, task[k] # Idle
      PROVE  Brings(a, task[k])
  <2>1. k \in Busy(task)
    BY <1>4 DEF Busy
  <2>2. TokensOf(task[k]) \subseteq TokensIn(store, task) \cup {None}
    BY <2>1 DEF TokensIn
  <2>3. KeysOf(task[k]) \subseteq KeysIn(store, task) \cup {None}
    BY <2>1 DEF KeysIn
  <2>4. task[k].call \in Rotating => task[k].user \in NamesIn(store, task) \cup {None}
    BY <2>1 DEF NamesIn
  <2>5. Told(task[k], server.ver)
    BY <2>1 DEF Holds
  <2> QED  BY <2>2, <2>3, <2>4, <2>5 DEF Brings, Holds
<1>5. store.access # None => store.access.acct = a
  BY DEF Holds, TokensIn
<1>6. ASSUME NEW k \in Tasks, task[k] # Idle, task[k].access # None
      PROVE  task[k].access.acct = a
  BY <1>4, <1>6 DEF Brings, TokensOf, Holds
<1> QED  BY <1>2, <1>3, <1>4, <1>5, <1>6

(* One callback moves on.                                                  *)
LEMMA OneMoves ==
  ASSUME SessionInv, NEW a \in Accounts, Holds(a, store, task, server.ver),
         NEW s, Opens(a, s),
         NEW t \in Tasks, NEW r, r # Idle => Brings(a, r)
  PROVE  Holds(a, s, [task EXCEPT ![t] = r], server.ver)
<1> DEFINE us == [task EXCEPT ![t] = r]
<1>1. \A k \in Tasks : us[k] # Idle => Brings(a, us[k])
  BY HasAlready DEF SessionInv, DevicesOK, Callbacks
<1> QED  BY <1>1, NothingNew

LEMMA OneMeets ==
  ASSUME task \in Callbacks, NEW p, NEW s, Meets(p, s, task), NEW t \in Tasks, NEW r,
         r # Idle =>
            /\ t \in Busy(task) /\ Finds(r.call, p)
            /\ r.call \in Alone => task[t].call \in Alone
            /\ r.call \in Rotating => task[t].call \in Rotating
            /\ task[t].call = "save" => r.call = "save"
  PROVE  Meets(p, s, [task EXCEPT ![t] = r])
<1> DEFINE us == [task EXCEPT ![t] = r]
<1>1. /\ us[t] = r /\ \A k \in Tasks \ {t} : us[k] = task[k]
      /\ Busy(us) = (Busy(task) \ {t}) \cup (IF r = Idle THEN {} ELSE {t})
  BY DEF Callbacks, Busy
<1>2. ASSUME NEW k \in Busy(us)
      PROVE  /\ k \in Busy(task)
             /\ Finds(us[k].call, p)
             /\ us[k].call \in Alone => task[k].call \in Alone
             /\ us[k].call \in Rotating => task[k].call \in Rotating
             /\ task[k].call = "save" => us[k].call = "save"
  BY <1>1, <1>2 DEF Meets, Busy
<1>3. ASSUME NEW k \in Busy(us), us[k].call \in Alone
      PROVE  Busy(us) = {k}
  BY <1>1, <1>2, <1>3 DEF Meets
<1>4. ASSUME NEW k \in Busy(us), us[k].call \in Rotating
      PROVE  /\ p = "door" \/ s.keys # None
             /\ \A q \in Busy(us) \ {k} : us[q].call = "save"
  BY <1>2, <1>4 DEF Meets
<1>5. Meets(p, s, us)
  <2> HIDE DEF us
  <2> QED  BY <1>2, <1>3, <1>4 DEF Meets
<1> QED  BY <1>5

LEMMA NobodyMeets ==
  ASSUME NEW p, NEW s, NEW ts, Busy(ts) = {}
  PROVE  Meets(p, s, ts)
  BY DEF Meets
-----------------------------------------------------------------------------
(* A step of one callback, which leaves its page or is shown the door.     *)
Follows(t, r) ==
    r # Idle =>
       /\ task[t] # Idle /\ Finds(r.call, page)
       /\ r.call \in Alone => task[t].call \in Alone
       /\ r.call \in Rotating => task[t].call \in Rotating
       /\ task[t].call = "save" => r.call = "save"

LEMMA MovesOn ==
  ASSUME SessionInv, NEW a \in Accounts, Holds(a, store, task, server.ver),
         Meets(page, store, task), NEW s, Opens(a, s), NEW t \in Tasks, NEW r,
         [task EXCEPT ![t] = r] \in Callbacks,
         r # Idle => Brings(a, r), Follows(t, r),
         \/ /\ Become(s, page, [task EXCEPT ![t] = r])
            /\ s.keys # None \/ s.keys = store.keys \/ ~IsAuthenticated(s)
         \/ s = store /\ task' = [task EXCEPT ![t] = r] /\ UNCHANGED <<store, page>>,
         server'.ver = server.ver
  PROVE  PatientOK'
<1> DEFINE us == [task EXCEPT ![t] = r]
<1>1. Holds(a, s, us, server.ver)
  BY OneMoves
<1>2. Meets(page, store, us)
  BY OneMeets DEF Follows, Busy, SessionInv, DevicesOK
<1>3. Holds(a, store', task', server.ver) /\ Meets(page', store', task')
  <2>1. CASE Become(s, page, us)
               /\ (s.keys # None \/ s.keys = store.keys \/ ~IsAuthenticated(s))
    BY <1>1, <1>2, <2>1, BecomeHolds, BecomeMeets
  <2>2. CASE s = store /\ task' = us /\ UNCHANGED <<store, page>>
    BY <1>1, <1>2, <2>2
  <2> QED  BY <2>1, <2>2
<1> QED  BY <1>3 DEF PatientOK

(* A page that is reached with nothing under way.                          *)
LEMMA Arrives ==
  ASSUME NEW a \in Accounts, NEW s, NEW ts \in Callbacks, Busy(ts) = {},
         Holds(a, s, ts, server'.ver), NEW p, Become(s, p, ts)
  PROVE  PatientOK'
<1>1. Holds(a, store', task', server'.ver)
  BY BecomeHolds
<1>2. Busy(task') = {}
  BY BecomeIsAlike, AlikeIsBusyAlike
<1> QED  BY <1>1, <1>2, NobodyMeets DEF PatientOK

LEMMA AloneEnds ==
  ASSUME SessionInv, NEW t \in Tasks, task[t] # Idle, Meets(page, store, task),
         task[t].call \in Alone
  PROVE  /\ Ends(t) \in Callbacks /\ Busy(Ends(t)) = {}
         /\ \A k \in Tasks : Ends(t)[k] = Idle
<1>1. Ends(t) \in Callbacks
  BY EndsKeeps DEF SessionInv, DevicesOK
<1>2. Busy(task) = {t}
  BY DEF Meets, Busy
<1>3. \A k \in Tasks : Ends(t)[k] = Idle
  BY <1>2 DEF Ends, Busy, SessionInv, DevicesOK, Callbacks
<1> QED  BY <1>1, <1>3 DEF Busy

LEMMA StoppedIsPatient ==
  ASSUME SessionInv, PatientOK, NEW t \in Tasks, task[t] # Idle,
         NEW s \in {store, SignedOut}, StopWaiting(t, s), server'.ver = server.ver
  PROVE  PatientOK'
<1>1. PICK a \in Accounts : Holds(a, store, task, server.ver)
  BY DEF PatientOK
<1>2. /\ Meets(page, store, task) /\ Ends(t) \in Callbacks
      /\ task[t] \in FittingCalls /\ store \in Session /\ SignedOut \in Session
  BY EndsKeeps DEF PatientOK, SessionInv, DevicesOK, Callbacks, ScreenOK,
                   SignedOut, Session, Token
<1>3. Opens(a, s) /\ Brings(a, task[t])
  BY <1>1, HasAlready
<1>4. Follows(t, Idle)
  BY DEF Follows
<1>5. CASE task[t].kind = "unlock" /\ task[t].call = "register"
  <2> DEFINE k == [s EXCEPT !.keys = task[t].key]
  <2>1. Become(k, page, Ends(t))
    BY <1>5 DEF StopWaiting
  <2>2. task[t].key \in Secret /\ task[t].key # None
    BY <1>2, <1>5, SessionAssumption DEF FittingCalls, Fits, Secret
  <2>3. k.keys = task[t].key /\ k.access = s.access /\ k.refresh = s.refresh
          /\ k.named = s.named
    BY <1>2 DEF Session
  <2>4. Opens(a, k)
    BY <1>3, <1>5, <2>3 DEF Opens, Brings, KeysOf
  <2> HIDE DEF k
  <2> QED  BY <1>1, <1>2, <1>4, <2>1, <2>2, <2>3, <2>4, MovesOn DEF Ends
<1>6. CASE ~(task[t].kind = "unlock" /\ task[t].call = "register") /\ s = store
  BY <1>1, <1>2, <1>3, <1>4, <1>6, MovesOn DEF Ends, StopWaiting
<1>7. CASE ~(task[t].kind = "unlock" /\ task[t].call = "register") /\ s # store
  <2>1. Become(s, page, Ends(t)) /\ ~IsAuthenticated(s)
    BY <1>7 DEF StopWaiting, SignedOut, IsAuthenticated
  <2> QED  BY <1>1, <1>2, <1>3, <1>4, <2>1, MovesOn DEF Ends
<1> QED  BY <1>5, <1>6, <1>7

LEMMA RegisteredIsPatient ==
  ASSUME SessionInv, PatientOK, NEW t \in Tasks, Registered(t)  PROVE PatientOK'
<1> DEFINE r == NextCall(task[t], "login")
<1>1. PICK a \in Accounts : Holds(a, store, task, server.ver)
  BY DEF PatientOK
<1>2. /\ task[t] # Idle /\ task[t].call = "create" /\ task[t] \in FittingCalls
      /\ task[t] \in Call /\ ~task[t].refreshing /\ Meets(page, store, task)
      /\ task' = [task EXCEPT ![t] = r] /\ UNCHANGED <<store, page, server>>
  BY WhatIsHeard DEF Registered, PatientOK
<1>3. Opens(a, store) /\ Brings(a, task[t])
  BY <1>1, <1>2, HasAlready
<1>4. /\ r \in Call /\ r.call = "login" /\ r.user = task[t].user
      /\ r.kind = task[t].kind /\ r.refreshing = task[t].refreshing
      /\ r.remember = task[t].remember
  BY <1>2, NextCallIsACall DEF SessionInv
<1>5. /\ r.access = store.access /\ r.refresh = store.refresh
      /\ r.had = task[t].had /\ r.reply = None
  BY <1>2 DEF NextCall, Call
<1>6. Brings(a, r)
  BY <1>2, <1>3, <1>4, <1>5
  DEF Brings, TokensOf, KeysOf, Telling, Rotating, Told, Opens
<1>7. r \in FittingCalls
  BY <1>2, <1>4 DEF FittingCalls, Fits
<1>8. Follows(t, r)
  BY <1>2, <1>4 DEF Follows, Meets, Busy, Finds, Alone, AtWork, Rotating
<1>9. [task EXCEPT ![t] = r] \in Callbacks
  BY <1>7 DEF SessionInv, DevicesOK, Callbacks
<1> HIDE DEF r
<1> QED  BY <1>1, <1>2, <1>3, <1>6, <1>8, <1>9, MovesOn DEF PatientOK

(* What holds after a session of one account has begun. *)
LEMMA FreshSession ==
  ASSUME SessionInv, NEW a \in Accounts, NEW v \in Secret, v.acct = a,
         v.ver <= server.ver[a], NEW s, NEW ts,
         {s.access, s.refresh, s.keys} \subseteq {v, None}, s.named \in {a, None},
         \A k \in Tasks : ts[k] # Idle =>
            /\ TokensOf(ts[k]) \subseteq {v, None} /\ KeysOf(ts[k]) \subseteq {None}
            /\ ts[k].call \notin Rotating /\ Told(ts[k], server.ver)
  PROVE  Holds(a, s, ts, server.ver)
<1>1. TokensIn(s, ts) \subseteq {v}
  BY DEF TokensIn, Busy
<1>2. KeysIn(s, ts) \subseteq {v}
  BY DEF KeysIn, Busy
<1>3. NamesIn(s, ts) \subseteq {a}
  BY DEF NamesIn, Busy
<1>4. \A k \in Busy(ts) : Told(ts[k], server.ver)
  BY DEF Busy
<1> QED  BY <1>1, <1>2, <1>3, <1>4 DEF Holds

LEMMA LoggedInIsPatient ==
  ASSUME SessionInv, PatientOK, NEW t \in Tasks, LoggedIn(t)  PROVE PatientOK'
<1> DEFINE a == task[t].user
           v == task[t].reply
           s == SignedInAs(a, v, v)
<1>1. /\ task[t] # Idle /\ task[t].call = "login" /\ task[t] \in FittingCalls
      /\ task[t] \in Call /\ ~task[t].refreshing /\ v # None
      /\ Meets(page, store, task) /\ Become(s, "vaults", Ends(t)) /\ server' = server
  BY WhatIsHeard DEF LoggedIn, PatientOK
<1>2. a \in Accounts /\ v \in Secret
  BY <1>1 DEF FittingCalls, Fits, Call, Token
<1>3. Told(task[t], server.ver)
  BY <1>1 DEF PatientOK, Holds, Busy
<1>4. v.acct = a /\ v.ver <= server.ver[a]
  BY <1>1, <1>3 DEF Told
<1>5. /\ Ends(t) \in Callbacks /\ Busy(Ends(t)) = {}
      /\ \A k \in Tasks : Ends(t)[k] = Idle
  BY <1>1, AloneEnds DEF Alone
<1>6. s.access = v /\ s.refresh = v /\ s.keys = v /\ s.named = a
  BY DEF SignedInAs
<1> HIDE DEF s
<1>7. Holds(a, s, Ends(t), server.ver)
  BY <1>2, <1>4, <1>5, <1>6, FreshSession
<1> QED  BY <1>1, <1>2, <1>5, <1>7, Arrives

(* What the server has told a call that tells of a session. *)
LEMMA WhatIsTold ==
  ASSUME SessionInv, NEW a \in Accounts, Holds(a, store, task, server.ver),
         NEW t \in Tasks, NEW c \in Telling, Heard(t, c)
  PROVE  task[t].reply \in KeysIn(store, task) /\ task[t].reply.acct = a
<1>1. /\ task[t] # Idle /\ task[t].call \in Telling /\ ~task[t].refreshing
      /\ task[t].reply # None
  BY WhatIsHeard
<1>2. task[t].reply \in KeysIn(store, task)
  BY <1>1 DEF KeysIn, KeysOf, Busy
<1> QED  BY <1>2 DEF Holds

(* The tokens of the callback are in no other session's hands. *)
LEMMA ProfileReadIsPatient ==
  ASSUME SessionInv, PatientOK, NEW t \in Tasks, ProfileRead(t)  PROVE PatientOK'
<1> DEFINE s == [store EXCEPT !.access = task[t].had.access,
                              !.refresh = task[t].had.refresh,
                              !.named = task[t].reply.acct]
<1>1. PICK a \in Accounts : Holds(a, store, task, server.ver)
  BY DEF PatientOK
<1>2. /\ task[t] # Idle /\ task[t].call = "profile" /\ Meets(page, store, task)
      /\ task[t].reply.acct = a
  BY <1>1, WhatIsHeard, WhatIsTold DEF ProfileRead, PatientOK, Telling
<1>3. Brings(a, task[t]) /\ Opens(a, store)
  BY <1>1, <1>2, HasAlready
<1>4. Opens(a, s)
  BY <1>2, <1>3 DEF Opens, Brings, TokensOf, SessionInv, ScreenOK, Session
<1>5. /\ Ends(t) \in Callbacks /\ Busy(Ends(t)) = {}
  BY <1>2, AloneEnds DEF Alone
<1>6. Holds(a, s, Ends(t), server.ver)
  BY <1>1, <1>4, OneMoves DEF Ends
<1>7. Become(s, "vaults", Ends(t)) /\ server' = server
  BY DEF ProfileRead
<1> QED  BY <1>5, <1>6, <1>7, Arrives

LEMMA EnrolledIsPatient ==
  ASSUME SessionInv, PatientOK, NEW t \in Tasks, Enrolled(t)  PROVE PatientOK'
<1> DEFINE had == task[t].had
           k == task[t].reply
           named == IF had.access # None /\ had.refresh # None
                      THEN [access |-> had.access, refresh |-> had.refresh,
                            named |-> k.acct]
                      ELSE store
           s == [access |-> named.access, refresh |-> named.refresh,
                 named |-> named.named, keys |-> k]
<1>1. PICK a \in Accounts : Holds(a, store, task, server.ver)
  BY DEF PatientOK
<1>2. /\ task[t] # Idle /\ task[t].call = "enrol" /\ Meets(page, store, task)
      /\ k.acct = a /\ k \in KeysIn(store, task)
  BY <1>1, WhatIsHeard, WhatIsTold DEF Enrolled, PatientOK, Telling
<1>3. Brings(a, task[t]) /\ Opens(a, store)
  BY <1>1, <1>2, HasAlready
<1>4. Become(s, "vaults", Ends(t)) /\ server' = server
  BY DEF Enrolled
<1>5. Opens(a, s)
  BY <1>2, <1>3 DEF Opens, Brings, TokensOf
<1>6. /\ Ends(t) \in Callbacks /\ Busy(Ends(t)) = {}
  BY <1>2, AloneEnds DEF Alone
<1>7. Holds(a, s, Ends(t), server.ver)
  BY <1>1, <1>5, OneMoves DEF Ends
<1> QED  BY <1>4, <1>6, <1>7, Arrives

(* A callback that makes its next call. *)
LEMMA GoesOnPatiently ==
  ASSUME SessionInv, NEW a \in Accounts, Holds(a, store, task, server.ver),
         Meets(page, store, task), NEW t \in Tasks, task[t] # Idle, NEW r, r # Idle,
         \/ task[t].call = "wrapped" /\ r.call = "bundle"
         \/ task[t].call = "bundle" /\ r.call = "register"
         \/ task[t].call = "manifest" /\ r.call = "rotate",
         r.access = store.access, r.refresh = store.refresh, r.had = task[t].had,
         r.user = task[t].user, r.reply = None, ~r.refreshing,
         r.call = "register" => r.key \in KeysIn(store, task),
         task' = [task EXCEPT ![t] = r], task' \in Callbacks,
         UNCHANGED <<store, page, server>>
  PROVE  PatientOK'
<1>1. Opens(a, store) /\ Brings(a, task[t])
  BY HasAlready
<1>2. TokensOf(r) \subseteq TokensIn(store, task) \cup {None}
  BY <1>1 DEF Brings, TokensOf, Opens
<1>3. KeysOf(r) \subseteq KeysIn(store, task) \cup {None}
  BY DEF KeysOf
<1>4. r.call \in Rotating => task[t].call \in Rotating
  BY DEF Rotating
<1>5. r.call \in Rotating => r.user \in {a, None}
  BY <1>1, <1>4 DEF Brings
<1>6. Told(r, server.ver)
  BY DEF Told
<1>7. Brings(a, r)
  BY <1>2, <1>3, <1>5, <1>6 DEF Brings
<1>8. Finds(task[t].call, page)
  BY DEF Meets, Busy
<1>9. Follows(t, r)
  BY <1>4, <1>8 DEF Follows, Finds, Alone, AtWork
<1> QED  BY <1>1, <1>7, <1>9, MovesOn

(* The device's own unlock, and the passphrase's. *)
LEMMA WrappedIsPatient ==
  ASSUME SessionInv, PatientOK, NEW t \in Tasks, WrappedMasterKey(t)
  PROVE  PatientOK'
<1> DEFINE q == NextCall(task[t], "bundle")
           r == [q EXCEPT !.key = task[t].reply]
<1>1. PICK a \in Accounts : Holds(a, store, task, server.ver)
  BY DEF PatientOK
<1>2. /\ task[t] # Idle /\ task[t].call = "wrapped" /\ task[t] \in FittingCalls
      /\ task[t] \in Call /\ ~task[t].refreshing
      /\ Ends(t) \in Callbacks /\ Meets(page, store, task)
      /\ UNCHANGED <<store, page, server>>
  BY WhatIsHeard, EndsKeeps
  DEF WrappedMasterKey, SessionInv, DevicesOK, PatientOK, EndSilent
<1>3. CASE EndSilent(t)
  BY <1>1, <1>2, <1>3, HasAlready, MovesOn DEF Ends, Follows, EndSilent
<1>4. CASE task' = [task EXCEPT ![t] = r]
  <2>1. /\ q \in Call /\ q.call = "bundle" /\ q.user = task[t].user
        /\ ~q.refreshing /\ q.reply = None
        /\ q.access = store.access /\ q.refresh = store.refresh /\ q.had = task[t].had
    BY <1>2, NextCallIsACall, NextCallAsks DEF SessionInv
  <2>2. /\ r.call = "bundle" /\ r.user = task[t].user /\ ~r.refreshing
        /\ r.reply = None /\ r.access = store.access /\ r.refresh = store.refresh
        /\ r.had = task[t].had /\ DOMAIN r = DOMAIN q
    BY <2>1 DEF Call
  <2>3. task' \in Callbacks /\ r # Idle
    BY <2>1, <2>2, WrappedMasterKeyIsSafe DEF SessionInv, DevicesOK, Idle, Call
  <2> HIDE DEF r
  <2> QED  BY <1>1, <1>2, <1>4, <2>2, <2>3, GoesOnPatiently
<1> QED  BY <1>3, <1>4 DEF WrappedMasterKey

(* The keys that a callback opens the session with.                        *)
LEMMA KeyedIsPatient ==
  ASSUME SessionInv, NEW a \in Accounts, Holds(a, store, task, server.ver),
         Meets(page, store, task), NEW t \in Tasks,
         NEW k \in KeysIn(store, task),
         Become([store EXCEPT !.keys = k], page, Ends(t)), server'.ver = server.ver
  PROVE  PatientOK'
<1> DEFINE s == [store EXCEPT !.keys = k]
<1>1. s.keys = k /\ s.access = store.access /\ s.refresh = store.refresh
        /\ s.named = store.named
  BY DEF SessionInv, ScreenOK, Session
<1>2. k # None
  BY DEF KeysIn
<1>3. Opens(a, s)
  BY <1>1, HasAlready DEF Opens
<1>4. Ends(t) \in Callbacks
  BY EndsKeeps DEF SessionInv, DevicesOK
<1> HIDE DEF s
<1> QED  BY <1>1, <1>2, <1>3, <1>4, MovesOn DEF Ends, Follows, s

LEMMA SilentBundleIsPatient ==
  ASSUME SessionInv, PatientOK, NEW t \in Tasks, SilentBundle(t)
  PROVE  PatientOK'
<1>1. PICK a \in Accounts : Holds(a, store, task, server.ver)
  BY DEF PatientOK
<1>2. /\ task[t].reply \in KeysIn(store, task) /\ Meets(page, store, task)
      /\ server' = server /\ Opens(a, store) /\ Ends(t) \in Callbacks
  BY <1>1, WhatIsTold, HasAlready, EndsKeeps
  DEF SilentBundle, Telling, PatientOK, SessionInv, DevicesOK
<1>3. CASE task[t].key = task[t].reply
  BY <1>1, <1>2, <1>3, KeyedIsPatient DEF SilentBundle
<1>4. CASE task[t].key # task[t].reply
  BY <1>1, <1>2, <1>4, MovesOn DEF Ends, Follows, EndSilent, SilentBundle
<1> QED  BY <1>3, <1>4

LEMMA UnlockBundleIsPatient ==
  ASSUME SessionInv, PatientOK, NEW t \in Tasks, UnlockBundle(t)
  PROVE  PatientOK'
<1> DEFINE k == task[t].reply
           q == NextCall(task[t], "register")
<1>1. PICK a \in Accounts : Holds(a, store, task, server.ver)
  BY DEF PatientOK
<1>2. /\ task[t] # Idle /\ task[t].call = "bundle" /\ task[t] \in Call
      /\ ~task[t].refreshing /\ k \in KeysIn(store, task)
      /\ Meets(page, store, task) /\ server' = server
  BY <1>1, WhatIsHeard, WhatIsTold DEF UnlockBundle, Telling, PatientOK
<1>3. CASE StopWaiting(t, store)
  BY <1>2, <1>3, StoppedIsPatient
<1>4. CASE Become([store EXCEPT !.keys = k], page, Ends(t))
  BY <1>1, <1>2, <1>4, KeyedIsPatient
<1>5. ASSUME NEW m, task' = [task EXCEPT ![t] = [q EXCEPT !.key = k, !.method = m]],
             UNCHANGED <<store, page>>
      PROVE  PatientOK'
  <2> DEFINE r == [q EXCEPT !.key = k, !.method = m]
  <2>1. /\ q \in Call /\ q.call = "register" /\ q.user = task[t].user
        /\ ~q.refreshing /\ q.reply = None
        /\ q.access = store.access /\ q.refresh = store.refresh /\ q.had = task[t].had
    BY <1>2, NextCallIsACall, NextCallAsks DEF SessionInv
  <2>2. /\ r.call = "register" /\ r.user = task[t].user /\ ~r.refreshing
        /\ r.reply = None /\ r.access = store.access /\ r.refresh = store.refresh
        /\ r.had = task[t].had /\ r.key = k /\ DOMAIN r = DOMAIN q
    BY <2>1 DEF Call
  <2>3. task' \in Callbacks /\ r # Idle /\ task' = [task EXCEPT ![t] = r]
    BY <1>5, <2>1, <2>2, UnlockBundleIsSafe DEF SessionInv, DevicesOK, Idle, Call
  <2> HIDE DEF r
  <2> QED  BY <1>1, <1>2, <1>5, <2>2, <2>3, GoesOnPatiently
<1> QED  BY <1>3, <1>4, <1>5 DEF UnlockBundle

LEMMA UnlockRegisteredIsPatient ==
  ASSUME SessionInv, PatientOK, NEW t \in Tasks, UnlockRegistered(t)
  PROVE  PatientOK'
<1>1. PICK a \in Accounts : Holds(a, store, task, server.ver)
  BY DEF PatientOK
<1>2. /\ task[t] # Idle /\ task[t].call = "register" /\ task[t].key \in Secret
      /\ Meets(page, store, task)
  BY WhatIsHeard DEF UnlockRegistered, FittingCalls, Fits, PatientOK
<1>3. task[t].key \in KeysIn(store, task)
  BY <1>2, SessionAssumption DEF KeysIn, KeysOf, Busy, Secret
<1> QED  BY <1>1, <1>2, <1>3, KeyedIsPatient DEF UnlockRegistered

LEMMA SavedIsPatient ==
  ASSUME SessionInv, PatientOK, NEW t \in Tasks, Saved(t)  PROVE PatientOK'
<1>1. PICK a \in Accounts : Holds(a, store, task, server.ver)
  BY DEF PatientOK
<1>2. Meets(page, store, task) /\ Opens(a, store) /\ Ends(t) \in Callbacks
  BY <1>1, HasAlready, EndsKeeps DEF PatientOK, SessionInv, DevicesOK
<1> QED  BY <1>1, <1>2, MovesOn DEF Saved, Ends, Follows

(* As soon as the passphrase is another, no token is of its version.       *)
LEMMA TokensAreSecrets ==
  ASSUME SessionInv
  PROVE  \A x \in TokensIn(store, task) : x \in Secret
<1>1. ASSUME NEW t \in Busy(task)  PROVE TokensOf(task[t]) \subseteq Token
  <2>1. task[t] \in Call
    BY <1>1 DEF SessionInv, DevicesOK, Callbacks, FittingCalls, Busy
  <2> QED  BY <2>1 DEF Call, TokensOf
<1>2. store.access \in Token /\ store.refresh \in Token
  BY DEF SessionInv, ScreenOK, Session
<1> QED  BY <1>1, <1>2 DEF TokensIn, Token

LEMMA OldTokens ==
  ASSUME SessionInv, NEW a \in Accounts, NEW b \in Accounts, Rotate(b),
         Holds(a, store, task, server.ver)
  PROVE  /\ Holds(a, store, task, server'.ver)
         /\ server'.ver[b] = server.ver[b] + 1
         /\ \A k \in Busy(task) : Told(task[k], server'.ver)
         /\ \A x \in TokensIn(store, task) : b = a => x.ver < server'.ver[a]
<1>1. server.ver \in [Accounts -> Nat]
  BY DEF SessionInv, ServerOK, Servers
<1>2. server'.ver = [server.ver EXCEPT ![b] = @ + 1]
  BY DEF Rotate, SessionInv, ServerOK, Servers
<1>3. \A x \in TokensIn(store, task) : x.ver \in Nat /\ x.ver <= server.ver[a]
  BY TokensAreSecrets DEF Secret, Holds
<1>4. \A v \in Secret : v.ver <= server.ver[v.acct] => v.ver <= server'.ver[v.acct]
  <2> SUFFICES ASSUME NEW v \in Secret, v.ver <= server.ver[v.acct]
               PROVE  v.ver <= server'.ver[v.acct]
    OBVIOUS
  <2>1. v.ver \in Nat /\ v.acct \in Accounts
    BY DEF Secret
  <2> QED  BY <1>1, <1>2, <2>1
<1>5. ASSUME NEW k \in Busy(task)  PROVE Told(task[k], server'.ver)
  <2>1. Told(task[k], server.ver)
    BY <1>5 DEF Holds
  <2>2. task[k].reply \in Secret \cup {None}
    BY <1>5 DEF SessionInv, DevicesOK, Callbacks, FittingCalls, Busy, Call, Token
  <2> QED  BY <1>4, <2>1, <2>2 DEF Told
<1>6. CASE b = a
  <2>1. \A x \in TokensIn(store, task) : x.ver < server'.ver[a]
    BY <1>1, <1>2, <1>3, <1>6
  <2>2. \A x \in TokensIn(store, task) : x.ver <= server'.ver[a] /\ x.ver # server'.ver[a]
    BY <1>1, <1>2, <1>3, <1>6
  <2>3. Holds(a, store, task, server'.ver)
    BY <1>5, <2>2 DEF Holds
  <2> QED  BY <1>1, <1>2, <1>5, <2>1, <2>3
<1>7. CASE b # a
  <2>1. server'.ver[a] = server.ver[a]
    BY <1>1, <1>2, <1>7
  <2>2. Holds(a, store, task, server'.ver)
    BY <1>5, <2>1 DEF Holds
  <2> QED  BY <1>1, <1>2, <1>5, <1>7, <2>2
<1> QED  BY <1>6, <1>7

LEMMA RotatedElsewhereIsPatient ==
  ASSUME SessionInv, PatientOK, RotatedElsewhere  PROVE PatientOK'
<1>1. PICK b \in Accounts : Rotate(b)
  BY DEF RotatedElsewhere
<1>2. UNCHANGED <<store, page, task>>
  BY DEF RotatedElsewhere
<1> QED  BY <1>1, <1>2, OldTokens DEF PatientOK

(* What is typed for a rotation is nobody's key yet. *)
LEMMA ManifestReadIsPatient ==
  ASSUME SessionInv, PatientOK, NEW t \in Tasks, ManifestRead(t)
  PROVE  PatientOK'
<1> DEFINE q == NextCall(task[t], "rotate")
           r == [q EXCEPT !.key = task[t].reply]
<1>1. PICK a \in Accounts : Holds(a, store, task, server.ver)
  BY DEF PatientOK
<1>2. /\ task[t] # Idle /\ task[t].call = "manifest" /\ task[t] \in Call
      /\ ~task[t].refreshing /\ Meets(page, store, task) /\ UNCHANGED server
  BY WhatIsHeard DEF ManifestRead, PatientOK
<1>3. CASE StopWaiting(t, store)
  BY <1>2, <1>3, StoppedIsPatient
<1>4. CASE task' = [task EXCEPT ![t] = r] /\ UNCHANGED <<store, page>>
  <2>1. /\ q \in Call /\ q.call = "rotate" /\ q.user = task[t].user
        /\ ~q.refreshing /\ q.reply = None
        /\ q.access = store.access /\ q.refresh = store.refresh /\ q.had = task[t].had
    BY <1>2, NextCallIsACall, NextCallAsks DEF SessionInv
  <2>2. /\ r.call = "rotate" /\ r.user = task[t].user /\ ~r.refreshing
        /\ r.reply = None /\ r.access = store.access /\ r.refresh = store.refresh
        /\ r.had = task[t].had /\ DOMAIN r = DOMAIN q
    BY <2>1 DEF Call
  <2>3. task' \in Callbacks /\ r # Idle
    BY <2>1, <2>2, ManifestReadIsSafe DEF SessionInv, DevicesOK, Idle, Call
  <2> HIDE DEF r
  <2> QED  BY <1>1, <1>2, <1>4, <2>2, <2>3, GoesOnPatiently
<1> QED  BY <1>3, <1>4 DEF ManifestRead

(* Only saves are under way besides: what opens the session is the new key *)
(* alone.                                                                  *)
LEMMA RotatedIsPatient ==
  ASSUME SessionInv, PatientOK, NEW t \in Tasks, Rotated(t)  PROVE PatientOK'
<1> DEFINE r == task[t]
           new == r.reply
           z == IF r.user = None THEN [store EXCEPT !.keys = new]
                ELSE SignedInAs(r.user, new, new)
<1>1. PICK a \in Accounts : Holds(a, store, task, server.ver)
  BY DEF PatientOK
<1>2. /\ r # Idle /\ r.call = "rotate" /\ ~r.refreshing /\ new # None
      /\ Meets(page, store, task) /\ Become(z, page, Ends(t)) /\ server' = server
      /\ new \in KeysIn(store, task) /\ new.acct = a
  BY <1>1, WhatIsHeard, WhatIsTold DEF Rotated, Telling, PatientOK
<1>3. Told(r, server.ver) /\ Ends(t) \in Callbacks
  BY <1>1, <1>2, EndsKeeps DEF Holds, Busy, SessionInv, DevicesOK
<1>4. new.ver <= server.ver[a]
  BY <1>2, <1>3 DEF Told
<1>5. /\ z.keys = new /\ {z.access, z.refresh} \subseteq {store.access, store.refresh, new}
      /\ z.named \in {store.named, r.user}
  BY DEF SignedInAs, SessionInv, ScreenOK, Session
<1>6. /\ Busy(Ends(t)) \subseteq Busy(task)
      /\ \A k \in Busy(Ends(t)) : Ends(t)[k] = task[k] /\ task[k].call = "save"
  <2>1. \A k \in Busy(task) \ {t} : task[k].call = "save"
    BY <1>2 DEF Meets, Busy, Rotating
  <2> QED  BY <2>1 DEF Ends, Busy, SessionInv, DevicesOK, Callbacks
<1>7. TokensIn(z, Ends(t)) \subseteq TokensIn(store, task) \cup {new}
  BY <1>5, <1>6 DEF TokensIn
<1>8. KeysIn(z, Ends(t)) \subseteq {new}
  BY <1>5, <1>6 DEF KeysIn, KeysOf, Telling
<1>9. NamesIn(z, Ends(t)) \subseteq {a}
  <2>1. NamesIn(z, Ends(t)) \subseteq NamesIn(store, task)
    BY <1>2, <1>5, <1>6 DEF NamesIn, Busy, Rotating
  <2> QED  BY <1>1, <2>1 DEF Holds
<1>10. \A k \in Busy(Ends(t)) : Told(Ends(t)[k], server.ver)
  BY <1>1, <1>6 DEF Holds
<1> HIDE DEF new, z
<1>11. Holds(a, z, Ends(t), server.ver)
  BY <1>1, <1>2, <1>4, <1>7, <1>8, <1>9, <1>10 DEF Holds
<1>12. Meets(page, store, Ends(t))
  BY <1>2, OneMeets DEF Ends, SessionInv, DevicesOK
<1>13. Holds(a, store', task', server.ver)
  BY <1>2, <1>3, <1>11, BecomeHolds
<1>14. Meets(page', store', task')
  BY <1>2, <1>3, <1>5, <1>12, BecomeMeets
<1> QED  BY <1>2, <1>13, <1>14 DEF PatientOK

(* A token that is renewed. *)
LEMMA UnauthorizedIsPatient ==
  ASSUME SessionInv, PatientOK, NEW t \in Tasks, Unauthorized(t)
  PROVE  PatientOK'
<1>1. PICK a \in Accounts : Holds(a, store, task, server.ver)
  BY DEF PatientOK
<1>2. /\ task[t] # Idle /\ task[t] \in Call /\ Meets(page, store, task)
      /\ ~task[t].answered /\ ~task[t].refreshing /\ server' = server
  BY NotIdle DEF Unauthorized, Idle, SessionInv, DevicesOK, PatientOK
<1>3. Brings(a, task[t]) /\ Opens(a, store)
  BY <1>1, <1>2, HasAlready
<1> DEFINE r == [task[t] EXCEPT !.refreshing = TRUE]
<1>4. CASE task' = [task EXCEPT ![t].refreshing = TRUE] /\ UNCHANGED <<store, page>>
  <2>1. task' = [task EXCEPT ![t] = r]
    BY <1>4 DEF SessionInv, DevicesOK, Callbacks
  <2>2. /\ r.call = task[t].call /\ TokensOf(r) = TokensOf(task[t])
        /\ r.key = task[t].key /\ r.user = task[t].user
        /\ r.refreshing = TRUE /\ ~r.answered
    BY <1>2 DEF Call, TokensOf
  <2>3. Brings(a, r)
    BY <1>3, <2>2 DEF Brings, KeysOf, Told
  <2>4. Follows(t, r)
    BY <1>2, <2>2 DEF Follows, Meets, Busy
  <2>5. task' \in Callbacks
    BY UnauthorizedIsSafe DEF SessionInv, DevicesOK
  <2> HIDE DEF r
  <2> QED  BY <1>1, <1>2, <1>3, <1>4, <2>1, <2>3, <2>4, <2>5, MovesOn
<1>5. CASE StopWaiting(t, store)
  BY <1>2, <1>5, StoppedIsPatient
<1> QED  BY <1>4, <1>5 DEF Unauthorized

LEMMA TryRefreshIsPatient ==
  ASSUME SessionInv, PatientOK, NEW t \in Tasks, TryRefresh(t)
  PROVE  PatientOK'
<1> DEFINE new == task[t].reply
           r == [task[t] EXCEPT !.refreshing = FALSE, !.retry = FALSE, !.access = new,
                                !.answered = FALSE, !.reply = None]
           s == [store EXCEPT !.access = new]
<1>1. PICK a \in Accounts : Holds(a, store, task, server.ver)
  BY DEF PatientOK
<1>2. /\ task[t] # Idle /\ task[t] \in FittingCalls /\ task[t] \in Call
      /\ task[t].refreshing /\ task[t].answered
      /\ Meets(page, store, task) /\ server' = server
  BY NotIdle DEF TryRefresh, Idle, SessionInv, DevicesOK, PatientOK
<1>3. Brings(a, task[t]) /\ Opens(a, store)
  BY <1>1, <1>2, HasAlready
<1>4. new = task[t].refresh
  BY <1>2, <1>3 DEF Brings, Told
<1>5. /\ r.call = task[t].call /\ r.kind = task[t].kind
      /\ TokensOf(r) \subseteq TokensOf(task[t])
      /\ r.key = task[t].key /\ r.user = task[t].user
      /\ ~r.refreshing /\ ~r.answered /\ r.reply = None
  BY <1>2, <1>4 DEF Call, TokensOf
<1>6. Brings(a, r) /\ Follows(t, r)
  <2>1. KeysOf(r) \subseteq KeysOf(task[t]) \cup {None}
    BY <1>5 DEF KeysOf
  <2>2. Told(r, server.ver)
    BY <1>5 DEF Told
  <2> QED  BY <1>2, <1>3, <1>5, <2>1, <2>2 DEF Brings, Follows, Meets, Busy
<1>7. /\ s.access = new /\ s.refresh = store.refresh /\ s.named = store.named
      /\ s.keys = store.keys
  BY DEF SessionInv, ScreenOK, Session
<1>8. Opens(a, s)
  BY <1>3, <1>4, <1>7 DEF Opens, Brings, TokensOf
<1>9. [task EXCEPT ![t].refreshing = FALSE, ![t].retry = FALSE, ![t].access = new,
                   ![t].answered = FALSE, ![t].reply = None]
        = [task EXCEPT ![t] = r]
  BY DEF SessionInv, DevicesOK, Callbacks
<1>10. Become(s, page, [task EXCEPT ![t] = r])
  BY <1>9 DEF TryRefresh
<1>11. [task EXCEPT ![t] = r] \in Callbacks
  <2>1. r \in Call /\ r.method = task[t].method /\ r.remember = task[t].remember
    BY <1>2 DEF Call, Token
  <2> QED  BY <1>2, <1>5, <2>1 DEF FittingCalls, Fits, SessionInv, DevicesOK, Callbacks
<1> HIDE DEF r, s
<1> QED  BY <1>1, <1>2, <1>6, <1>7, <1>8, <1>10, <1>11, MovesOn

LEMMA FailureIsPatient ==
  ASSUME SessionInv, PatientOK, NEW t \in Tasks,
         RefreshFails(t) \/ CallFails(t) \/ Refused(t)
  PROVE  PatientOK'
  BY StoppedIsPatient DEF RefreshFails, CallFails, Refused, Idle

LEMMA AnswersArePatient ==
  ASSUME SessionInv, PatientOK, NEW t \in Tasks, Answer(t)  PROVE PatientOK'
  BY RegisteredIsPatient, LoggedInIsPatient, ProfileReadIsPatient, EnrolledIsPatient,
     WrappedIsPatient, SilentBundleIsPatient, UnlockBundleIsPatient,
     UnlockRegisteredIsPatient, SavedIsPatient, ManifestReadIsPatient,
     RotatedIsPatient, UnauthorizedIsPatient, TryRefreshIsPatient,
     FailureIsPatient DEF Answer
-----------------------------------------------------------------------------
(* What the server does and says.                                          *)

LEMMA SaysIsPatient ==
  ASSUME SessionInv, PatientOK, NEW t \in Tasks, task[t] # Idle,
         task[t] \in FittingCalls, NEW x \in Token, Says(t, x), server'.ver = server.ver,
         task[t].refreshing => x = task[t].refresh,
         ~task[t].refreshing /\ task[t].call \in Telling =>
            /\ task[t].access # None /\ x \in {None, Of(Caller(t))}
            /\ task[t].call = "rotate" => x = None,
         ~task[t].refreshing /\ task[t].call = "login" => x = Of(task[t].user)
  PROVE  PatientOK'
<1> DEFINE r == [task[t] EXCEPT !.answered = TRUE, !.reply = x]
<1>1. PICK a \in Accounts : Holds(a, store, task, server.ver)
  BY DEF PatientOK
<1>2. Meets(page, store, task) /\ Brings(a, task[t]) /\ Opens(a, store)
  BY <1>1, HasAlready DEF PatientOK
<1>3. /\ task' = [task EXCEPT ![t] = r] /\ task' \in Callbacks
      /\ UNCHANGED <<store, page>>
  BY SaysKeeps
<1>4. /\ r.call = task[t].call /\ r.user = task[t].user /\ r.key = task[t].key
      /\ r.refreshing = task[t].refreshing /\ r.reply = x
      /\ r.refresh = task[t].refresh /\ TokensOf(r) = TokensOf(task[t])
  BY AnswerIsACall DEF TokensOf
<1>5. ~task[t].refreshing /\ task[t].call \in Telling => Caller(t) = a
  BY <1>1, HasAlready DEF Caller
<1>6. KeysOf(r) \subseteq KeysOf(task[t]) \cup {None, Of(a)}
  BY <1>4, <1>5 DEF KeysOf
<1>7. Told(r, server.ver)
  <2>1. task[t].call = "login" /\ ~task[t].refreshing =>
           x.acct = task[t].user /\ x.ver <= server.ver[x.acct]
    <3>1. task[t].call = "login" => task[t].user \in Accounts
      BY DEF FittingCalls, Fits
    <3> QED  BY <3>1 DEF Of, SessionInv, ServerOK, Servers
  <2>2. ~task[t].refreshing /\ task[t].call = "rotate" => x = None
    BY DEF Telling
  <2> QED  BY <1>4, <2>1, <2>2 DEF Told
<1> HIDE DEF r
<1>8. Brings(a, r)
  BY <1>2, <1>4, <1>6, <1>7 DEF Brings
<1>9. Follows(t, r)
  BY <1>2, <1>4 DEF Follows, Meets, Busy
<1> QED  BY <1>1, <1>2, <1>3, <1>8, <1>9, MovesOn

LEMMA ServerReadsIsPatient ==
  ASSUME SessionInv, PatientOK, NEW t \in Tasks, ServerReads(t)  PROVE PatientOK'
<1>1. PICK c \in {"login", "profile", "save", "bundle", "manifest", "wrapped"} :
        Asked(t, c)
  BY DEF ServerReads
<1>2. /\ task[t] \in FittingCalls /\ task[t] \in Call /\ task[t].call = c
      /\ ~task[t].refreshing /\ task[t] # Idle
      /\ Accepts(task[t]) /\ Says(t, Found(task[t])) /\ server'.ver = server.ver
  BY <1>1, WhatIsAsked DEF ServerReads
<1>3. /\ Found(task[t]) \in Token
      /\ c = "login" => Found(task[t]) = Of(task[t].user)
      /\ c \in {"profile", "bundle"} => Found(task[t]) \in {None, Of(Caller(t))}
  BY <1>2, FoundIsAToken DEF Caller
<1>4. c \in Telling => c \in {"profile", "bundle"} /\ task[t].access # None
  BY <1>2 DEF Telling, Accepts
<1> QED  BY <1>2, <1>3, <1>4, SaysIsPatient

LEMMA ServerOpensIsPatient ==
  ASSUME SessionInv, PatientOK, NEW t \in Tasks, ServerCreates(t) \/ ServerEnrols(t)
  PROVE  PatientOK'
<1>1. /\ task[t] \in FittingCalls /\ task[t] \in Call /\ task[t] # Idle
      /\ ~task[t].refreshing /\ server'.ver = server.ver
  BY ServerOpensIsSafe DEF FittingCalls
<1>2. CASE task[t].call = "create" /\ task[t].user \in Accounts
             /\ (Says(t, None) \/ Says(t, Of(task[t].user)))
  <2>1. PICK x \in Token : Says(t, x)
    BY <1>2, OfIsASecret DEF SessionInv, Token
  <2> QED  BY <1>1, <1>2, <2>1, SaysIsPatient DEF Telling
<1>3. CASE task[t].call = "enrol" /\ task[t].access # None
             /\ (Says(t, None) \/ Says(t, Of(Caller(t))))
  <2>1. Caller(t) \in Accounts
    BY <1>1, <1>3 DEF Caller, Call, Token, Secret
  <2>2. PICK x \in {None, Of(Caller(t))} : x \in Token /\ Says(t, x)
    BY <1>3, <2>1, OfIsASecret DEF SessionInv, Token
  <2> QED  BY <1>1, <1>3, <2>2, SaysIsPatient
<1> QED  BY <1>2, <1>3, ServerOpensIsSafe

LEMMA ServerRegistersIsPatient ==
  ASSUME SessionInv, PatientOK, NEW t \in Tasks, ServerRegisters(t)
  PROVE  PatientOK'
<1>1. /\ task[t] \in FittingCalls /\ task[t] \in Call /\ task[t] # Idle
      /\ ~task[t].refreshing /\ task[t].call = "register"
      /\ Says(t, task[t].key) /\ server' = WithMethod(task[t])
  BY WhatIsAsked DEF ServerRegisters
<1>2. server'.ver = server.ver
  BY <1>1 DEF WithMethod, SessionInv, ServerOK, Servers
<1> QED  BY <1>1, <1>2, SaysIsPatient DEF Telling, Call

LEMMA ServerRenewsIsPatient ==
  ASSUME SessionInv, PatientOK, NEW t \in Tasks, ServerRenews(t)
  PROVE  PatientOK'
<1>1. /\ task[t] \in FittingCalls /\ task[t] \in Call /\ task[t] # Idle
  BY NotIdle DEF SessionInv, DevicesOK, ServerRenews, Idle
<1>2. /\ task[t].refreshing /\ Says(t, task[t].refresh) /\ server' = server
      /\ task[t].refresh \in Token
  BY <1>1 DEF ServerRenews, Call
<1> QED  BY <1>1, <1>2, SaysIsPatient

(* No token that anybody has is of the version a rotation leaves behind.   *)
LEMMA ServerRotatesIsPatient ==
  ASSUME SessionInv, PatientOK, NEW t \in Tasks, ServerRotates(t)
  PROVE  PatientOK'
<1> DEFINE b == Caller(t)
           new == [acct |-> b, ver |-> server.ver[b] + 1]
           r == [task[t] EXCEPT !.answered = TRUE, !.reply = new]
<1>1. PICK a \in Accounts : Holds(a, store, task, server.ver)
  BY DEF PatientOK
<1>2. /\ task[t] \in FittingCalls /\ task[t] \in Call /\ task[t] # Idle
      /\ task[t].call = "rotate" /\ ~task[t].refreshing /\ task[t].access # None
      /\ Meets(page, store, task) /\ t \in Busy(task)
  BY WhatIsAsked DEF ServerRotates, Accepts, PatientOK, Busy
<1>3. b = a
  BY <1>1, <1>2, HasAlready DEF Caller
<1>4. CASE Says(t, None) /\ UNCHANGED server
  BY <1>2, <1>4, SaysIsPatient DEF Token, Telling
<1>5. CASE Rotate(b) /\ Says(t, new)
  <2>1. /\ Holds(a, store, task, server'.ver) /\ server'.ver[a] = server.ver[a] + 1
        /\ \A k \in Busy(task) : Told(task[k], server'.ver)
        /\ \A x \in TokensIn(store, task) : x.ver < server'.ver[a]
    BY <1>1, <1>3, <1>5, OldTokens
  <2>2. new \in Secret /\ new.acct = a /\ new.ver = server'.ver[a]
    BY <1>3, <1>5, <2>1, RotateKeeps
  <2>3. /\ task' = [task EXCEPT ![t] = r] /\ task' \in Callbacks
        /\ UNCHANGED <<store, page>>
    BY <1>2, <1>5, <2>2, SaysKeeps DEF Token
  <2> HIDE DEF new
  <2>4. /\ r.call = "rotate" /\ r.user = task[t].user /\ r.reply = new
        /\ ~r.refreshing /\ TokensOf(r) = TokensOf(task[t]) /\ r # Idle
    <3>1. /\ r.call = task[t].call /\ r.user = task[t].user /\ r.reply = new
          /\ r.refreshing = task[t].refreshing /\ r.access = task[t].access
          /\ r.refresh = task[t].refresh /\ r.had = task[t].had /\ r \in Call
      <4>1. new \in Token
        BY <2>2 DEF Token
      <4> QED  BY <1>2, <4>1, AnswerIsACall
    <3>2. TokensOf(r) = TokensOf(task[t]) /\ r # Idle
      BY <3>1, IdleIsNoCall DEF TokensOf
    <3> QED  BY <1>2, <3>1, <3>2
  <2> HIDE DEF r
  <2>5. /\ Busy(task') = Busy(task) /\ task'[t] = r
        /\ \A k \in Busy(task) \ {t} : task'[k] = task[k]
    BY <1>2, <2>3, <2>4 DEF Busy, SessionInv, DevicesOK, Callbacks
  <2>6. TokensIn(store, task') = TokensIn(store, task)
    BY <1>2, <2>4, <2>5 DEF TokensIn
  <2>7. KeysIn(store, task') \subseteq KeysIn(store, task) \cup {new}
    BY <2>4, <2>5 DEF KeysIn, KeysOf
  <2>8. NamesIn(store, task') \subseteq NamesIn(store, task)
    BY <1>2, <2>4, <2>5 DEF NamesIn
  <2>9. \A k \in Busy(task') : Told(task'[k], server'.ver)
    <3>1. new.ver <= server'.ver[new.acct]
      BY <2>2 DEF Secret
    <3>2. Told(r, server'.ver)
      BY <2>4, <3>1 DEF Told
    <3> QED  BY <2>1, <2>5, <3>2
  <2>10. Holds(a, store, task', server'.ver)
    <3>1. \A x \in TokensIn(store, task) : x.ver # server'.ver[a]
      BY <2>1, TokensAreSecrets DEF Secret
    <3> QED  BY <2>1, <2>2, <2>6, <2>7, <2>8, <2>9, <3>1 DEF Holds
  <2>11. Meets(page, store, task')
    <3>1. /\ Finds(r.call, page) /\ task \in Callbacks
          /\ r.call \in Alone => task[t].call \in Alone
      BY <1>2, <2>4 DEF Meets, SessionInv, DevicesOK
    <3> QED  BY <1>2, <2>3, <2>4, <3>1, OneMeets
  <2> QED  BY <2>3, <2>10, <2>11 DEF PatientOK
<1> QED  BY <1>4, <1>5 DEF ServerRotates

LEMMA ServingIsPatient ==
  ASSUME SessionInv, PatientOK, NEW t \in Tasks, Serve(t)  PROVE PatientOK'
  BY ServerReadsIsPatient, ServerOpensIsPatient, ServerRegistersIsPatient,
     ServerRotatesIsPatient, ServerRenewsIsPatient DEF Serve
-----------------------------------------------------------------------------
(* What a patient user does.                                               *)

LEMMA QuietIsEmpty == Quiet <=> Busy(task) = {}
  BY DEF Quiet, Busy

(* A call to the server, with the tokens of the session. *)
Asks(t, r) ==
    task[t] = Idle /\ task' = [task EXCEPT ![t] = r] /\ UNCHANGED <<store, page>>

Unanswered(r) == ~r.refreshing /\ ~r.answered /\ r.reply = None

LEMMA AskingHolds ==
  ASSUME SessionInv, NEW a \in Accounts, Holds(a, store, task, server.ver),
         NEW t \in Tasks, NEW r, Asks(t, r), server'.ver = server.ver,
         TokensOf(r) = {store.access, store.refresh}, Unanswered(r),
         r.call # "register", r.call \in Rotating => r.user = store.named, r # Idle
  PROVE  /\ Holds(a, store', task', server'.ver)
         /\ UNCHANGED <<store, page>> /\ task[t] = Idle /\ task'[t] = r
         /\ Busy(task') = Busy(task) \cup {t}
         /\ \A k \in Tasks \ {t} : task'[k] = task[k]
<1> DEFINE us == [task EXCEPT ![t] = r]
<1>1. task' = us /\ UNCHANGED <<store, page>> /\ task[t] = Idle
  BY DEF Asks
<1>2. KeysOf(r) \subseteq {None} /\ Told(r, server.ver)
  BY DEF Unanswered, KeysOf, Told
<1>3. Brings(a, r) /\ Opens(a, store)
  BY <1>2, HasAlready DEF Brings, Opens
<1>4. Holds(a, store, us, server.ver)
  BY <1>3, OneMoves
<1>5. Busy(us) = Busy(task) \cup {t} /\ us[t] = r
        /\ \A k \in Tasks \ {t} : us[k] = task[k]
  BY DEF Busy, SessionInv, DevicesOK, Callbacks
<1> QED  BY <1>1, <1>4, <1>5

LEMMA AsksAlone ==
  ASSUME SessionInv, PatientOK, Quiet, NEW t \in Tasks, NEW r, Asks(t, r),
         server'.ver = server.ver, TokensOf(r) = {store.access, store.refresh},
         Unanswered(r), r.call \in Alone, Finds(r.call, page), r # Idle
  PROVE  PatientOK'
<1>1. PICK a \in Accounts : Holds(a, store, task, server.ver)
  BY DEF PatientOK
<1>2. /\ Holds(a, store', task', server'.ver) /\ page' = page
      /\ Busy(task') = {t} /\ task'[t] = r
  BY <1>1, AskingHolds, QuietIsEmpty DEF Alone, Rotating
<1>3. Meets(page', store', task')
  BY <1>2 DEF Meets, Alone, Rotating
<1> QED  BY <1>2, <1>3 DEF PatientOK

LEMMA AsksAtWork ==
  ASSUME SessionInv, PatientOK, page = "vaults", NEW t \in Tasks, NEW r, Asks(t, r),
         server'.ver = server.ver, TokensOf(r) = {store.access, store.refresh},
         Unanswered(r), r # Idle,
         \/ r.call = "save"
         \/ r.call \in {"wrapped", "bundle"} /\ store.keys = None
         \/ /\ r.call = "manifest" /\ r.user = store.named /\ store.keys # None
            /\ \A k \in Busy(task) : task[k].call = "save"
  PROVE  PatientOK'
<1>1. PICK a \in Accounts : Holds(a, store, task, server.ver)
  BY DEF PatientOK
<1>2. r.call \in {"save", "wrapped", "bundle", "manifest"}
        /\ (r.call \in Rotating => r.call = "manifest")
  BY DEF Rotating
<1>3. /\ Holds(a, store', task', server'.ver) /\ UNCHANGED <<store, page>>
      /\ Busy(task') = Busy(task) \cup {t} /\ task'[t] = r
      /\ \A k \in Tasks \ {t} : task'[k] = task[k]
      /\ task[t] = Idle
  BY <1>1, <1>2, AskingHolds
<1>4. \A k \in Busy(task) : k # t /\ k \in Tasks /\ task'[k] = task[k]
  BY <1>3 DEF Busy
<1>5. ASSUME NEW k \in Busy(task)
      PROVE  /\ Finds(task[k].call, "vaults") /\ task[k].call \notin Alone
             /\ task[k].call \in Rotating =>
                  /\ store.keys # None
                  /\ \A q \in Busy(task) \ {k} : task[q].call = "save"
  BY <1>5 DEF PatientOK, Meets, Finds, Alone
<1>6. Finds(r.call, "vaults") /\ r.call \notin Alone
  BY <1>2 DEF Finds, AtWork, Alone
<1>7. ASSUME NEW k \in Busy(task')
      PROVE  Finds(task'[k].call, "vaults") /\ task'[k].call \notin Alone
  BY <1>3, <1>4, <1>5, <1>6, <1>7
<1>8. ASSUME NEW k \in Busy(task'), task'[k].call \in Rotating
      PROVE  store.keys # None /\ \A q \in Busy(task') \ {k} : task'[q].call = "save"
  <2>1. CASE k = t
    BY <1>2, <1>3, <1>4, <1>8, <2>1
  <2>2. CASE k \in Busy(task)
    <3>1. store.keys # None /\ \A q \in Busy(task) \ {k} : task[q].call = "save"
      BY <1>4, <1>5, <1>8, <2>2
    <3>2. task[k].call \in Rotating /\ task[k].call # "save"
      BY <1>4, <1>8, <2>2 DEF Rotating
    <3>3. r.call = "save"
      BY <2>2, <3>1, <3>2
    <3> QED  BY <1>3, <1>4, <3>1, <3>3
  <2> QED  BY <1>3, <2>1, <2>2
<1>9. Meets(page', store', task')
  BY <1>3, <1>7, <1>8 DEF Meets
<1> QED  BY <1>3, <1>9 DEF PatientOK

LEMMA RequestTells ==
  ASSUME NEW k, NEW c, NEW u
  PROVE  LET r == Request(k, c, u)
         IN  /\ TokensOf(r) = {store.access, store.refresh} /\ Unanswered(r)
             /\ r.kind = k /\ r.call = c /\ r.user = u
  BY DEF Request, TokensOf, Unanswered

LEMMA SigningInIsPatient ==
  ASSUME SessionInv, PatientOK, scenario.patient, SignIn \/ SignUp \/ Enrol \/ Save
  PROVE  PatientOK'
<1>1. UNCHANGED server
  BY DEF SignIn, SignUp, Enrol, Save
<1>2. ASSUME NEW k \in {"sign_in", "enrol", "save"}, NEW c, NEW u
      PROVE  Request(k, c, u) # Idle
  BY <1>2, RequestTells DEF Idle
<1>3. CASE SignIn
  <2>1. PICK t \in Tasks, a \in server.ready : Asks(t, Request("sign_in", "login", a))
    BY <1>3 DEF SignIn, Sends, Asks
  <2>2. Quiet /\ Finds("login", page)
    BY <1>3 DEF SignIn, Waits, Finds, AtWork
  <2> QED  BY <1>1, <1>2, <2>1, <2>2, RequestTells, AsksAlone DEF Alone
<1>4. CASE SignUp
  <2>1. PICK t \in Tasks, a \in Accounts : Asks(t, Request("sign_in", "create", a))
    BY <1>4 DEF SignUp, Sends, Asks
  <2>2. Quiet /\ Finds("create", page)
    BY <1>4 DEF SignUp, Waits, Finds, AtWork
  <2> QED  BY <1>1, <1>2, <2>1, <2>2, RequestTells, AsksAlone DEF Alone
<1>5. CASE Enrol
  <2>1. PICK t \in Tasks : Asks(t, Request("enrol", "enrol", None))
    BY <1>5 DEF Enrol, Sends, Asks
  <2>2. Quiet /\ Finds("enrol", page)
    BY <1>5 DEF Enrol, Waits, Finds, AtWork
  <2> QED  BY <1>1, <1>2, <2>1, <2>2, RequestTells, AsksAlone DEF Alone
<1>6. CASE Save
  <2>1. PICK t \in Tasks : Asks(t, Request("save", "save", None))
    BY <1>6 DEF Save, Sends, Asks
  <2> QED  BY <1>1, <1>2, <1>6, <2>1, RequestTells, AsksAtWork DEF Save
<1> QED  BY <1>3, <1>4, <1>5, <1>6

LEMMA RotateFormIsPatient ==
  ASSUME SessionInv, PatientOK, scenario.patient, RotateForm  PROVE PatientOK'
<1> DEFINE r == Request("rotate", "manifest", store.named)
<1>1. PICK t \in Tasks : Asks(t, r)
  BY DEF RotateForm, Sends, Asks
<1>2. /\ r.kind = "rotate" /\ r.call = "manifest" /\ r.user = store.named
      /\ TokensOf(r) = {store.access, store.refresh} /\ Unanswered(r)
  BY RequestTells
<1>3. r # Idle
  BY <1>2 DEF Idle
<1>4. /\ page = "vaults" /\ store.keys # None /\ UNCHANGED server
      /\ \A k \in Busy(task) : task[k].call = "save"
  BY DEF RotateForm, Busy
<1> HIDE DEF r
<1> QED  BY <1>1, <1>2, <1>3, <1>4, AsksAtWork

LEMMA HandleUnlockIsPatient ==
  ASSUME SessionInv, PatientOK, HandleUnlock  PROVE PatientOK'
<1>1. PICK t \in Tasks, b \in BOOLEAN :
        Asks(t, [Request("unlock", "bundle", modal.user) EXCEPT !.remember = b])
  BY DEF HandleUnlock, Sends, Asks
<1> DEFINE r == [Request("unlock", "bundle", modal.user) EXCEPT !.remember = b]
<1>2. /\ r.kind = "unlock" /\ r.call = "bundle"
      /\ TokensOf(r) = {store.access, store.refresh} /\ Unanswered(r)
  BY DEF Request, TokensOf, Unanswered
<1>3. r # Idle
  BY <1>2 DEF Idle
<1>4. page = "vaults" /\ store.keys = None /\ UNCHANGED server
  BY DEF HandleUnlock, SessionInv, ScreenOK, Rendered
<1> HIDE DEF r
<1> QED  BY <1>1, <1>2, <1>3, <1>4, AsksAtWork DEF r

LEMMA StartSilentIsPatient ==
  ASSUME SessionInv, PatientOK, NEW t \in Tasks, StartSilent(t)  PROVE PatientOK'
<1>1. UNCHANGED <<store, page, server>>
  BY DEF StartSilent
<1>2. CASE UNCHANGED task
  BY <1>1, <1>2 DEF PatientOK
<1> DEFINE r == [Request("silent", "wrapped", modal.user) EXCEPT
                    !.method = LoadDeviceRecord(modal.user)]
<1>3. CASE task' = [task EXCEPT ![t] = r]
  <2>1. /\ r.kind = "silent" /\ r.call = "wrapped"
        /\ TokensOf(r) = {store.access, store.refresh} /\ Unanswered(r)
    BY DEF Request, TokensOf, Unanswered
  <2>2. r # Idle
    BY <2>1 DEF Idle
  <2>3. page = "vaults" /\ store.keys = None /\ task[t] = Idle
    BY DEF StartSilent, SessionInv, ScreenOK, Rendered
  <2> HIDE DEF r
  <2> QED  BY <1>1, <1>3, <2>1, <2>2, <2>3, AsksAtWork DEF Asks
<1> QED  BY <1>2, <1>3 DEF StartSilent

(* A session that is left, and a page that is asked for.                   *)
LEMMA OidcCallbackIsPatient ==
  ASSUME SessionInv, OidcCallback  PROVE PatientOK'
<1>1. PICK a \in Accounts, t \in Tasks :
          /\ store' = [access |-> Of(a), refresh |-> Of(a), named |-> None,
                       keys |-> None]
          /\ page' = IF a \in server.ready THEN "callback" ELSE "finish"
          /\ task' = [k \in Tasks |->
                IF k = t /\ a \in server.ready
                  THEN [Request("oidc", "profile", a) EXCEPT
                           !.had = [access |-> Of(a), refresh |-> Of(a)],
                           !.access = Of(a), !.refresh = Of(a)]
                  ELSE Idle]
          /\ server' = [server EXCEPT !.known = @ \cup {a}]
  BY DEF OidcCallback
<1> DEFINE r == [Request("oidc", "profile", a) EXCEPT
                    !.had = [access |-> Of(a), refresh |-> Of(a)],
                    !.access = Of(a), !.refresh = Of(a)]
<1>2. r.call = "profile" /\ TokensOf(r) = {Of(a)} /\ Unanswered(r)
  BY DEF Request, TokensOf, Unanswered
<1>3. \A k \in Tasks : task'[k] # Idle =>
         k = t /\ a \in server.ready /\ task'[k] = r
  BY <1>1
<1> HIDE DEF r
<1>4. Holds(a, store', task', server.ver)
  <2>1. /\ Of(a) \in Secret /\ Of(a).acct = a /\ Of(a).ver <= server.ver[a]
    BY OfIsASecret DEF Of, SessionInv, ServerOK, Servers
  <2>2. KeysOf(r) \subseteq {None} /\ Told(r, server.ver) /\ r.call \notin Rotating
    BY <1>2 DEF Unanswered, KeysOf, Told, Rotating
  <2>3. /\ {store'.access, store'.refresh, store'.keys} \subseteq {Of(a), None}
        /\ store'.named \in {a, None}
    BY <1>1
  <2>4. \A k \in Tasks : task'[k] # Idle =>
           /\ TokensOf(task'[k]) \subseteq {Of(a), None}
           /\ KeysOf(task'[k]) \subseteq {None}
           /\ task'[k].call \notin Rotating /\ Told(task'[k], server.ver)
    BY <1>2, <1>3, <2>2
  <2> QED  BY <2>1, <2>3, <2>4, FreshSession
<1>5. server'.ver = server.ver
  BY <1>1 DEF SessionInv, ServerOK, Servers
<1>6. Meets(page', store', task')
  BY <1>1, <1>2, <1>3 DEF Meets, Busy, Finds, AtWork, Rotating
<1> QED  BY <1>4, <1>5, <1>6 DEF PatientOK

LEMMA ReloadIsPatient ==
  ASSUME SessionInv, PatientOK, Reload  PROVE PatientOK'
<1> DEFINE s == [store EXCEPT !.keys = None]
<1>1. PICK a \in Accounts : Holds(a, store, task, server.ver)
  BY DEF PatientOK
<1>2. store' = s /\ (\A t \in Tasks : task'[t] = Idle) /\ UNCHANGED server
  BY DEF Reload
<1>3. s.access = store.access /\ s.refresh = store.refresh /\ s.named = store.named
        /\ s.keys = None
  BY DEF SessionInv, ScreenOK, Session
<1>4. Opens(a, s)
  BY <1>1, <1>3, HasAlready DEF Opens
<1>5. Holds(a, s, task', server.ver)
  BY <1>1, <1>2, <1>4, NothingNew
<1>6. Busy(task') = {}
  BY <1>2 DEF Busy
<1> QED  BY <1>2, <1>5, <1>6, NobodyMeets DEF PatientOK

LEMMA ParentRendersIsPatient ==
  ASSUME SessionInv, PatientOK, ParentRenders  PROVE PatientOK'
<1>1. task' = Cancel(task, TRUE) /\ UNCHANGED <<store, page, server>>
  BY DEF ParentRenders
<1>2. Alike(task, task')
  BY <1>1, CancelIsAlike DEF SessionInv, DevicesOK
<1>3. PICK a \in Accounts : Holds(a, store, task, server.ver)
  BY DEF PatientOK
<1>4. Holds(a, store, task', server.ver) /\ Meets(page, store, task')
  BY <1>2, <1>3, AlikeHoldsAlike DEF PatientOK
<1> QED  BY <1>1, <1>4 DEF PatientOK

LEMMA GoingIsPatient ==
  ASSUME SessionInv, PatientOK, scenario.patient, Go \/ Logout \/ ProfileMissed
  PROVE  PatientOK'
<1>1. PICK a \in Accounts : Holds(a, store, task, server.ver)
  BY DEF PatientOK
<1>2. /\ task \in Callbacks /\ Busy(task) = {} /\ server' = server
      /\ \A k \in Tasks : task[k] = Idle
  BY QuietIsEmpty
  DEF Go, Logout, ProfileMissed, Waits, SessionInv, DevicesOK, Quiet
<1>3. PICK s, p : s \in {store, SignedOut} /\ Become(s, p, task)
  BY DEF Go, Logout, ProfileMissed
<1>4. Opens(a, s)
  BY <1>1, <1>3, HasAlready
<1>5. Holds(a, s, task, server'.ver)
  BY <1>1, <1>2, <1>4, NothingNew
<1> HIDE DEF Become
<1> QED  BY <1>2, <1>3, <1>5, Arrives

(* Whoever has not signed in yet may still be anybody.                     *)
LEMMA InitIsPatient == Init /\ Accounts # {} => PatientOK
<1> SUFFICES ASSUME Init, Accounts # {} PROVE PatientOK
  OBVIOUS
<1>1. SessionInv /\ scenario \in Scenarios /\ \A t \in Tasks : task[t] = Idle
  BY InitEstablishes DEF Init
<1>2. PICK a \in Accounts : scenario.start \in {a, None}
  BY <1>1, SessionAssumption
<1>3. /\ {store.access, store.refresh, store.keys} \subseteq {Of(a), None}
      /\ store.named \in {a, None}
  BY <1>2 DEF Init, SignedOut
<1>4. Holds(a, store, task, server.ver)
  <2>1. Of(a) \in Secret /\ Of(a).acct = a /\ Of(a).ver <= server.ver[a]
    BY <1>1, OfIsASecret DEF Of, SessionInv, ServerOK, Servers
  <2> QED  BY <1>1, <1>3, <2>1, FreshSession
<1>5. Busy(task) = {}
  BY <1>1 DEF Busy
<1> QED  BY <1>4, <1>5, NobodyMeets DEF PatientOK

LEMMA PatientInvIsKept ==
  ASSUME SessionInv, PatientInv, [Next]_vars  PROVE PatientInv'
<1>1. UNCHANGED scenario
  BY DEF Next, vars, Answer, UserDoes, SignIn, SignUp, OidcCallback, ProfileMissed,
         Enrol, Logout, Go, Reload, ParentRenders, HandleUnlock, Save, RotateForm,
         RotatedElsewhere, StartSilent, Registered, LoggedIn, ProfileRead, Enrolled,
         WrappedMasterKey, SilentBundle, UnlockBundle, UnlockRegistered, Saved,
         ManifestRead, Rotated, Unauthorized, TryRefresh, RefreshFails, CallFails,
         Refused, Serve, ServerReads, ServerCreates, ServerEnrols, ServerRegisters,
         ServerRotates, ServerRenews, Says
<1>2. ASSUME scenario.patient, PatientOK, Next  PROVE PatientOK'
  BY <1>2, SigningInIsPatient, RotateFormIsPatient, HandleUnlockIsPatient,
     StartSilentIsPatient, OidcCallbackIsPatient, ReloadIsPatient,
     ParentRendersIsPatient, GoingIsPatient, RotatedElsewhereIsPatient,
     ServingIsPatient, AnswersArePatient DEF Next
<1>3. ASSUME PatientOK, UNCHANGED vars  PROVE PatientOK'
  BY <1>3 DEF vars, PatientOK
<1> QED  BY <1>1, <1>2, <1>3 DEF PatientInv

LEMMA PatientIsOneAccount == SessionInv /\ PatientInv => SessionIsOneAccount
<1> SUFFICES ASSUME SessionInv, PatientInv, scenario.patient, store.access # None
             PROVE  OneAccount
  BY DEF SessionIsOneAccount, OneAccount, AccountId
<1>1. store.access \in Secret /\ store.access.acct \in Accounts
  BY DEF SessionInv, ScreenOK, Session, Token, Secret
<1>2. PICK a \in Accounts : Holds(a, store, task, server.ver)
  BY <1>1 DEF PatientInv, PatientOK
<1>3. store.access \in TokensIn(store, task) /\ store.access.acct = a
  BY <1>2 DEF TokensIn, Holds
<1>4. store.refresh # None => store.refresh.acct = a
  BY <1>2 DEF TokensIn, Holds
<1>5. store.named \in {a, None}
  BY <1>2 DEF NamesIn, Holds
<1>6. ASSUME store.keys # None
      PROVE  /\ store.keys.acct = a
             /\ store.access.ver = server.ver[a] => store.keys.ver = server.ver[a]
  <2>1. store.keys \in KeysIn(store, task)
    BY <1>6 DEF KeysIn
  <2> QED  BY <1>2, <1>3, <2>1 DEF Holds
<1>7. a # None
  BY SessionAssumption
<1> QED  BY <1>3, <1>4, <1>5, <1>6, <1>7 DEF OneAccount, AccountId

(* However calls fail, answers are late, tokens expire and devices unlock, *)
(* and whoever else changes the passphrase meanwhile, a tab whose user     *)
(* waits for their calls has the tokens, the name and the keys of one      *)
(* account, and a token that may write only with the keys of its own       *)
(* version (store/auth.ts).  A session whose tokens and keys are old may   *)
(* itself change the passphrase.                                           *)
THEOREM SessionsAreOneAccount == Spec => []SessionIsOneAccount
<1>1. Init => PatientInv
  BY InitIsPatient DEF PatientInv
<1>2. SessionInv /\ PatientInv /\ [Next]_vars => PatientInv'
  BY PatientInvIsKept
<1>3. SessionInv /\ PatientInv => SessionIsOneAccount
  BY PatientIsOneAccount
<1> QED  BY <1>1, <1>2, <1>3, SessionInvariant, PTL DEF Spec
=============================================================================
