-------------------------- MODULE OfflineSyncProofs --------------------------
(***************************************************************************)
(* Theorems about OfflineSync, for any number of drains, saves and         *)
(* versions and every set of faults.                                       *)
(*                                                                         *)
(* A call leaves the queue because of what happened to it earlier, under a *)
(* snapshot of the queue that other drains have outlived.  The invariant   *)
(* ties every snapshot to the queue: the same key means the same call, for *)
(* keys grow with the saves and none is given twice.                       *)
(*                                                                         *)
(* Where operations take turns, OrderlyInv says what each knows: every     *)
(* save is stored, queued or in the editor's hands (WorkIsKept), a drain   *)
(* saw the server it uploads to (DrainIsCareful) and the banner the queue  *)
(* (StatusIsHonest).  Where nothing fails either, CalmInv follows the      *)
(* envelope and the bytes of each save to the server in that order         *)
(* (SettledVaultOpens).                                                    *)
(***************************************************************************)
EXTENDS OfflineSync, FiniteSetTheorems, SequenceTheorems,
        WellFoundedInduction, TLAPS

Server == [envelope : Works, versions : Seq(Version)]

Cache == [meta : Detail \cup {None}, blob : Blob \cup {None}]

Page == [draining : BOOLEAN, state : {"idle", "syncing", "conflict", "error"},
         pending : Nat]

Other == [saves : 0 .. MaxElsewhere, halfway : Works \cup {None}]

(* The tasks that work on a snapshot of the queue, and where they may be.  *)
Replays == Tasks \ {"editor"}

Handling == {"put", "check", "read", "upload", "refresh", "note", "tag",
             "dequeue", "failed", "reconsider"}

ReplayPcs == {"idle", "snapshot", "finish", "report"} \cup Handling

OpsOf(t) == IF t = "choice" THEN {"none", "local", "server"}
            ELSE {"none", "drain"}

(* No key at or above the limit has been given yet; at is where the editor *)
(* is, n the number of its saves.                                          *)
Limit(at, n) ==
    IF at \in {"put", "queuePut"} THEN Key(n, "updateVault")
    ELSE IF at \in {"countPut", "base", "keep", "queueUpload"}
    THEN Key(n, "uploadBlob")
    ELSE Key(n + 1, "updateVault")

EntryOK(e, s, top) ==
    /\ e \in Entry
    /\ e.seq = Key(e.work, e.op)
    /\ e.seq < top
    /\ e.since <= Len(s)

QueueOK(q, s, top) ==
    /\ IsFiniteSet(q)
    /\ \A e \in q : EntryOK(e, s, top)
    /\ \A e, f \in q : e.seq = f.seq => e = f

(* An upload from here succeeded since e was queued.                       *)
Sent(e, s) == \E i \in e.since + 1 .. Len(s) : s[i].by = "here"

(* What a task that replays the queue knows of the call in hand.           *)
ReplayOK(t, j, q, s, top) ==
    /\ j \in Job
    /\ j.op \in OpsOf(t)
    /\ j.at \in ReplayPcs
    /\ j.at \in Handling => j.left # {}
    /\ \A e \in j.left : EntryOK(e, s, top)
    /\ \A e \in j.left, f \in q : e.seq = f.seq => e.since = f.since
    /\ j.at = "put" => First(j.left).op = "updateVault"
    /\ j.at \in {"refresh", "note", "tag"} => Sent(First(j.left), s)
    /\ j.at = "dequeue" => \/ j.op = "server"
                           \/ First(j.left).op = "updateVault"
                           \/ Sent(First(j.left), s)

EditorOK(j, n) ==
    /\ j \in Job
    /\ j.op \in {"none", "load", "save"}
    /\ j.left = {}
    /\ j.at \in {"put", "queuePut", "countPut", "base", "keep", "queueUpload"}
         => j.work = n

JobsOK(js, q, s, top) ==
    /\ js \in [Tasks -> Job]
    /\ \A t \in Replays : ReplayOK(t, js[t], q, s, top)

Top == Limit(job["editor"].at, user.saves)

WorldOK ==
    /\ scenario \in Scenarios /\ online \in BOOLEAN
    /\ cache \in Cache /\ page \in Page /\ elsewhere \in Other

ServerOK(s) == s \in Server /\ Len(s.versions) \in Versions

OfflineInv ==
    /\ WorldOK
    /\ user \in User
    /\ ServerOK(server)
    /\ QueueOK(queue, server.versions, Top)
    /\ EditorOK(job["editor"], user.saves)
    /\ JobsOK(job, queue, server.versions, Top)

LEMMA InvariantGivesTypes == OfflineInv => TypeOK
<1> SUFFICES ASSUME OfflineInv PROVE TypeOK
  OBVIOUS
<1>1. queue \subseteq Entry
  BY DEF OfflineInv, QueueOK, EntryOK
<1>2. \A t \in Tasks \ {"editor"} : job[t].at \in Handling => job[t].left # {}
  BY DEF OfflineInv, JobsOK, ReplayOK, Replays
<1> QED  BY <1>1, <1>2 DEF OfflineInv, WorldOK, ServerOK, JobsOK, TypeOK, Latest,
                           Server, Cache, Page, Other, Handling

-----------------------------------------------------------------------------
(* Helpers *)

Below == OpToRel(<, Nat)

(* Every set of numbers has a least one: what CHOOSE in First relies on.   *)
LEMMA LeastNat ==
  ASSUME NEW T \in SUBSET Nat, T # {}
  PROVE  \E n \in T : \A m \in T : n <= m
<1>1. IsWellFoundedOn(Below, Nat)
  BY NatLessThanWellFounded DEF Below
<1>2. PICK n \in T : \A m \in T : ~(<<m, n>> \in Below)
  BY <1>1, WFMin
<1>3. \A x, y \in Nat : <<x, y>> \in Below <=> x < y
  BY DEF Below, OpToRel
<1>4. ASSUME NEW m \in T PROVE n <= m
  <2>1. m \in Nat /\ n \in Nat /\ ~(m < n)
    BY <1>2, <1>3
  <2> QED  BY <2>1
<1> QED  BY <1>4

LEMMA FirstIsIn ==
  ASSUME NEW left \in SUBSET Entry, left # {}
  PROVE  First(left) \in left
<1> DEFINE seqs == {e.seq : e \in left}
<1>1. seqs \in SUBSET Nat /\ seqs # {}
  BY DEF Entry
<1>2. PICK n \in seqs : \A m \in seqs : n <= m
  BY <1>1, LeastNat
<1>3. PICK e \in left : e.seq = n
  BY <1>2
<1>4. \A f \in left : e.seq <= f.seq
  BY <1>2, <1>3
<1> QED  BY <1>4 DEF First

LEMMA ConstantsAre ==
  /\ MaxSaves \in Nat /\ MaxElsewhere \in Nat /\ MaxVersions \in Nat
  /\ 1 \in Versions /\ 0 \in Works /\ NoDetail \in Detail
  /\ Versions \subseteq Nat /\ Works \subseteq Nat
BY OfflineAssumption DEF Versions, Works, NoDetail, Detail

LEMMA ReplaysAre ==
  /\ Drains \subseteq Replays /\ "choice" \in Replays
  /\ "editor" \in Tasks /\ "editor" \notin Replays
  /\ Replays = Drains \cup {"choice"} /\ Replays \subseteq Tasks
  /\ \A t \in Drains : OpsOf(t) = {"none", "drain"}
BY OfflineAssumption DEF Replays, Tasks, OpsOf

LEMMA IdleIsAJob ==
  /\ Idle \in Job
  /\ Idle.op = "none" /\ Idle.at = "idle" /\ Idle.left = {}
BY ConstantsAre DEF Idle, Job, Ops, Pcs

LEMMA Limits ==
  ASSUME NEW n \in Nat, NEW at \in Pcs
  PROVE  /\ Limit(at, n) \in Nat
         /\ Limit(at, n) <= 2 * n + 2
         /\ at \in {"put", "queuePut"} => Limit(at, n) = 2 * n
         /\ at \in {"countPut", "base", "keep", "queueUpload"} =>
              Limit(at, n) = 2 * n + 1
         /\ at \notin {"put", "queuePut", "countPut", "base", "keep",
                       "queueUpload"} => Limit(at, n) = 2 * n + 2
BY DEF Limit, Key

LEMMA FirstKnown ==
  ASSUME NEW t, NEW j, NEW q, NEW s, NEW top,
         ReplayOK(t, j, q, s, top), j.left # {}
  PROVE  First(j.left) \in j.left /\ EntryOK(First(j.left), s, top)
<1>1. j.left \in SUBSET Entry
  BY DEF ReplayOK, EntryOK
<1>2. First(j.left) \in j.left
  BY <1>1, FirstIsIn
<1> QED  BY <1>2 DEF ReplayOK

(* The history of the server only grows. *)
Prefix(s, s2) ==
    /\ Len(s) <= Len(s2)
    /\ \A i \in 1 .. Len(s) : s2[i] = s[i]

LEMMA SentStays ==
  ASSUME NEW s \in Seq(Version), NEW s2 \in Seq(Version), Prefix(s, s2),
         NEW e \in Entry, Sent(e, s)
  PROVE  Sent(e, s2)
<1>1. PICK i \in e.since + 1 .. Len(s) : s[i].by = "here"
  BY DEF Sent
<1>2. e.since \in Nat /\ Len(s) \in Nat /\ Len(s2) \in Nat
  BY ConstantsAre, LenProperties DEF Entry
<1>3. i \in 1 .. Len(s) /\ i \in e.since + 1 .. Len(s2)
  BY <1>1, <1>2 DEF Prefix
<1> QED  BY <1>1, <1>3 DEF Prefix, Sent

LEMMA EntryStays ==
  ASSUME NEW s \in Seq(Version), NEW s2 \in Seq(Version), Prefix(s, s2),
         NEW top \in Nat, NEW top2 \in Nat, top <= top2,
         NEW e, EntryOK(e, s, top)
  PROVE  EntryOK(e, s2, top2)
<1>1. e.since \in Nat /\ e.seq \in Nat /\ Len(s) \in Nat /\ Len(s2) \in Nat
  BY ConstantsAre, LenProperties DEF EntryOK, Entry
<1> QED  BY <1>1 DEF EntryOK, Prefix

(* What the others do to the queue and the server, a replay survives.      *)
LEMMA ReplayKeeps ==
  ASSUME NEW t, NEW j, NEW q, NEW q2,
         NEW s \in Seq(Version), NEW s2 \in Seq(Version), Prefix(s, s2),
         NEW top \in Nat, NEW top2 \in Nat, top <= top2,
         \A f \in q2 : \/ f.seq >= top
                       \/ \E e \in q : e.seq = f.seq /\ e.since = f.since,
         ReplayOK(t, j, q, s, top)
  PROVE  ReplayOK(t, j, q2, s2, top2)
<1>1. \A e \in j.left : EntryOK(e, s2, top2)
  BY EntryStays DEF ReplayOK
<1>2. ASSUME NEW e \in j.left, NEW f \in q2, e.seq = f.seq
      PROVE  e.since = f.since
  <2>1. e.seq \in Nat /\ e.seq < top
    BY DEF ReplayOK, EntryOK, Entry
  <2>2. PICK g \in q : g.seq = f.seq /\ g.since = f.since
    BY <2>1, <1>2
  <2> QED  BY <2>2, <1>2 DEF ReplayOK
<1>3. ASSUME j.left # {}, Sent(First(j.left), s)
      PROVE  Sent(First(j.left), s2)
  <2>1. First(j.left) \in Entry
    BY <1>3, FirstKnown DEF EntryOK
  <2> QED  BY <2>1, <1>3, SentStays
<1>4. j.at \in {"refresh", "note", "tag"} => Sent(First(j.left), s2)
  BY <1>3 DEF ReplayOK, Handling
<1>5. j.at = "dequeue" => \/ j.op = "server"
                          \/ First(j.left).op = "updateVault"
                          \/ Sent(First(j.left), s2)
  BY <1>3 DEF ReplayOK, Handling
<1> QED  BY <1>1, <1>2, <1>4, <1>5 DEF ReplayOK

LEMMA ReplayStays ==
  ASSUME NEW t, NEW j, NEW q,
         NEW s \in Seq(Version), NEW s2 \in Seq(Version), Prefix(s, s2),
         NEW top \in Nat, NEW top2 \in Nat, top <= top2,
         ReplayOK(t, j, q, s, top)
  PROVE  ReplayOK(t, j, q, s2, top2)
<1>1. \A f \in q : \/ f.seq >= top
                   \/ \E e \in q : e.seq = f.seq /\ e.since = f.since
  OBVIOUS
<1> QED  BY <1>1, ReplayKeeps

LEMMA QueueKeeps ==
  ASSUME NEW q, NEW s \in Seq(Version), NEW s2 \in Seq(Version), Prefix(s, s2),
         NEW top \in Nat, NEW top2 \in Nat, top <= top2,
         QueueOK(q, s, top)
  PROVE  QueueOK(q, s2, top2)
BY EntryStays DEF QueueOK

(* A task goes on with the same snapshot.                                  *)
LEMMA MovesOK ==
  ASSUME NEW t, NEW j, NEW j2 \in Job, NEW q, NEW s, NEW top,
         ReplayOK(t, j, q, s, top),
         j2.op = j.op, j2.left = j.left, j2.at \in ReplayPcs,
         j2.at \in Handling => j.left # {},
         j2.at = "put" => First(j.left).op = "updateVault",
         j2.at \in {"refresh", "note", "tag"} => Sent(First(j.left), s),
         j2.at = "dequeue" => \/ j.op = "server"
                              \/ First(j.left).op = "updateVault"
                              \/ Sent(First(j.left), s)
  PROVE  ReplayOK(t, j2, q, s, top)
BY DEF ReplayOK

LEMMA IdleOK ==
  ASSUME NEW t \in Replays, NEW q, NEW s, NEW top
  PROVE  ReplayOK(t, Idle, q, s, top)
BY IdleIsAJob DEF ReplayOK, ReplayPcs, Handling, OpsOf

LEMMA ContinueOK ==
  ASSUME NEW t, NEW j \in Job, NEW q, NEW s, NEW top,
         j.op \in OpsOf(t),
         \A e \in j.left : EntryOK(e, s, top),
         \A e \in j.left, f \in q : e.seq = f.seq => e.since = f.since
  PROVE  ReplayOK(t, Continue(j), q, s, top)
<1> DEFINE pc == IF j.left = {} THEN IF j.op = "drain" THEN "finish" ELSE "report"
                 ELSE IF j.op = "server" THEN "dequeue"
                 ELSE IF First(j.left).op = "updateVault" THEN "put"
                 ELSE IF j.op = "drain" THEN "check" ELSE "read"
<1>1. /\ pc \in {"finish", "report", "dequeue", "put", "check", "read"}
      /\ pc = "put" => First(j.left).op = "updateVault" /\ j.left # {}
      /\ pc = "dequeue" => j.op = "server" /\ j.left # {}
      /\ pc \in {"check", "read"} => j.left # {}
  OBVIOUS
<1>2. Continue(j) = [j EXCEPT !.at = pc]
  BY DEF Continue
<1> HIDE DEF pc
<1>3. /\ Continue(j) \in Job
      /\ Continue(j).at = pc /\ Continue(j).left = j.left /\ Continue(j).op = j.op
  BY <1>1, <1>2 DEF Job, Pcs
<1> QED  BY <1>1, <1>3 DEF ReplayOK, ReplayPcs, Handling

LEMMA SkipOK ==
  ASSUME NEW t, NEW j, NEW q, NEW s, NEW top, ReplayOK(t, j, q, s, top)
  PROVE  ReplayOK(t, Skip(j), q, s, top)
<1> DEFINE rest == j.left \ {First(j.left)}
           k == [Idle EXCEPT !.op = j.op, !.left = rest,
                             !.conflict = j.conflict, !.error = j.error]
<1>1. j \in Job /\ rest \subseteq j.left
  BY DEF ReplayOK
<1>2. k \in Job /\ k.op = j.op /\ k.left = rest
  BY <1>1, IdleIsAJob DEF Job, Idle
<1>3. Skip(j) = Continue(k)
  BY DEF Skip
<1> HIDE DEF k, rest
<1>4. /\ k.op \in OpsOf(t)
      /\ \A e \in k.left : EntryOK(e, s, top)
      /\ \A e \in k.left, f \in q : e.seq = f.seq => e.since = f.since
  BY <1>1, <1>2 DEF ReplayOK
<1>5. ReplayOK(t, Continue(k), q, s, top)
  BY <1>2, <1>4, ContinueOK
<1> QED  BY <1>3, <1>5

LEMMA RejectedOK ==
  ASSUME NEW t \in Replays, NEW j, NEW q, NEW s, NEW top,
         ReplayOK(t, j, q, s, top), j.at \in Handling
  PROVE  ReplayOK(t, Rejected(j), q, s, top)
<1>1. CASE j.op = "drain"
  <2>1. Rejected(j) = [j EXCEPT !.at = "failed"]
    BY <1>1 DEF Rejected
  <2>2. /\ Rejected(j) \in Job /\ Rejected(j).op = j.op
        /\ Rejected(j).left = j.left /\ Rejected(j).at = "failed"
    BY <2>1 DEF ReplayOK, Job, Pcs
  <2>3. j.left # {}
    BY DEF ReplayOK
  <2> QED  BY <2>2, <2>3, MovesOK DEF ReplayPcs, Handling
<1>2. CASE j.op = "local"
  BY <1>2, SkipOK DEF Rejected
<1>3. CASE j.op \notin {"drain", "local"}
  BY <1>3, IdleOK DEF Rejected
<1> QED  BY <1>1, <1>2, <1>3

LEMMA DrainedOK ==
  ASSUME NEW jobs, NEW js, NEW b, NEW q, NEW s, NEW top,
         scenario \in Scenarios,
         JobsOK(jobs, q, s, top), js \in Drained(jobs, b)
  PROVE  JobsOK(js, q, s, top) /\ js["editor"] = jobs["editor"]
<1> DEFINE drain == [Idle EXCEPT !.op = "drain", !.at = "snapshot"]
<1>1. CASE js = jobs
  BY <1>1
<1>2. CASE js # jobs
  <2>1. PICK d \in scenario.drains : js = [jobs EXCEPT ![d] = drain]
    BY <1>2 DEF Drained
  <2>2. d \in Drains
    BY OfflineAssumption
  <2>3. /\ drain \in Job /\ drain.op = "drain" /\ drain.at = "snapshot"
        /\ drain.left = {}
    BY IdleIsAJob DEF Job, Ops, Pcs, Idle
  <2>4. ReplayOK(d, drain, q, s, top)
    BY <2>2, <2>3, ReplaysAre DEF ReplayOK, ReplayPcs, Handling
  <2> HIDE DEF drain
  <2> QED  BY <2>1, <2>2, <2>3, <2>4, ReplaysAre DEF JobsOK
<1> QED  BY <1>1, <1>2

-----------------------------------------------------------------------------
(* The four kinds of steps: of a replay, of the editor, of neither, and    *)
(* those after which a drain may begin.                                    *)

LEMMA TopIs ==
  ASSUME OfflineInv
  PROVE  /\ job \in [Tasks -> Job] /\ user.saves \in Nat /\ Top \in Nat
         /\ server.versions \in Seq(Version)
         /\ \A t \in Replays : ReplayOK(t, job[t], queue, server.versions, Top)
         /\ \A t \in Tasks : job[t] \in Job /\ job[t].at \in Pcs
<1>1. job \in [Tasks -> Job] /\ user.saves \in Nat
  BY ConstantsAre DEF OfflineInv, JobsOK, User
<1>2. job["editor"].at \in Pcs
  BY <1>1, ReplaysAre DEF Job
<1> QED  BY <1>1, <1>2, Limits DEF OfflineInv, JobsOK, ServerOK, Server, Top, Job

LEMMA PrefixRefl ==
  ASSUME NEW s \in Seq(Version)
  PROVE  Prefix(s, s)
BY LenProperties DEF Prefix

LEMMA ReplayStep ==
  ASSUME OfflineInv, NEW t \in Replays, NEW j, Goto(t, j),
         WorldOK', user' \in User, user'.saves = user.saves,
         ServerOK(server'), Prefix(server.versions, server'.versions),
         QueueOK(queue', server'.versions, Top),
         \A f \in queue' :
            \E e \in queue : e.seq = f.seq /\ e.since = f.since,
         ReplayOK(t, j, queue', server'.versions, Top)
  PROVE  OfflineInv'
<1>1. job' = [job EXCEPT ![t] = j] /\ j \in Job
  BY DEF Goto, ReplayOK
<1>2. job' \in [Tasks -> Job] /\ job'["editor"] = job["editor"]
  BY <1>1, TopIs, ReplaysAre
<1>3. Top' = Top
  BY <1>2 DEF Top
<1>4. server.versions \in Seq(Version) /\ server'.versions \in Seq(Version)
  BY TopIs DEF ServerOK, Server
<1>5. ASSUME NEW u \in Replays, u # t
      PROVE  ReplayOK(u, job[u], queue', server'.versions, Top)
  <2>1. ReplayOK(u, job[u], queue, server.versions, Top) /\ Top \in Nat
    BY TopIs
  <2>2. Top <= Top
    BY <2>1
  <2>3. \A f \in queue' :
          \/ f.seq >= Top
          \/ \E e \in queue : e.seq = f.seq /\ e.since = f.since
    OBVIOUS
  <2> QED  BY <2>1, <2>2, <2>3, <1>4, ReplayKeeps
<1>6. \A u \in Replays : ReplayOK(u, job'[u], queue', server'.versions, Top)
  BY <1>1, <1>5, TopIs, ReplaysAre
<1> QED  BY <1>2, <1>3, <1>6 DEF OfflineInv, JobsOK

LEMMA ReplayStill ==
  ASSUME OfflineInv, NEW t \in Replays, NEW j, Goto(t, j),
         WorldOK', user' \in User, user'.saves = user.saves,
         UNCHANGED queue, ServerOK(server'),
         server'.versions = server.versions,
         ReplayOK(t, j, queue, server.versions, Top)
  PROVE  OfflineInv'
<1>1. Prefix(server.versions, server'.versions)
  BY TopIs, PrefixRefl
<1>2. QueueOK(queue', server'.versions, Top)
  BY DEF OfflineInv
<1> QED  BY <1>1, <1>2, ReplayStep

LEMMA EditorStep ==
  ASSUME OfflineInv, NEW j, Goto("editor", j),
         WorldOK', user' \in User,
         ServerOK(server'), Prefix(server.versions, server'.versions),
         Top <= Limit(j.at, user'.saves), EditorOK(j, user'.saves),
         QueueOK(queue', server'.versions, Limit(j.at, user'.saves)),
         \A f \in queue' :
            \/ f.seq >= Top
            \/ \E e \in queue : e.seq = f.seq /\ e.since = f.since
  PROVE  OfflineInv'
<1>1. job' = [job EXCEPT !["editor"] = j] /\ j \in Job /\ j.at \in Pcs
  BY DEF Goto, EditorOK, Job
<1>2. /\ job' \in [Tasks -> Job] /\ job'["editor"] = j
      /\ \A t \in Replays : job'[t] = job[t]
  BY <1>1, TopIs, ReplaysAre
<1>3. Top' = Limit(j.at, user'.saves)
  BY <1>2 DEF Top
<1>4. user'.saves \in Nat
  BY ConstantsAre DEF User
<1>5. server.versions \in Seq(Version) /\ server'.versions \in Seq(Version)
  BY TopIs DEF ServerOK, Server
<1>6. Top \in Nat /\ Top' \in Nat /\ Top <= Top'
  BY <1>1, <1>3, <1>4, TopIs, Limits
<1>7. \A t \in Replays : ReplayOK(t, job'[t], queue', server'.versions, Top')
  <2> SUFFICES ASSUME NEW t \in Replays
               PROVE  ReplayOK(t, job[t], queue', server'.versions, Top')
    BY <1>2
  <2>1. ReplayOK(t, job[t], queue, server.versions, Top)
    BY TopIs
  <2> QED  BY <2>1, <1>5, <1>6, ReplayKeeps
<1> QED  BY <1>2, <1>3, <1>7 DEF OfflineInv, JobsOK

LEMMA EditorStill ==
  ASSUME OfflineInv, NEW j, Goto("editor", j),
         WorldOK', user' \in User,
         UNCHANGED queue, ServerOK(server'),
         server'.versions = server.versions,
         EditorOK(j, user'.saves), Top <= Limit(j.at, user'.saves)
  PROVE  OfflineInv'
<1>1. server.versions \in Seq(Version) /\ Prefix(server.versions, server'.versions)
  BY TopIs, PrefixRefl
<1>2. Limit(j.at, user'.saves) \in Nat
  BY ConstantsAre, Limits DEF EditorOK, Job, User
<1>3. QueueOK(queue', server'.versions, Limit(j.at, user'.saves))
  BY <1>1, <1>2, TopIs, QueueKeeps DEF OfflineInv
<1> QED  BY <1>1, <1>3, EditorStep

(* Jobs as they are, or with a drain that begins. *)
LEMMA JobsStep ==
  ASSUME OfflineInv, WorldOK', user' \in User, user'.saves = user.saves,
         UNCHANGED queue, ServerOK(server'),
         Prefix(server.versions, server'.versions),
         job' = job \/ \E b : job' \in Drained(job, b)
  PROVE  OfflineInv'
<1>1. scenario \in Scenarios /\ JobsOK(job, queue, server.versions, Top)
  BY DEF OfflineInv, WorldOK
<1>2. JobsOK(job', queue, server.versions, Top) /\ job'["editor"] = job["editor"]
  BY <1>1, DrainedOK
<1>3. Top' = Top
  BY <1>2 DEF Top
<1>4. /\ server.versions \in Seq(Version) /\ server'.versions \in Seq(Version)
      /\ Top \in Nat
  BY TopIs DEF ServerOK, Server
<1>5. JobsOK(job', queue, server'.versions, Top)
  <2>1. ASSUME NEW t \in Replays
        PROVE  ReplayOK(t, job'[t], queue, server'.versions, Top)
    <3>1. ReplayOK(t, job'[t], queue, server.versions, Top)
      BY <1>2 DEF JobsOK
    <3>2. Top <= Top
      BY <1>4
    <3> QED  BY <3>1, <3>2, <1>4, ReplayStays
  <2> QED  BY <1>2, <2>1 DEF JobsOK
<1>6. QueueOK(queue, server'.versions, Top)
  BY <1>4, QueueKeeps DEF OfflineInv
<1> QED  BY <1>2, <1>3, <1>5, <1>6 DEF OfflineInv

(* The editor goes on from one call of its operation to a later one.       *)
LEMMA EditorMoves ==
  ASSUME NEW j, NEW n \in Nat, EditorOK(j, n), NEW j2 \in Job,
         j2.op = j.op, j2.left = j.left, j2.work = j.work,
         j2.at \in {"put", "queuePut", "countPut", "base", "keep", "queueUpload"}
           => j.at \in {"put", "queuePut", "countPut", "base", "keep",
                        "queueUpload"},
         j2.at \in {"put", "queuePut"} => j.at \in {"put", "queuePut"}
  PROVE  EditorOK(j2, n) /\ Limit(j.at, n) <= Limit(j2.at, n)
<1>1. j.at \in Pcs /\ j2.at \in Pcs
  BY DEF EditorOK, Job
<1>2. Limit(j.at, n) <= Limit(j2.at, n)
  BY <1>1, Limits
<1> QED  BY <1>2 DEF EditorOK

LEMMA EditorRests ==
  ASSUME OfflineInv, user'.saves = user.saves
  PROVE  EditorOK(Idle, user'.saves) /\ Top <= Limit(Idle.at, user'.saves)
<1>1. Limit("idle", user.saves) = 2 * user.saves + 2
  BY TopIs, Limits DEF Pcs
<1>2. Top <= 2 * user.saves + 2
  BY TopIs, ReplaysAre, Limits DEF Top
<1> QED  BY <1>1, <1>2, IdleIsAJob DEF EditorOK

LEMMA EditorFails ==
  ASSUME OfflineInv, Fail("editor"), WorldOK',
         user' \in User, user'.saves = user.saves,
         UNCHANGED queue, ServerOK(server'), server'.versions = server.versions
  PROVE  OfflineInv'
<1>1. Rejected(job["editor"]) = Idle
  BY DEF OfflineInv, EditorOK, Rejected
<1>2. Goto("editor", Idle)
  BY <1>1 DEF Fail
<1> QED  BY <1>2, EditorRests, EditorStill

LEMMA ReplayFails ==
  ASSUME OfflineInv, NEW t \in Replays, Fail(t), job[t].at \in Handling,
         WorldOK', user' \in User, user'.saves = user.saves,
         UNCHANGED queue, ServerOK(server'), server'.versions = server.versions
  PROVE  OfflineInv'
<1>1. ReplayOK(t, Rejected(job[t]), queue, server.versions, Top)
  BY TopIs, RejectedOK
<1> QED  BY <1>1, ReplayStill DEF Fail

(* The page is loaded anew, or an operation of the editor begins while a   *)
(* drain does.                                                             *)
LEMMA JobsAnew ==
  ASSUME OfflineInv, WorldOK', user' \in User, user'.saves = user.saves,
         UNCHANGED <<queue, server>>,
         NEW jobs, JobsOK(jobs, queue, server.versions, Top),
         EditorOK(jobs["editor"], user.saves),
         Top <= Limit(jobs["editor"].at, user.saves),
         job' = jobs \/ \E b : job' \in Drained(jobs, b)
  PROVE  OfflineInv'
<1>1. scenario \in Scenarios
  BY DEF OfflineInv, WorldOK
<1>2. JobsOK(job', queue, server.versions, Top) /\ job'["editor"] = jobs["editor"]
  BY <1>1, DrainedOK
<1>3. Top' = Limit(jobs["editor"].at, user.saves)
  BY <1>2 DEF Top
<1>4. server.versions \in Seq(Version) /\ Top \in Nat /\ user.saves \in Nat
  BY TopIs
<1>5. Top' \in Nat /\ Top <= Top'
  BY <1>3, <1>4, Limits DEF EditorOK, Job
<1>6. JobsOK(job', queue, server.versions, Top')
  <2>1. ASSUME NEW t \in Replays
        PROVE  ReplayOK(t, job'[t], queue, server.versions, Top')
    <3>1. ReplayOK(t, job'[t], queue, server.versions, Top)
      BY <1>2 DEF JobsOK
    <3>2. Prefix(server.versions, server.versions)
      BY <1>4, PrefixRefl
    <3> QED  BY <3>1, <3>2, <1>4, <1>5, ReplayStays
  <2> QED  BY <1>2, <2>1 DEF JobsOK
<1>7. QueueOK(queue, server.versions, Top')
  BY <1>4, <1>5, PrefixRefl, QueueKeeps DEF OfflineInv
<1>8. ServerOK(server)
  BY DEF OfflineInv
<1> QED  BY <1>2, <1>6, <1>7, <1>8 DEF OfflineInv

LEMMA Here ==
  ASSUME OfflineInv
  PROVE  /\ WorldOK /\ user \in User /\ ServerOK(server)
         /\ Answer \in Detail /\ Latest \in Versions /\ server \in Server
         /\ EditorOK(job["editor"], user.saves) /\ job["editor"] \in Job
         /\ Top = Limit(job["editor"].at, user.saves)
         /\ user.saves \in Nat
BY ConstantsAre DEF OfflineInv, Answer, Latest, ServerOK, Server, Detail, EditorOK,
                    Top, User

-----------------------------------------------------------------------------
(* The editor *)

LEMMA TopBound ==
  ASSUME OfflineInv
  PROVE  Top <= 2 * user.saves + 2
BY Here, Limits DEF Job

LEMMA StartLoadOK == OfflineInv /\ StartLoad => OfflineInv'
<1> SUFFICES ASSUME OfflineInv, StartLoad PROVE OfflineInv'
  OBVIOUS
<1> DEFINE j == [Idle EXCEPT !.op = "load", !.at = "open"]
           jobs == [job EXCEPT !["editor"] = j]
<1>1. /\ UNCHANGED <<world, online, server, cache, queue, page>>
      /\ user' = [user EXCEPT !.seen = None, !.unlocked = TRUE]
      /\ job' = jobs \/ job' \in Drained(jobs, page.draining)
  BY DEF StartLoad
<1>2. j \in Job /\ j.op = "load" /\ j.at = "open" /\ j.left = {}
  BY IdleIsAJob DEF Job, Ops, Pcs, Idle
<1> HIDE DEF j
<1>3. jobs["editor"] = j /\ jobs \in [Tasks -> Job]
  BY <1>2, TopIs, ReplaysAre
<1>4. JobsOK(jobs, queue, server.versions, Top)
  BY <1>3, TopIs, ReplaysAre DEF JobsOK
<1>5. EditorOK(j, user.saves)
  BY <1>2 DEF EditorOK
<1>6. Limit(j.at, user.saves) = 2 * user.saves + 2
  BY <1>2, TopIs, Limits DEF Pcs
<1>7. Top <= Limit(j.at, user.saves)
  BY <1>6, TopBound
<1>8. user' \in User /\ user'.saves = user.saves
  BY <1>1, Here DEF User
<1>9. WorldOK'
  BY <1>1, Here DEF WorldOK, world
<1> HIDE DEF jobs
<1> QED  BY <1>1, <1>3, <1>4, <1>5, <1>7, <1>8, <1>9, JobsAnew

LEMMA OpenOK == OfflineInv /\ Open => OfflineInv'
<1> SUFFICES ASSUME OfflineInv, Open PROVE OfflineInv'
  OBVIOUS
<1> DEFINE j == job["editor"]
<1>1. /\ UNCHANGED <<world, online, server, cache, queue, page, user>>
      /\ j.at = "open"
  BY DEF Open, At
<1>2. WorldOK' /\ user' \in User /\ user'.saves = user.saves /\ ServerOK(server')
  BY <1>1, Here DEF WorldOK, world
<1>3. ASSUME NEW d \in Detail, NEW pc \in {"noteOpen", "fetch"},
             Goto("editor", [j EXCEPT !.at = pc, !.detail = d])
      PROVE  OfflineInv'
  <2> DEFINE k == [j EXCEPT !.at = pc, !.detail = d]
  <2>1. /\ k \in Job /\ k.op = j.op /\ k.left = j.left /\ k.work = j.work
        /\ k.at = "noteOpen" \/ k.at = "fetch"
    BY <1>3, Here DEF Job, Pcs
  <2> HIDE DEF k
  <2>2. EditorOK(k, user.saves) /\ Top <= Limit(k.at, user.saves)
    BY <2>1, Here, EditorMoves
  <2> QED  BY <1>1, <1>2, <1>3, <2>2, EditorStill DEF k
<1>4. CASE Fail("editor")
  BY <1>1, <1>2, <1>4, EditorFails
<1>5. cache.meta # None => cache.meta \in Detail
  BY Here DEF WorldOK, Cache
<1> QED  BY <1>3, <1>4, <1>5, Here DEF Open

LEMMA OpenedOK ==
  ASSUME OfflineInv, NEW j, NEW seen \in Versions, Opened(j, seen), WorldOK',
         UNCHANGED queue, ServerOK(server'), server'.versions = server.versions
  PROVE  OfflineInv'
<1>1. user' \in User /\ user'.saves = user.saves /\ Goto("editor", Idle)
  BY Here DEF Opened, User
<1> QED  BY <1>1, EditorRests, EditorStill

LEMMA FetchOK == OfflineInv /\ Fetch => OfflineInv'
<1> SUFFICES ASSUME OfflineInv, Fetch PROVE OfflineInv'
  OBVIOUS
<1> DEFINE j == job["editor"]
<1>1. UNCHANGED <<world, online, server, cache, queue, page>> /\ j.at = "fetch"
  BY DEF Fetch, At
<1>2. WorldOK' /\ ServerOK(server')
  BY <1>1, Here DEF WorldOK, world
<1>3. CASE /\ Goto("editor", [j EXCEPT !.at = "label",
                                 !.work = server.versions[Latest].work,
                                 !.seen = Latest])
           /\ UNCHANGED user
  <2> DEFINE k == [j EXCEPT !.at = "label",
                            !.work = server.versions[Latest].work,
                            !.seen = Latest]
  <2>1. server.versions[Latest].work \in Works /\ Latest \in Versions
    <3>1. server.versions \in Seq(Version) /\ Latest \in 1 .. Len(server.versions)
      BY Here, TopIs, ConstantsAre DEF Latest, Versions
    <3>2. server.versions[Latest] \in Version
      BY <3>1, ElementOfSeq
    <3> QED  BY <3>2, Here DEF Version
  <2>2. k \in Job /\ k.op = j.op /\ k.left = j.left /\ k.at = "label"
    BY <2>1, Here DEF Job, Pcs
  <2> HIDE DEF k
  <2>3. EditorOK(k, user.saves)
    BY <2>2, Here DEF EditorOK
  <2>4. Top <= Limit(k.at, user.saves)
    BY <1>1, <2>2, Here, Limits DEF Job
  <2> QED  BY <1>1, <1>2, <1>3, <2>3, <2>4, Here, EditorStill DEF k
<1>4. CASE cache.blob # None
           /\ Opened([j EXCEPT !.work = cache.blob.buf], cache.blob.seen)
  <2>1. cache.blob.seen \in Versions
    BY <1>4, Here DEF WorldOK, Cache, Blob
  <2> QED  BY <1>1, <1>2, <1>4, <2>1, OpenedOK
<1>5. CASE Fail("editor") /\ UNCHANGED user
  BY <1>1, <1>2, <1>5, Here, EditorFails
<1> QED  BY <1>3, <1>4, <1>5 DEF Fetch

LEMMA VersionReadIs ==
  ASSUME OfflineInv, NEW v
  PROVE  /\ v \in VersionRead(cache.meta) => v \in Versions \cup {None}
         /\ v \in VersionRead(cache.blob) => v \in Versions \cup {None}
BY Here DEF VersionRead, WorldOK, Cache, Detail, Blob

LEMMA LabelOK == OfflineInv /\ Label => OfflineInv'
<1> SUFFICES ASSUME OfflineInv, Label PROVE OfflineInv'
  OBVIOUS
<1> DEFINE j == job["editor"]
<1>1. /\ UNCHANGED <<world, online, server, cache, queue, page, user>>
      /\ j.at = "label"
  BY DEF Label, At
<1>2. PICK v \in VersionRead(cache.meta) :
         Goto("editor", [j EXCEPT !.at = "store", !.base = v])
  BY DEF Label
<1>3. v \in Versions \cup {None}
  BY <1>2, VersionReadIs
<1> DEFINE k == [j EXCEPT !.at = "store", !.base = v]
<1>4. k \in Job /\ k.op = j.op /\ k.left = j.left /\ k.work = j.work /\ k.at = "store"
  BY <1>3, Here DEF Job, Pcs
<1> HIDE DEF k
<1>5. EditorOK(k, user.saves) /\ Top <= Limit(k.at, user.saves)
  BY <1>4, Here, EditorMoves
<1>6. WorldOK' /\ ServerOK(server') /\ user' \in User
  BY <1>1, Here DEF WorldOK, world
<1> QED  BY <1>1, <1>2, <1>5, <1>6, EditorStill DEF k

(* A record of bytes that is written to the cache, or not.                 *)
LEMMA CacheKeeps ==
  ASSUME OfflineInv, UNCHANGED <<world, online, page>>
  PROVE  /\ \A b \in Blob : WriteCache([cache EXCEPT !.blob = b]) => WorldOK'
         /\ \A d \in Detail : WriteCache([cache EXCEPT !.meta = d]) => WorldOK'
<1>1. ASSUME cache' \in Cache PROVE WorldOK'
  BY <1>1, Here DEF WorldOK, world
<1>2. cache \in Cache
  BY Here DEF WorldOK
<1>3. ASSUME NEW b \in Blob, WriteCache([cache EXCEPT !.blob = b])
      PROVE  cache' \in Cache
  BY <1>2, <1>3 DEF WriteCache, Cache
<1>4. ASSUME NEW d \in Detail, WriteCache([cache EXCEPT !.meta = d])
      PROVE  cache' \in Cache
  BY <1>2, <1>4 DEF WriteCache, Cache
<1> QED  BY <1>1, <1>3, <1>4

LEMMA StoreOK == OfflineInv /\ Store => OfflineInv'
<1> SUFFICES ASSUME OfflineInv, Store PROVE OfflineInv'
  OBVIOUS
<1> DEFINE j == job["editor"]
           b == [buf |-> j.work, version |-> j.base, seen |-> j.seen]
<1>1. /\ UNCHANGED <<world, online, server, queue, page>>
      /\ WriteCache([cache EXCEPT !.blob = b])
      /\ Opened(j, j.seen)
  BY DEF Store
<1>2. b \in Blob /\ j.seen \in Versions
  BY Here DEF Job, Blob
<1> HIDE DEF b
<1>3. WorldOK' /\ ServerOK(server')
  BY <1>1, <1>2, Here, CacheKeeps
<1> QED  BY <1>1, <1>2, <1>3, OpenedOK

LEMMA StartSaveOK == OfflineInv /\ StartSave => OfflineInv'
<1> SUFFICES ASSUME OfflineInv, StartSave PROVE OfflineInv'
  OBVIOUS
<1> DEFINE n == user.saves
           k == [Idle EXCEPT !.op = "save", !.at = "put", !.work = n + 1,
                             !.seen = user.seen]
<1>1. /\ UNCHANGED <<world, online, server, cache, queue, page>>
      /\ job["editor"].at = "idle" /\ user.seen # None /\ n < scenario.saves
      /\ Goto("editor", k)
      /\ user' = [user EXCEPT !.saves = @ + 1, !.whole = FALSE]
  BY DEF StartSave, Turn, At
<1>2. scenario.saves \in 0 .. MaxSaves
  BY Here, OfflineAssumption DEF WorldOK
<1>3. n \in Nat /\ n + 1 \in 0 .. MaxSaves /\ n + 1 \in Works /\ user.seen \in Versions
  BY <1>1, <1>2, Here, ConstantsAre DEF User, Works
<1>4. user' \in User /\ user'.saves = n + 1
  BY <1>1, <1>3, Here DEF User
<1>5. /\ k \in Job /\ k.op = "save" /\ k.left = {} /\ k.at = "put"
      /\ k.work = n + 1
  BY <1>3, IdleIsAJob DEF Job, Ops, Pcs, Idle
<1> HIDE DEF k
<1>6. EditorOK(k, user'.saves)
  BY <1>4, <1>5 DEF EditorOK
<1>7. Limit(k.at, user'.saves) = 2 * (n + 1)
  BY <1>3, <1>4, <1>5, Limits DEF Pcs
<1>8. Top <= Limit(k.at, user'.saves)
  BY <1>3, <1>7, TopBound
<1>9. WorldOK' /\ ServerOK(server')
  BY <1>1, Here DEF WorldOK, world
<1> QED  BY <1>1, <1>4, <1>6, <1>8, <1>9, EditorStill

(* The envelope of the server's row is replaced.                           *)
LEMMA PutServer ==
  ASSUME OfflineInv, NEW w \in Works, server' = [server EXCEPT !.envelope = w]
  PROVE  ServerOK(server') /\ server'.versions = server.versions
BY Here DEF ServerOK, Server

LEMMA PutOK == OfflineInv /\ Put => OfflineInv'
<1> SUFFICES ASSUME OfflineInv, Put PROVE OfflineInv'
  OBVIOUS
<1> DEFINE j == job["editor"]
<1>1. UNCHANGED <<world, online, cache, queue, page, user>> /\ j.at = "put"
  BY DEF Put, At
<1>2. WorldOK' /\ user' \in User /\ user'.saves = user.saves
  BY <1>1, Here DEF WorldOK, world
<1>3. ASSUME NEW pc \in {"base", "queuePut"},
             Goto("editor", [j EXCEPT !.at = pc]),
             ServerOK(server'), server'.versions = server.versions
      PROVE  OfflineInv'
  <2> DEFINE k == [j EXCEPT !.at = pc]
  <2>1. /\ k \in Job /\ k.op = j.op /\ k.left = j.left /\ k.work = j.work
        /\ k.at = "base" \/ k.at = "queuePut"
    BY <1>3, Here DEF Job, Pcs
  <2> HIDE DEF k
  <2>2. EditorOK(k, user.saves) /\ Top <= Limit(k.at, user.saves)
    BY <1>1, <2>1, Here, EditorMoves
  <2> QED  BY <1>1, <1>2, <1>3, <2>2, EditorStill DEF k
<1>4. CASE Call("editor", [server EXCEPT !.envelope = j.work],
                [j EXCEPT !.at = "base"])
  <2>1. CASE server' = [server EXCEPT !.envelope = j.work]
    <3>1. ServerOK(server') /\ server'.versions = server.versions
      BY <2>1, PutServer, Here DEF Job
    <3>2. Goto("editor", [j EXCEPT !.at = "base"]) \/ Fail("editor")
      BY <1>4 DEF Call
    <3> QED  BY <1>1, <1>2, <1>3, <3>1, <3>2, EditorFails
  <2>2. CASE UNCHANGED server /\ Fail("editor")
    BY <1>1, <1>2, <2>2, Here, EditorFails
  <2> QED  BY <1>4, <2>1, <2>2 DEF Call
<1>5. CASE Goto("editor", [j EXCEPT !.at = "queuePut"]) /\ UNCHANGED server
  BY <1>3, <1>5, Here
<1> QED  BY <1>4, <1>5 DEF Put

LEMMA ReadBaseOK == OfflineInv /\ ReadBase => OfflineInv'
<1> SUFFICES ASSUME OfflineInv, ReadBase PROVE OfflineInv'
  OBVIOUS
<1> DEFINE j == job["editor"]
<1>1. /\ UNCHANGED <<world, online, server, cache, queue, page, user>>
      /\ j.at = "base"
  BY DEF ReadBase, At
<1>2. PICK v \in VersionRead(cache.blob) :
         Goto("editor", [j EXCEPT !.at = "keep", !.base = v])
  BY DEF ReadBase
<1>3. v \in Versions \cup {None}
  BY <1>2, VersionReadIs
<1> DEFINE k == [j EXCEPT !.at = "keep", !.base = v]
<1>4. k \in Job /\ k.op = j.op /\ k.left = j.left /\ k.work = j.work /\ k.at = "keep"
  BY <1>3, Here DEF Job, Pcs
<1> HIDE DEF k
<1>5. EditorOK(k, user.saves) /\ Top <= Limit(k.at, user.saves)
  BY <1>1, <1>4, Here, EditorMoves
<1>6. WorldOK' /\ ServerOK(server') /\ user' \in User
  BY <1>1, Here DEF WorldOK, world
<1> QED  BY <1>1, <1>2, <1>5, <1>6, EditorStill DEF k

LEMMA KeepOK == OfflineInv /\ Keep => OfflineInv'
<1> SUFFICES ASSUME OfflineInv, Keep PROVE OfflineInv'
  OBVIOUS
<1> DEFINE j == job["editor"]
           b == [buf |-> j.work, version |-> j.base, seen |-> j.seen]
           k == [j EXCEPT !.at = IF online THEN "upload" ELSE "queueUpload"]
<1>1. /\ UNCHANGED <<world, online, server, queue, page, user>>
      /\ j.at = "keep" /\ WriteCache([cache EXCEPT !.blob = b])
      /\ Goto("editor", k)
  BY DEF Keep, At
<1>2. b \in Blob
  BY Here DEF Job, Blob
<1>3. /\ k \in Job /\ k.op = j.op /\ k.left = j.left /\ k.work = j.work
      /\ k.at = "upload" \/ k.at = "queueUpload"
  <2>1. CASE online
    BY <2>1, Here DEF Job, Pcs
  <2>2. CASE ~online
    BY <2>2, Here DEF Job, Pcs
  <2> QED  BY <2>1, <2>2
<1> HIDE DEF b, k
<1>4. EditorOK(k, user.saves) /\ Top <= Limit(k.at, user.saves)
  BY <1>1, <1>3, Here, EditorMoves
<1>5. WorldOK' /\ ServerOK(server') /\ user' \in User
  BY <1>1, <1>2, Here, CacheKeeps
<1> QED  BY <1>1, <1>4, <1>5, EditorStill

(* A call is queued under a key that was never given before.               *)
LEMMA EnqueueOK == OfflineInv /\ Enqueue => OfflineInv'
<1> SUFFICES ASSUME OfflineInv, Enqueue PROVE OfflineInv'
  OBVIOUS
<1> DEFINE j == job["editor"]
           op == IF j.at = "queuePut" THEN "updateVault" ELSE "uploadBlob"
           pc == IF j.at = "queuePut" THEN "countPut" ELSE "countUpload"
           k == [j EXCEPT !.at = pc]
           x == [seq |-> Key(j.work, op), op |-> op, work |-> j.work,
                 base |-> j.base, attempts |-> 0, seen |-> j.seen,
                 since |-> Latest]
           n == user.saves
<1>1. /\ UNCHANGED <<world, online, server, cache, page, user>>
      /\ j.at \in {"queuePut", "queueUpload"}
  BY DEF Enqueue, At
<1>2. WorldOK' /\ user' \in User /\ user'.saves = n /\ ServerOK(server')
  BY <1>1, Here DEF WorldOK, world
<1>3. CASE queue' = queue \cup {x} /\ Goto("editor", k)
  <2>1. j.work = n /\ n \in Nat /\ j.work \in Works
    BY <1>1, Here DEF EditorOK, Job
  <2>2. /\ k \in Job /\ k.op = j.op /\ k.left = j.left /\ k.work = j.work
        /\ k.at = pc
    BY <1>1, Here DEF Job, Pcs
  <2>3. /\ Top = Key(n, op)
        /\ Limit(k.at, n) = Key(n, op) + 1
        /\ Key(n, op) \in Nat
    <3>1. CASE j.at = "queuePut"
      BY <2>1, <2>2, <3>1, Here, Limits DEF Key, Pcs
    <3>2. CASE j.at = "queueUpload"
      BY <2>1, <2>2, <3>2, Here, Limits DEF Key, Pcs
    <3> QED  BY <1>1, <3>1, <3>2
  <2>4. EditorOK(k, n)
    BY <1>1, <2>1, <2>2, Here DEF EditorOK
  <2>5. x \in Entry /\ x.seq = Top /\ x.since = Len(server.versions)
    <3>1. 0 \in 0 .. 3 /\ j.base \in Versions \cup {None} /\ j.seen \in Versions
      BY Here DEF Job
    <3>2. op \in {"updateVault", "uploadBlob"}
      OBVIOUS
    <3> HIDE DEF op
    <3>3. x \in Entry
      BY <2>1, <2>3, <3>1, <3>2, Here DEF Entry
    <3> QED  BY <2>1, <2>3, <3>3 DEF Latest
  <2>6. EntryOK(x, server.versions, Limit(k.at, n))
    BY <2>1, <2>3, <2>5, TopIs, LenProperties DEF EntryOK
  <2>7. QueueOK(queue, server.versions, Limit(k.at, n))
    <3>1. Limit(k.at, n) \in Nat /\ Top <= Limit(k.at, n)
      BY <2>3
    <3> QED  BY <3>1, TopIs, PrefixRefl, QueueKeeps DEF OfflineInv
  <2>8. \A e \in queue : e.seq \in Nat /\ e.seq < Top
    BY DEF OfflineInv, QueueOK, EntryOK, Entry
  <2> HIDE DEF x, k
  <2>9. QueueOK(queue', server.versions, Limit(k.at, n))
    <3>1. IsFiniteSet(queue')
      BY <1>3, <2>7, FS_AddElement DEF QueueOK
    <3>2. \A e \in queue' : EntryOK(e, server.versions, Limit(k.at, n))
      BY <1>3, <2>6, <2>7 DEF QueueOK
    <3>3. \A e \in queue : e.seq # x.seq
      BY <2>5, <2>8, TopIs
    <3>4. \A e, f \in queue' : e.seq = f.seq => e = f
      BY <1>3, <2>7, <3>3 DEF QueueOK
    <3> QED  BY <3>1, <3>2, <3>4 DEF QueueOK
  <2>10. \A f \in queue' : f.seq >= Top \/ f \in queue
    BY <1>3, <2>5, TopIs
  <2>11. Top <= Limit(k.at, n)
    BY <2>3
  <2>12. Prefix(server.versions, server'.versions) /\ server' = server
    BY <1>1, TopIs, PrefixRefl
  <2> QED  BY <1>2, <1>3, <2>4, <2>9, <2>10, <2>11, <2>12, EditorStep
<1>4. CASE Fail("editor") /\ UNCHANGED queue
  BY <1>1, <1>2, <1>4, EditorFails
<1> QED  BY <1>3, <1>4 DEF Enqueue

LEMMA PagesAre ==
  ASSUME OfflineInv, NEW b \in BOOLEAN,
         NEW st \in {"idle", "syncing", "conflict", "error"}
  PROVE  /\ Cardinality(queue) \in Nat
         /\ [page EXCEPT !.pending = Cardinality(queue)] \in Page
         /\ [page EXCEPT !.draining = b] \in Page
         /\ [page EXCEPT !.draining = b, !.state = st] \in Page
         /\ [page EXCEPT !.state = st, !.pending = 0] \in Page
         /\ [page EXCEPT !.state = st, !.pending = Cardinality(queue)] \in Page
<1>1. Cardinality(queue) \in Nat
  BY FS_CardinalityType DEF OfflineInv, QueueOK
<1> QED  BY <1>1, Here DEF WorldOK, Page

LEMMA TakenKeeps ==
  ASSUME OfflineInv, NEW j \in Job, Taken(j)
  PROVE  user' \in User /\ user'.saves = user.saves
BY Here DEF Taken, User, Job

LEMMA CountOK == OfflineInv /\ Count => OfflineInv'
<1> SUFFICES ASSUME OfflineInv, Count PROVE OfflineInv'
  OBVIOUS
<1> DEFINE j == job["editor"]
<1>1. /\ UNCHANGED <<world, online, server, cache, queue>>
      /\ j.at \in {"countPut", "countUpload"}
  BY DEF Count, At
<1>2. ASSUME NEW pc \in {"base", "confirm"},
             pc = "base" => j.at = "countPut",
             Goto("editor", [j EXCEPT !.at = pc]),
             user' \in User, user'.saves = user.saves,
             page' = [page EXCEPT !.pending = Cardinality(queue)]
      PROVE  OfflineInv'
  <2> DEFINE k == [j EXCEPT !.at = pc]
  <2>1. /\ k \in Job /\ k.op = j.op /\ k.left = j.left /\ k.work = j.work
        /\ k.at = pc
    BY <1>2, Here DEF Job, Pcs
  <2> HIDE DEF k
  <2>2. EditorOK(k, user.saves) /\ Top <= Limit(k.at, user.saves)
    BY <1>2, <2>1, Here, EditorMoves
  <2>3. page' \in Page
    BY <1>2, PagesAre
  <2>4. WorldOK' /\ ServerOK(server')
    BY <1>1, <2>3, Here DEF WorldOK, world
  <2> QED  BY <1>1, <1>2, <2>2, <2>4, EditorStill DEF k
<1>3. CASE Fail("editor") /\ UNCHANGED <<page, user>>
  <2>1. WorldOK' /\ user' \in User /\ user'.saves = user.saves /\ ServerOK(server')
    BY <1>1, <1>3, Here DEF WorldOK, world
  <2> QED  BY <1>1, <1>3, <2>1, EditorFails
<1>4. CASE /\ page' = [page EXCEPT !.pending = Cardinality(queue)]
           /\ IF j.at = "countPut"
              THEN Goto("editor", [j EXCEPT !.at = "base"]) /\ UNCHANGED user
              ELSE Taken(j) /\ Goto("editor", [j EXCEPT !.at = "confirm"])
  <2>1. CASE j.at = "countPut"
    BY <1>2, <1>4, <2>1, Here
  <2>2. CASE j.at # "countPut"
    BY <1>2, <1>4, <2>2, Here, TakenKeeps
  <2> QED  BY <2>1, <2>2
<1> QED  BY <1>3, <1>4 DEF Count

-----------------------------------------------------------------------------
(* The calls that the editor shares with a replay *)

LEMMA AppendedServer ==
  ASSUME OfflineInv, NEW w \in Works, Latest < MaxVersions,
         server' = [server EXCEPT !.versions =
                      Append(@, [work |-> w, by |-> "here"])]
           \/ server' = [server EXCEPT !.versions =
                           Append(@, [work |-> w, by |-> "elsewhere"])]
  PROVE  /\ ServerOK(server') /\ Prefix(server.versions, server'.versions)
         /\ Len(server'.versions) = Latest + 1 /\ Latest + 1 \in Versions
         /\ server' = [server EXCEPT !.versions =
                         Append(@, [work |-> w, by |-> "here"])]
              => server'.versions[Latest + 1].by = "here"
<1> DEFINE v(by) == [work |-> w, by |-> by]
<1>1. v("here") \in Version /\ v("elsewhere") \in Version
  BY DEF Version
<1>2. server.versions \in Seq(Version) /\ Latest = Len(server.versions)
      /\ Latest \in Nat /\ Latest + 1 \in Versions
  BY TopIs, Here, ConstantsAre DEF Latest, Versions
<1>3. ASSUME NEW x \in Version
      PROVE  /\ Append(server.versions, x) \in Seq(Version)
             /\ Len(Append(server.versions, x)) = Latest + 1
             /\ \A i \in 1 .. Latest :
                   Append(server.versions, x)[i] = server.versions[i]
             /\ Append(server.versions, x)[Latest + 1] = x
  BY <1>2, AppendProperties
<1>4. PICK by \in {"here", "elsewhere"} :
         /\ server' = [server EXCEPT !.versions = Append(@, v(by))]
         /\ by = "elsewhere" =>
              server' # [server EXCEPT !.versions = Append(@, v("here"))]
  OBVIOUS
<1>5. v(by) \in Version
  BY <1>1, <1>4
<1>6. server'.versions = Append(server.versions, v(by)) /\ server' \in Server
  BY <1>3, <1>4, <1>5, Here DEF Server
<1>7. Prefix(server.versions, server'.versions)
  BY <1>2, <1>3, <1>5, <1>6 DEF Prefix
<1>8. by = "here" => server'.versions[Latest + 1].by = "here"
  BY <1>3, <1>5, <1>6
<1> QED  BY <1>2, <1>3, <1>4, <1>5, <1>6, <1>7, <1>8 DEF ServerOK

LEMMA HandlingNotEmpty ==
  ASSUME OfflineInv, NEW t \in Replays, job[t].at \in Handling
  PROVE  /\ First(job[t].left) \in job[t].left
         /\ EntryOK(First(job[t].left), server.versions, Top)
         /\ First(job[t].left) \in Entry
<1>1. job[t].left # {} /\ ReplayOK(t, job[t], queue, server.versions, Top)
  BY TopIs DEF ReplayOK
<1> QED  BY <1>1, FirstKnown DEF EntryOK

LEMMA UploadOK ==
  ASSUME OfflineInv, NEW t \in Tasks, Upload(t)
  PROVE  OfflineInv'
<1> DEFINE j == job[t]
           grown == [server EXCEPT !.versions =
                       Append(@, [work |-> j.work, by |-> "here"])]
           k == [j EXCEPT !.at = "refresh", !.seen = Latest + 1]
<1>1. UNCHANGED <<world, online, cache, queue, page, user>> /\ j.at = "upload"
  BY DEF Upload, At
<1>2. WorldOK' /\ user' \in User /\ user'.saves = user.saves
  BY <1>1, Here DEF WorldOK, world
<1>3. j \in Job /\ j.work \in Works
  BY TopIs DEF Job
<1>4. ASSUME Fail(t), ServerOK(server'), server'.versions = server.versions
      PROVE  OfflineInv'
  <2>1. CASE t = "editor"
    BY <1>1, <1>2, <1>4, <2>1, EditorFails
  <2>2. CASE t # "editor"
    BY <1>1, <1>2, <1>4, <2>2, ReplayFails DEF Replays, Handling
  <2> QED  BY <2>1, <2>2
<1>5. CASE Fail(t) /\ UNCHANGED server
  BY <1>4, <1>5, Here
<1>6. CASE Latest < MaxVersions /\ server' = grown /\ (Goto(t, k) \/ Fail(t))
  <2>0. Goto(t, k) \/ Fail(t)
    BY <1>6
  <2>1. /\ ServerOK(server') /\ Prefix(server.versions, server'.versions)
        /\ Len(server'.versions) = Latest + 1 /\ Latest + 1 \in Versions
        /\ server'.versions[Latest + 1].by = "here"
    BY <1>3, <1>6, AppendedServer
  <2>2. /\ server.versions \in Seq(Version) /\ server'.versions \in Seq(Version)
        /\ Top \in Nat /\ Latest = Len(server.versions)
    BY <2>1, TopIs DEF ServerOK, Server, Latest
  <2>3. QueueOK(queue, server'.versions, Top)
    BY <2>1, <2>2, QueueKeeps DEF OfflineInv
  <2>4. k \in Job /\ k.op = j.op /\ k.left = j.left /\ k.work = j.work
        /\ k.at = "refresh"
    BY <1>3, <2>1 DEF Job, Pcs
  <2>5. CASE t = "editor"
    <3>1. ASSUME NEW m, Goto("editor", m), EditorOK(m, user.saves),
                 Top <= Limit(m.at, user.saves)
          PROVE  OfflineInv'
      <4>1. Limit(m.at, user.saves) \in Nat
        BY <3>1, TopIs, Limits DEF EditorOK, Job
      <4>2. QueueOK(queue, server'.versions, Limit(m.at, user.saves))
        BY <2>1, <2>2, <3>1, <4>1, QueueKeeps DEF OfflineInv
      <4> QED  BY <1>1, <1>2, <2>1, <3>1, <4>2, EditorStep
    <3> HIDE DEF k
    <3>2. EditorOK(k, user.saves) /\ Top <= Limit(k.at, user.saves)
      BY <1>1, <2>4, <2>5, Here, EditorMoves
    <3>3. EditorOK(Idle, user.saves) /\ Top <= Limit(Idle.at, user.saves)
      BY <1>1, EditorRests
    <3>4. Rejected(job["editor"]) = Idle
      BY Here DEF EditorOK, Rejected
    <3>5. Fail(t) => Goto(t, Idle)
      BY <2>5, <3>4 DEF Fail
    <3> QED  BY <2>0, <2>5, <3>1, <3>2, <3>3, <3>5
  <2>6. CASE t # "editor"
    <3>1. t \in Replays /\ j.at \in Handling
      BY <1>1, <2>6 DEF Replays, Handling
    <3>2. ReplayOK(t, j, queue, server.versions, Top)
      BY <3>1, TopIs
    <3>3. ReplayOK(t, j, queue, server'.versions, Top)
      <4>1. Top <= Top
        BY <2>2
      <4>2. /\ server.versions \in Seq(Version) /\ server'.versions \in Seq(Version)
            /\ Top \in Nat /\ Prefix(server.versions, server'.versions)
        BY <2>1, <2>2
      <4> HIDE DEF j
      <4> QED  BY <3>2, <4>1, <4>2, ReplayStays
    <3>4. ReplayOK(t, Rejected(j), queue, server'.versions, Top)
      BY <3>1, <3>3, RejectedOK
    <3>5. Sent(First(j.left), server'.versions)
      <4>1. First(j.left).since <= Latest /\ First(j.left).since \in Nat
        BY <2>2, <3>1, HandlingNotEmpty, ConstantsAre DEF EntryOK, Entry
      <4> DEFINE m == First(j.left).since
      <4>2. m \in Nat /\ Latest \in Nat /\ m <= Latest /\ Len(server'.versions) = Latest + 1
        BY <2>1, <4>1, Here, ConstantsAre
      <4> HIDE DEF m
      <4>3. Latest + 1 \in m + 1 .. Len(server'.versions)
        BY <4>2
      <4> QED  BY <2>1, <4>3 DEF Sent, m
    <3>6. j.left # {}
      BY <3>1, <3>2 DEF ReplayOK
    <3> HIDE DEF k
    <3>7. ReplayOK(t, k, queue, server'.versions, Top)
      BY <2>4, <3>3, <3>5, <3>6, MovesOK DEF ReplayPcs, Handling
    <3>8. Goto(t, k) \/ Goto(t, Rejected(j))
      BY <2>0 DEF Fail
    <3>9. \A f \in queue' : \E e \in queue : e.seq = f.seq /\ e.since = f.since
      BY <1>1
    <3>10. QueueOK(queue', server'.versions, Top) /\ queue' = queue
      BY <1>1, <2>3
    <3> QED
      BY <1>2, <2>1, <3>1, <3>4, <3>7, <3>8, <3>9, <3>10, ReplayStep
  <2> QED  BY <2>5, <2>6
<1> QED  BY <1>5, <1>6 DEF Upload, Call

(* Going on to another call of the same delivery.                          *)
LEMMA DeliverOn ==
  ASSUME OfflineInv, NEW t \in Tasks, NEW k \in Job, Goto(t, k),
         WorldOK', user' \in User, user'.saves = user.saves,
         UNCHANGED <<queue, server>>,
         k.op = job[t].op, k.left = job[t].left, k.work = job[t].work,
         \/ job[t].at = "refresh" /\ k.at = "note"
         \/ job[t].at = "note" /\ k.at = "tag"
         \/ job[t].at = "tag" /\ k.at = "dequeue" /\ t # "editor"
         \/ job[t].at \in {"confirm", "noteOpen", "tag"} /\ t = "editor"
              /\ k.at \in {"noteConfirm", "fetch", "confirm"}
  PROVE  OfflineInv'
<1>1. ServerOK(server')
  BY Here
<1>2. CASE t = "editor"
  <2>1. EditorOK(k, user.saves) /\ Top <= Limit(k.at, user.saves)
    BY <1>2, Here, EditorMoves
  <2> QED  BY <1>1, <1>2, <2>1, EditorStill
<1>3. CASE t # "editor"
  <2>1. t \in Replays /\ job[t].at \in {"refresh", "note", "tag"}
    BY <1>3 DEF Replays
  <2>2. ReplayOK(t, job[t], queue, server.versions, Top)
    BY <2>1, TopIs
  <2>3. Sent(First(job[t].left), server.versions) /\ job[t].left # {}
    BY <2>1, <2>2 DEF ReplayOK, Handling
  <2>4. k.at \in {"note", "tag", "dequeue"}
    BY <1>3
  <2>5. ReplayOK(t, k, queue, server.versions, Top)
    BY <2>2, <2>3, <2>4, MovesOK DEF ReplayPcs, Handling
  <2> QED  BY <1>1, <2>1, <2>5, ReplayStill
<1> QED  BY <1>2, <1>3

LEMMA RefreshOK ==
  ASSUME OfflineInv, NEW t \in Tasks, Refresh(t)
  PROVE  OfflineInv'
<1> DEFINE j == job[t]
           k == [j EXCEPT !.detail = Answer,
                   !.at = IF @ = "refresh" THEN "note" ELSE "noteConfirm"]
<1>1. /\ UNCHANGED <<world, online, server, cache, queue, page, user>>
      /\ j.at \in {"refresh", "confirm"} /\ (Goto(t, k) \/ Fail(t))
  BY DEF Refresh, At
<1>2. /\ WorldOK' /\ user' \in User /\ user'.saves = user.saves
      /\ ServerOK(server') /\ j \in Job
  BY <1>1, Here, TopIs DEF WorldOK, world
<1>3. t # "editor" => t \in Replays /\ j.at \in Handling
  <2> SUFFICES ASSUME t # "editor" PROVE t \in Replays /\ j.at \in Handling
    OBVIOUS
  <2>1. t \in Replays
    BY DEF Replays
  <2>2. j.at \in ReplayPcs
    BY <2>1, TopIs DEF ReplayOK
  <2> QED  BY <1>1, <2>1, <2>2 DEF ReplayPcs, Handling
<1>4. CASE Fail(t)
  BY <1>1, <1>2, <1>3, <1>4, EditorFails, ReplayFails
<1>5. CASE Goto(t, k)
  <2>1. k \in Job /\ k.op = j.op /\ k.left = j.left /\ k.work = j.work
        /\ k.at = IF j.at = "refresh" THEN "note" ELSE "noteConfirm"
    BY <1>2, Here DEF Job, Pcs
  <2> HIDE DEF k
  <2>2. t # "editor" => j.at = "refresh"
    BY <1>1, <1>3 DEF Handling
  <2> QED  BY <1>1, <1>2, <1>5, <2>1, <2>2, DeliverOn
<1> QED  BY <1>1, <1>4, <1>5

LEMMA NoteOK ==
  ASSUME OfflineInv, NEW t \in Tasks, Note(t)
  PROVE  OfflineInv'
<1> DEFINE j == job[t]
           k == [j EXCEPT !.at = IF @ = "note" THEN "tag" ELSE "fetch"]
<1>1. /\ UNCHANGED <<world, online, server, queue, page, user>>
      /\ j.at \in {"note", "noteConfirm", "noteOpen"}
      /\ WriteCache([cache EXCEPT !.meta = j.detail])
      /\ Goto(t, IF j.at = "noteConfirm" THEN Idle ELSE k)
  BY DEF Note, At
<1>2. j \in Job /\ j.detail \in Detail
  BY TopIs DEF Job
<1>3. /\ WorldOK' /\ user' \in User /\ user'.saves = user.saves
      /\ ServerOK(server')
  BY <1>1, <1>2, Here, CacheKeeps
<1>4. t # "editor" => j.at = "note"
  <2> SUFFICES ASSUME t # "editor" PROVE j.at = "note"
    OBVIOUS
  <2>1. t \in Replays
    BY DEF Replays
  <2>2. j.at \in ReplayPcs
    BY <2>1, TopIs DEF ReplayOK
  <2> QED  BY <1>1, <2>2 DEF ReplayPcs, Handling
<1>5. CASE j.at = "noteConfirm"
  <2>1. t = "editor" /\ Goto("editor", Idle)
    BY <1>1, <1>4, <1>5
  <2> QED  BY <1>1, <1>3, <2>1, EditorRests, EditorStill
<1>6. CASE j.at # "noteConfirm"
  <2>1. k \in Job /\ k.op = j.op /\ k.left = j.left /\ k.work = j.work
        /\ k.at = IF j.at = "note" THEN "tag" ELSE "fetch"
    BY <1>2 DEF Job, Pcs
  <2>2. Goto(t, k)
    BY <1>1, <1>6
  <2> HIDE DEF k
  <2> QED  BY <1>1, <1>3, <1>4, <1>6, <2>1, <2>2, DeliverOn
<1> QED  BY <1>5, <1>6

LEMMA TagOK ==
  ASSUME OfflineInv, NEW t \in Tasks, Tag(t)
  PROVE  OfflineInv'
<1> DEFINE j == job[t]
           b == [buf |-> j.work, version |-> j.detail.version, seen |-> j.seen]
<1>1. /\ UNCHANGED <<world, online, server, queue, page>> /\ j.at = "tag"
      /\ WriteCache([cache EXCEPT !.blob = b])
  BY DEF Tag, At
<1>2. j \in Job /\ b \in Blob
  BY TopIs DEF Job, Blob, Detail
<1> HIDE DEF b
<1>3. WorldOK'
  BY <1>1, <1>2, CacheKeeps
<1>4. ASSUME NEW pc \in {"confirm", "dequeue"},
             Goto(t, [j EXCEPT !.at = pc]),
             pc = "confirm" <=> t = "editor",
             user' \in User, user'.saves = user.saves
      PROVE  OfflineInv'
  <2> DEFINE k == [j EXCEPT !.at = pc]
  <2>1. k \in Job /\ k.op = j.op /\ k.left = j.left /\ k.work = j.work
        /\ k.at = pc /\ Goto(t, k)
    BY <1>2, <1>4 DEF Job, Pcs
  <2> HIDE DEF k
  <2>2. UNCHANGED <<queue, server>>
    BY <1>1
  <2>3. \/ job[t].at = "tag" /\ k.at = "dequeue" /\ t # "editor"
        \/ job[t].at = "tag" /\ t = "editor" /\ k.at = "confirm"
    BY <1>1, <1>4, <2>1
  <2> QED  BY <1>3, <1>4, <2>1, <2>2, <2>3, DeliverOn
<1>5. CASE t = "editor"
  <2>1. Taken(j) /\ Goto(t, [j EXCEPT !.at = "confirm"])
    BY <1>5 DEF Tag
  <2>2. user' \in User /\ user'.saves = user.saves
    BY <1>2, <2>1, TakenKeeps
  <2> QED  BY <1>4, <1>5, <2>1, <2>2
<1>6. CASE t # "editor"
  <2>1. /\ Goto(t, [j EXCEPT !.at = "dequeue"])
        /\ user' = user \/ user' = [user EXCEPT !.seen = j.seen]
    BY <1>6 DEF Tag
  <2>2. user' \in User /\ user'.saves = user.saves
    BY <1>2, <2>1, Here DEF User, Job
  <2> QED  BY <1>4, <1>6, <2>1, <2>2
<1> QED  BY <1>5, <1>6

-----------------------------------------------------------------------------
(* Replaying the queue *)

LEMMA SendPutOK ==
  ASSUME OfflineInv, NEW t \in Replays, SendPut(t)
  PROVE  OfflineInv'
<1> DEFINE j == job[t]
           w == First(j.left).work
           k == [j EXCEPT !.at = "dequeue"]
<1>1. /\ UNCHANGED <<world, online, cache, queue, page, user>> /\ j.at = "put"
      /\ Call(t, [server EXCEPT !.envelope = w], k)
  BY DEF SendPut, At
<1>2. WorldOK' /\ user' \in User /\ user'.saves = user.saves
  BY <1>1, Here DEF WorldOK, world
<1>3. j.at \in Handling /\ ReplayOK(t, j, queue, server.versions, Top)
  BY <1>1, TopIs DEF Handling
<1>4. w \in Works
  BY <1>3, HandlingNotEmpty DEF Entry
<1>5. ServerOK(server') /\ server'.versions = server.versions
  BY <1>1, <1>4, PutServer, Here DEF Call
<1>6. CASE Fail(t)
  BY <1>1, <1>2, <1>3, <1>5, <1>6, ReplayFails
<1>7. CASE Goto(t, k)
  <2>1. k \in Job /\ k.op = j.op /\ k.left = j.left /\ k.at = "dequeue"
    BY <1>3 DEF ReplayOK, Job, Pcs
  <2>2. j.left # {} /\ First(j.left).op = "updateVault"
    BY <1>1, <1>3 DEF ReplayOK
  <2> HIDE DEF k
  <2>3. ReplayOK(t, k, queue, server.versions, Top)
    BY <1>3, <2>1, <2>2, MovesOK DEF ReplayPcs, Handling
  <2> QED  BY <1>1, <1>2, <1>5, <1>7, <2>3, ReplayStill
<1> QED  BY <1>1, <1>6, <1>7 DEF Call

LEMMA ReadCachedOK ==
  ASSUME OfflineInv, NEW t \in Replays, ReadCached(t)
  PROVE  OfflineInv'
<1> DEFINE j == job[t]
           k == [j EXCEPT !.at = "upload", !.work = cache.blob.buf]
<1>1. /\ UNCHANGED <<world, online, server, cache, queue, page, user>>
      /\ j.at = "read"
      /\ (cache.blob # None /\ Goto(t, k)) \/ Fail(t)
  BY DEF ReadCached, At
<1>2. /\ WorldOK' /\ user' \in User /\ user'.saves = user.saves
      /\ ServerOK(server')
  BY <1>1, Here DEF WorldOK, world
<1>3. j.at \in Handling /\ ReplayOK(t, j, queue, server.versions, Top)
  BY <1>1, TopIs DEF Handling
<1>4. CASE Fail(t)
  BY <1>1, <1>2, <1>3, <1>4, ReplayFails
<1>5. CASE cache.blob # None /\ Goto(t, k)
  <2>1. cache.blob.buf \in Works
    BY <1>5, Here DEF WorldOK, Cache, Blob
  <2>2. k \in Job /\ k.op = j.op /\ k.left = j.left /\ k.at = "upload"
    BY <1>3, <2>1 DEF ReplayOK, Job, Pcs
  <2>3. j.left # {}
    BY <1>3 DEF ReplayOK
  <2> HIDE DEF k
  <2>4. ReplayOK(t, k, queue, server.versions, Top)
    BY <1>3, <2>2, <2>3, MovesOK DEF ReplayPcs, Handling
  <2> QED  BY <1>1, <1>2, <1>5, <2>4, ReplayStill
<1> QED  BY <1>1, <1>4, <1>5

(* A smaller queue is as good.                                             *)
LEMMA SmallerQueue ==
  ASSUME OfflineInv, NEW t \in Replays, NEW j, Goto(t, j),
         UNCHANGED <<world, online, server, cache, page>>,
         user' \in User, user'.saves = user.saves,
         queue' \subseteq queue,
         ReplayOK(t, j, queue, server.versions, Top)
  PROVE  OfflineInv'
<1>1. WorldOK' /\ ServerOK(server') /\ server' = server
  BY Here DEF WorldOK, world
<1>2. QueueOK(queue', server.versions, Top)
  <2>1. IsFiniteSet(queue')
    BY FS_Subset DEF OfflineInv, QueueOK
  <2> QED  BY <2>1 DEF OfflineInv, QueueOK
<1>3. /\ server.versions \in Seq(Version) /\ Top \in Nat /\ Top <= Top
      /\ Prefix(server.versions, server.versions)
  BY TopIs, PrefixRefl
<1>4. \A f \in queue' : \E e \in queue : e.seq = f.seq /\ e.since = f.since
  OBVIOUS
<1>5. ReplayOK(t, j, queue', server.versions, Top)
  <2>1. \A f \in queue' :
          \/ f.seq >= Top
          \/ \E e \in queue : e.seq = f.seq /\ e.since = f.since
    BY <1>4
  <2> QED  BY <2>1, <1>3, ReplayKeeps
<1> QED  BY <1>1, <1>2, <1>3, <1>4, <1>5, ReplayStep

LEMMA RemoveShrinks ==
  ASSUME NEW t, Remove(t)
  PROVE  queue' \subseteq queue
BY DEF Remove

LEMMA DequeueOK ==
  ASSUME OfflineInv, NEW t \in Replays, Dequeue(t)
  PROVE  OfflineInv'
<1>1. /\ UNCHANGED <<world, online, server, cache, page, user>>
      /\ job[t].at = "dequeue"
  BY DEF Dequeue, At
<1>2. user' \in User /\ user'.saves = user.saves
  BY <1>1, Here
<1>3. /\ job[t].at \in Handling
      /\ ReplayOK(t, job[t], queue, server.versions, Top)
  BY <1>1, TopIs DEF Handling
<1>4. CASE Remove(t) /\ Goto(t, Skip(job[t]))
  <2>1. ReplayOK(t, Skip(job[t]), queue, server.versions, Top)
    BY <1>3, SkipOK
  <2> QED  BY <1>1, <1>2, <1>4, <2>1, RemoveShrinks, SmallerQueue
<1>5. CASE Fail(t) /\ UNCHANGED queue
  <2>1. WorldOK' /\ ServerOK(server') /\ server' = server
    BY <1>1, Here DEF WorldOK, world
  <2> QED  BY <1>2, <1>3, <1>5, <2>1, ReplayFails
<1> QED  BY <1>4, <1>5 DEF Dequeue

LEMMA ReconsiderOK ==
  ASSUME OfflineInv, NEW t \in Replays, Reconsider(t)
  PROVE  OfflineInv'
<1>1. /\ UNCHANGED <<world, online, server, cache, page>>
      /\ queue' \subseteq queue
      /\ Goto(t, Skip(job[t])) \/ Goto(t, Idle)
      /\ user' = user \/ user' = [user EXCEPT !.dropped = TRUE]
  BY RemoveShrinks DEF Reconsider
<1>2. user' \in User /\ user'.saves = user.saves
  BY <1>1, Here DEF User
<1>3. /\ ReplayOK(t, Skip(job[t]), queue, server.versions, Top)
      /\ ReplayOK(t, Idle, queue, server.versions, Top)
  BY TopIs, SkipOK, IdleOK
<1> QED  BY <1>1, <1>2, <1>3, SmallerQueue

(* What counting an attempt makes of an entry.                             *)
Counted(e, t) ==
    IF e.seq = First(job[t].left).seq /\ e.attempts < 3
    THEN [e EXCEPT !.attempts = @ + 1] ELSE e

LEMMA CountedIs ==
  ASSUME NEW t, NEW e \in Entry
  PROVE  /\ Counted(e, t) \in Entry
         /\ Counted(e, t).seq = e.seq /\ Counted(e, t).since = e.since
         /\ Counted(e, t).work = e.work /\ Counted(e, t).op = e.op
<1>1. CASE e.seq = First(job[t].left).seq /\ e.attempts < 3
  <2>1. e.attempts + 1 \in 0 .. 3
    BY <1>1 DEF Entry
  <2>2. Counted(e, t) = [e EXCEPT !.attempts = e.attempts + 1]
    BY <1>1 DEF Counted
  <2> QED  BY <2>1, <2>2 DEF Entry
<1>2. CASE ~(e.seq = First(job[t].left).seq /\ e.attempts < 3)
  BY <1>2 DEF Counted
<1> QED  BY <1>1, <1>2

LEMMA AttemptOK ==
  ASSUME OfflineInv, NEW t \in Replays, Attempt(t)
  PROVE  OfflineInv'
<1> DEFINE j == job[t]
           k == [j EXCEPT !.at = "reconsider", !.error = TRUE]
           counted == {Counted(e, t) : e \in queue}
<1>1. /\ UNCHANGED <<world, online, server, cache, page, user>>
      /\ j.at = "failed" /\ Goto(t, k)
      /\ queue' = counted \/ queue' = queue
  BY DEF Attempt, At, Counted
<1>2. /\ WorldOK' /\ user' \in User /\ user'.saves = user.saves
      /\ ServerOK(server')
  BY <1>1, Here DEF WorldOK, world
<1>3. j.at \in Handling /\ ReplayOK(t, j, queue, server.versions, Top)
  BY <1>1, TopIs DEF Handling
<1>4. k \in Job /\ k.op = j.op /\ k.left = j.left /\ k.at = "reconsider"
  BY <1>3 DEF ReplayOK, Job, Pcs
<1>5. j.left # {}
  BY <1>3 DEF ReplayOK
<1> HIDE DEF k
<1>6. ReplayOK(t, k, queue, server.versions, Top)
  BY <1>3, <1>4, <1>5, MovesOK DEF ReplayPcs, Handling
<1>7. CASE queue' = queue
  BY <1>1, <1>2, <1>6, <1>7, ReplayStill
<1>8. CASE queue' = counted
  <2>1. \A e \in queue : EntryOK(e, server.versions, Top) /\ e \in Entry
    BY DEF OfflineInv, QueueOK, EntryOK
  <2>2. \A f \in counted : \E e \in queue : e.seq = f.seq /\ e.since = f.since
    BY <2>1, CountedIs
  <2>3. QueueOK(counted, server.versions, Top)
    <3>1. IsFiniteSet(counted)
      <4> DEFINE f == [e \in queue |-> Counted(e, t)]
      <4>1. f \in Surjection(queue, counted)
        BY DEF Surjection
      <4>2. IsFiniteSet(queue)
        BY DEF OfflineInv, QueueOK
      <4> QED  BY <4>1, <4>2, FS_Surjection
    <3>2. \A f \in counted : EntryOK(f, server.versions, Top)
      BY <2>1, CountedIs DEF EntryOK
    <3>3. \A f, g \in counted : f.seq = g.seq => f = g
      <4> SUFFICES ASSUME NEW d \in queue, NEW e \in queue,
                          Counted(d, t).seq = Counted(e, t).seq
                   PROVE  Counted(d, t) = Counted(e, t)
        OBVIOUS
      <4>1. d.seq = e.seq
        BY <2>1, CountedIs
      <4>2. d = e
        BY <4>1 DEF OfflineInv, QueueOK
      <4> QED  BY <4>2
    <3> QED  BY <3>1, <3>2, <3>3 DEF QueueOK
  <2> HIDE DEF counted
  <2>4. /\ server.versions \in Seq(Version) /\ Top \in Nat /\ Top <= Top
        /\ Prefix(server.versions, server.versions)
    BY TopIs, PrefixRefl
  <2>5. ReplayOK(t, k, counted, server.versions, Top)
    <3>1. \A f \in counted :
            \/ f.seq >= Top
            \/ \E e \in queue : e.seq = f.seq /\ e.since = f.since
      BY <2>2
    <3> QED  BY <3>1, <1>6, <2>4, ReplayKeeps
  <2>6. server' = server
    BY <1>1
  <2> QED  BY <1>1, <1>2, <1>8, <2>2, <2>3, <2>4, <2>5, <2>6, ReplayStep
<1> QED  BY <1>1, <1>7, <1>8

LEMMA CheckOK ==
  ASSUME OfflineInv, NEW t \in Replays, Check(t)
  PROVE  OfflineInv'
<1> DEFINE j == job[t]
           k == [j EXCEPT !.at = "read"]
           m == [Skip(j) EXCEPT !.conflict = TRUE]
<1>1. /\ UNCHANGED <<world, online, server, cache, queue, page, user>>
      /\ j.at = "check" /\ (Goto(t, k) \/ Goto(t, m) \/ Fail(t))
  BY DEF Check, At
<1>2. /\ WorldOK' /\ user' \in User /\ user'.saves = user.saves
      /\ ServerOK(server')
  BY <1>1, Here DEF WorldOK, world
<1>3. j.at \in Handling /\ ReplayOK(t, j, queue, server.versions, Top)
  BY <1>1, TopIs DEF Handling
<1>4. CASE Fail(t)
  BY <1>1, <1>2, <1>3, <1>4, ReplayFails
<1>5. CASE Goto(t, k)
  <2>1. k \in Job /\ k.op = j.op /\ k.left = j.left /\ k.at = "read"
    BY <1>3 DEF ReplayOK, Job, Pcs
  <2>2. j.left # {}
    BY <1>3 DEF ReplayOK
  <2> HIDE DEF k
  <2>3. ReplayOK(t, k, queue, server.versions, Top)
    BY <1>3, <2>1, <2>2, MovesOK DEF ReplayPcs, Handling
  <2> QED  BY <1>1, <1>2, <1>5, <2>3, ReplayStill
<1>6. CASE Goto(t, m)
  <2>1. ReplayOK(t, Skip(j), queue, server.versions, Top)
    BY <1>3, SkipOK
  <2> DEFINE sk == Skip(j)
  <2>2. sk \in Job
    BY <2>1 DEF ReplayOK
  <2> HIDE DEF sk
  <2>3. /\ [sk EXCEPT !.conflict = TRUE] \in Job
        /\ [sk EXCEPT !.conflict = TRUE].op = sk.op
        /\ [sk EXCEPT !.conflict = TRUE].left = sk.left
        /\ [sk EXCEPT !.conflict = TRUE].at = sk.at
    BY <2>2 DEF Job
  <2>4. ReplayOK(t, m, queue, server.versions, Top)
    BY <2>1, <2>3 DEF sk, ReplayOK
  <2> HIDE DEF m
  <2> QED  BY <1>1, <1>2, <1>6, <2>4, ReplayStill
<1> QED  BY <1>1, <1>4, <1>5, <1>6

LEMMA SnapshotOK ==
  ASSUME OfflineInv, NEW t \in Replays, Snapshot(t)
  PROVE  OfflineInv'
<1> DEFINE j == job[t]
           k == [j EXCEPT !.left = queue]
<1>1. /\ UNCHANGED <<world, online, server, cache, queue, user>>
      /\ Goto(t, Idle) \/ Goto(t, Continue(k))
      /\ \/ page' = page
         \/ page' = [page EXCEPT !.draining = TRUE, !.state = "syncing"]
  BY DEF Snapshot
<1>2. page' \in Page
  BY <1>1, PagesAre, Here DEF WorldOK
<1>3. /\ WorldOK' /\ user' \in User /\ user'.saves = user.saves
      /\ ServerOK(server')
  BY <1>1, <1>2, Here DEF WorldOK, world
<1>4. ReplayOK(t, j, queue, server.versions, Top)
  BY TopIs
<1>5. queue \subseteq Entry /\ QueueOK(queue, server.versions, Top)
  BY DEF OfflineInv, QueueOK, EntryOK
<1>6. k \in Job /\ k.op = j.op /\ k.left = queue
  BY <1>4, <1>5 DEF ReplayOK, Job
<1> HIDE DEF k
<1>7. ReplayOK(t, Continue(k), queue, server.versions, Top)
  <2>1. k.op \in OpsOf(t)
    BY <1>4, <1>6 DEF ReplayOK
  <2>2. \A e \in k.left : EntryOK(e, server.versions, Top)
    BY <1>5, <1>6 DEF QueueOK
  <2>3. \A e \in k.left, f \in queue : e.seq = f.seq => e.since = f.since
    BY <1>5, <1>6 DEF QueueOK
  <2> QED  BY <1>6, <2>1, <2>2, <2>3, ContinueOK
<1>8. ReplayOK(t, Idle, queue, server.versions, Top)
  BY IdleOK
<1> QED  BY <1>1, <1>3, <1>7, <1>8, ReplayStill

LEMMA FinishOK ==
  ASSUME OfflineInv, NEW t \in Replays, Finish(t)
  PROVE  OfflineInv'
<1> DEFINE j == job[t]
           k == [j EXCEPT !.at = "report"]
<1>1. /\ UNCHANGED <<world, online, server, cache, queue, user>>
      /\ page' = [page EXCEPT !.draining = FALSE] /\ Goto(t, k)
  BY DEF Finish
<1>2. page' \in Page
  BY <1>1, PagesAre
<1>3. /\ WorldOK' /\ user' \in User /\ user'.saves = user.saves
      /\ ServerOK(server')
  BY <1>1, <1>2, Here DEF WorldOK, world
<1>4. ReplayOK(t, j, queue, server.versions, Top)
  BY TopIs
<1>5. k \in Job /\ k.op = j.op /\ k.left = j.left /\ k.at = "report"
  BY <1>4 DEF ReplayOK, Job, Pcs
<1> HIDE DEF k
<1>6. ReplayOK(t, k, queue, server.versions, Top)
  BY <1>4, <1>5, MovesOK DEF ReplayPcs, Handling
<1> QED  BY <1>1, <1>3, <1>6, ReplayStill

LEMMA ReportOK ==
  ASSUME OfflineInv, NEW t \in Replays, Report(t)
  PROVE  OfflineInv'
<1>1. /\ UNCHANGED <<world, online, server, cache, queue, user>>
      /\ Goto(t, Idle)
  BY DEF Report
<1>2. page' \in Page
  <2> DEFINE st == IF job[t].conflict THEN "conflict"
                   ELSE IF job[t].error /\ Cardinality(queue) > 0 THEN "error"
                   ELSE "idle"
  <2>1. st \in {"idle", "syncing", "conflict", "error"}
    OBVIOUS
  <2>2. \/ page' = page
        \/ page' = [page EXCEPT !.state = st, !.pending = 0]
        \/ page' = [page EXCEPT !.state = st, !.pending = Cardinality(queue)]
    BY DEF Report
  <2> HIDE DEF st
  <2> QED  BY <2>1, <2>2, PagesAre, Here DEF WorldOK
<1>3. /\ WorldOK' /\ user' \in User /\ user'.saves = user.saves
      /\ ServerOK(server')
  BY <1>1, <1>2, Here DEF WorldOK, world
<1> QED  BY <1>1, <1>3, IdleOK, ReplayStill

LEMMA StartChoiceOK ==
  ASSUME OfflineInv, NEW op \in {"local", "server"}, StartChoice(op)
  PROVE  OfflineInv'
<1> DEFINE k == [Idle EXCEPT !.op = op, !.at = "snapshot"]
<1>1. /\ UNCHANGED <<world, online, server, cache, queue, page>>
      /\ Goto("choice", k)
      /\ user' = user \/ user' = [user EXCEPT !.kept = None]
  BY DEF StartChoice
<1>2. user' \in User /\ user'.saves = user.saves
  BY <1>1, Here DEF User
<1>3. WorldOK' /\ ServerOK(server')
  BY <1>1, Here DEF WorldOK, world
<1>4. k \in Job /\ k.op = op /\ k.at = "snapshot" /\ k.left = {}
  BY IdleIsAJob DEF Job, Ops, Pcs, Idle
<1> HIDE DEF k
<1>5. ReplayOK("choice", k, queue, server.versions, Top)
  BY <1>4 DEF ReplayOK, OpsOf, ReplayPcs, Handling
<1> QED  BY <1>1, <1>2, <1>3, <1>5, ReplaysAre, ReplayStill

-----------------------------------------------------------------------------
(* The connection, the page and the other session *)

LEMMA RetryOK == OfflineInv /\ Retry => OfflineInv'
<1> SUFFICES ASSUME OfflineInv, Retry PROVE OfflineInv'
  OBVIOUS
<1>1. /\ UNCHANGED <<world, online, server, cache, queue, page, user>>
      /\ job' \in Drained(job, page.draining)
  BY DEF Retry
<1>2. WorldOK' /\ ServerOK(server') /\ user' \in User /\ server' = server
  BY <1>1, Here DEF WorldOK, world
<1> QED  BY <1>1, <1>2, TopIs, PrefixRefl, JobsStep

LEMMA ConnectionOK == OfflineInv /\ (GoOffline \/ GoOnline) => OfflineInv'
<1> SUFFICES ASSUME OfflineInv, GoOffline \/ GoOnline PROVE OfflineInv'
  OBVIOUS
<1>1. /\ UNCHANGED <<world, server, cache, queue, page, user>>
      /\ online' \in BOOLEAN
      /\ job' = job \/ job' \in Drained(job, page.draining)
  BY DEF GoOffline, GoOnline
<1>2. WorldOK' /\ ServerOK(server') /\ user' \in User /\ server' = server
  BY <1>1, Here DEF WorldOK, world
<1> QED  BY <1>1, <1>2, TopIs, PrefixRefl, JobsStep

LEMMA ReloadOK == OfflineInv /\ Reload => OfflineInv'
<1> SUFFICES ASSUME OfflineInv, Reload PROVE OfflineInv'
  OBVIOUS
<1> DEFINE jobs == [t \in Tasks |-> Idle]
<1>1. /\ UNCHANGED <<world, online, server, cache, queue>>
      /\ job' = jobs \/ job' \in Drained(jobs, FALSE)
      /\ page' = [draining |-> FALSE, state |-> "idle",
                  pending |-> Cardinality(queue)]
      /\ user' = [user EXCEPT !.seen = None, !.unlocked = FALSE]
  BY DEF Reload
<1>2. user' \in User /\ user'.saves = user.saves
  BY <1>1, Here DEF User
<1>3. page' \in Page
  BY <1>1, PagesAre DEF Page
<1>4. WorldOK'
  BY <1>1, <1>3, Here DEF WorldOK, world
<1>5. JobsOK(jobs, queue, server.versions, Top)
  BY IdleOK, IdleIsAJob, ReplaysAre DEF JobsOK
<1>6. /\ jobs["editor"] = Idle /\ EditorOK(Idle, user.saves)
      /\ Top <= Limit(Idle.at, user.saves)
  <2>1. jobs["editor"] = Idle
    BY ReplaysAre
  <2> QED  BY <1>2, <2>1, EditorRests
<1> HIDE DEF jobs
<1> QED  BY <1>1, <1>2, <1>4, <1>5, <1>6, JobsAnew

LEMMA ElsewhereOK ==
  OfflineInv /\ (ElsewherePut \/ ElsewhereUpload) => OfflineInv'
<1>1. ASSUME OfflineInv, ElsewherePut PROVE OfflineInv'
  <2> DEFINE work == MaxSaves + elsewhere.saves + 1
  <2>1. /\ UNCHANGED <<scenario, online, cache, queue, page, job, user>>
        /\ elsewhere.saves < scenario.elsewhere
        /\ server' = [server EXCEPT !.envelope = work]
        /\ elsewhere' = [saves |-> elsewhere.saves + 1, halfway |-> work]
    BY <1>1 DEF ElsewherePut
  <2>2. scenario.elsewhere \in 0 .. MaxElsewhere
    BY <1>1, Here, OfflineAssumption DEF WorldOK
  <2>3. elsewhere.saves \in 0 .. MaxElsewhere
    BY <1>1, Here DEF WorldOK, Other
  <2>4. work \in Works /\ elsewhere.saves + 1 \in 0 .. MaxElsewhere
    BY <2>1, <2>2, <2>3, ConstantsAre DEF Works
  <2> HIDE DEF work
  <2>5. WorldOK'
    BY <1>1, <2>1, <2>4, Here DEF WorldOK, Other
  <2>6. ServerOK(server') /\ server'.versions = server.versions
    BY <1>1, <2>1, <2>4, PutServer
  <2> QED  BY <1>1, <2>1, <2>5, <2>6, Here, TopIs, PrefixRefl, JobsStep
<1>2. ASSUME OfflineInv, ElsewhereUpload PROVE OfflineInv'
  <2> DEFINE work == elsewhere.halfway
  <2>1. /\ UNCHANGED <<scenario, online, cache, queue, page, job, user>>
        /\ work # None /\ Latest < MaxVersions
        /\ server' = [server EXCEPT !.versions =
                        Append(@, [work |-> work, by |-> "elsewhere"])]
        /\ elsewhere' = [elsewhere EXCEPT !.halfway = None]
    BY <1>2 DEF ElsewhereUpload
  <2>2. work \in Works /\ elsewhere' \in Other
    BY <1>2, <2>1, Here DEF WorldOK, Other
  <2>3. WorldOK'
    BY <1>2, <2>1, <2>2, Here DEF WorldOK
  <2>4. ServerOK(server') /\ Prefix(server.versions, server'.versions)
    BY <1>2, <2>1, <2>2, AppendedServer
  <2> QED  BY <1>2, <2>1, <2>3, <2>4, Here, JobsStep
<1> QED  BY <1>1, <1>2

-----------------------------------------------------------------------------
(* The invariant *)

LEMMA InitEstablishes == Init => OfflineInv
<1> SUFFICES ASSUME Init PROVE OfflineInv
  OBVIOUS
<1> DEFINE v == [work |-> 0, by |-> "here"]
<1>1. v \in Version
  BY ConstantsAre DEF Version
<1>2. server = [envelope |-> 0, versions |-> <<v>>]
  BY DEF Init
<1>3. <<v>> \in Seq(Version) /\ Len(<<v>>) = 1
  BY <1>1
<1> HIDE DEF v
<1>4. ServerOK(server)
  BY <1>2, <1>3, ConstantsAre DEF ServerOK, Server
<1>5. WorldOK
  <2>1. cache \in Cache
    BY ConstantsAre DEF Init, Cache, Blob
  <2>2. page \in Page /\ elsewhere \in Other
    BY OfflineAssumption DEF Init, Page, Other
  <2> QED  BY <2>1, <2>2 DEF Init, WorldOK
<1>6. user \in User /\ user.saves = 0
  BY ConstantsAre, OfflineAssumption DEF Init, User
<1>7. /\ job \in [Tasks -> Job] /\ job["editor"] = Idle
      /\ \A t \in Replays : job[t] = Idle
  BY IdleIsAJob, ReplaysAre DEF Init
<1>8. JobsOK(job, queue, server.versions, Top)
  BY <1>7, IdleOK DEF JobsOK
<1>9. QueueOK(queue, server.versions, Top)
  BY FS_EmptySet DEF Init, QueueOK
<1>10. EditorOK(job["editor"], user.saves)
  BY <1>7, IdleIsAJob DEF EditorOK
<1> QED  BY <1>4, <1>5, <1>6, <1>8, <1>9, <1>10 DEF OfflineInv

LEMMA NextKeepsInv == OfflineInv /\ [Next]_vars => OfflineInv'
<1> SUFFICES ASSUME OfflineInv, [Next]_vars PROVE OfflineInv'
  OBVIOUS
<1>1. CASE Editor
  BY <1>1, StartLoadOK, OpenOK, FetchOK, LabelOK, StoreOK, StartSaveOK, PutOK,
     ReadBaseOK, KeepOK, EnqueueOK, CountOK DEF Editor
<1>2. CASE \E t \in Drains : Drain(t)
  <2>1. PICK t \in Drains : Drain(t)
    BY <1>2
  <2>2. t \in Replays
    BY ReplaysAre
  <2> QED  BY <2>1, <2>2, CheckOK, AttemptOK, ReconsiderOK, FinishOK DEF Drain
<1>3. CASE \E t \in Drains \cup {"choice"} : Replay(t)
  <2>1. PICK t \in Replays : Replay(t)
    BY <1>3, ReplaysAre
  <2> QED  BY <2>1, SnapshotOK, SendPutOK, ReadCachedOK, DequeueOK, ReportOK
           DEF Replay
<1>4. CASE \E t \in Tasks : Deliver(t)
  BY <1>4, UploadOK, RefreshOK, NoteOK, TagOK DEF Deliver
<1>5. CASE \E op \in {"local", "server"} : StartChoice(op)
  BY <1>5, StartChoiceOK
<1>6. CASE Retry
  BY <1>6, RetryOK
<1>7. CASE Environment
  BY <1>7, ConnectionOK, ReloadOK, ElsewhereOK DEF Environment
<1>8. CASE UNCHANGED vars
  <2>1. WorldOK' /\ ServerOK(server') /\ user' \in User /\ server' = server
    BY <1>8, Here DEF WorldOK, vars
  <2> QED  BY <1>8, <2>1, TopIs, PrefixRefl, JobsStep DEF vars
<1> QED  BY <1>1, <1>2, <1>3, <1>4, <1>5, <1>6, <1>7, <1>8 DEF Next

(* Every snapshot agrees with the queue it was taken from, however many    *)
(* drains, reloads and failures there were since (drainSyncQueue).         *)
THEOREM OfflineInvariant == Spec => []OfflineInv
<1>1. Init => OfflineInv
  BY InitEstablishes
<1>2. OfflineInv /\ [Next]_vars => OfflineInv'
  BY NextKeepsInv
<1> QED  BY <1>1, <1>2, PTL DEF Spec

(* Every part of the client's state keeps its shape, and a task that is    *)
(* about to handle an entry of the queue has one.                          *)
THEOREM OfflineTypes == Spec => []TypeOK
<1>1. OfflineInv => TypeOK
  BY InvariantGivesTypes
<1> QED  BY <1>1, OfflineInvariant, PTL

-----------------------------------------------------------------------------
(* What leaves the queue *)

LEMMA NothingLeaves ==
  ASSUME \A e \in queue : \E f \in queue' : f.seq = e.seq
  PROVE  UploadsLeaveForAReason
BY DEF UploadsLeaveForAReason

(* What Remove takes is the call in hand, as the queue has it now.         *)
LEMMA RemovedIsInHand ==
  ASSUME OfflineInv, NEW t \in Replays, job[t].at \in Handling, Remove(t),
         NEW e \in queue, e.op = "uploadBlob", \A f \in queue' : f.seq # e.seq
  PROVE  LET first == First(job[t].left)
         IN  e.seq = first.seq /\ first.op = "uploadBlob" /\ e.since = first.since
<1> DEFINE first == First(job[t].left)
<1>1. e.seq = first.seq
  BY DEF Remove
<1>2. EntryOK(e, server.versions, Top)
  BY DEF OfflineInv, QueueOK
<1>3. EntryOK(first, server.versions, Top) /\ first \in job[t].left
  BY HandlingNotEmpty
<1> HIDE DEF first
<1>4. first.op = "uploadBlob"
  <2>1. e.seq = 2 * e.work + 1 /\ e.work \in Nat
    BY <1>2, ConstantsAre DEF EntryOK, Entry, Key
  <2>2. first.work \in Nat /\ first.op \in {"updateVault", "uploadBlob"}
    BY <1>3, ConstantsAre DEF EntryOK, Entry
  <2>3. first.op = "updateVault" => first.seq = 2 * first.work
    BY <1>3 DEF EntryOK, Key
  <2> QED  BY <1>1, <2>1, <2>2, <2>3
<1>5. first.since = e.since
  BY <1>1, <1>3, TopIs DEF ReplayOK
<1> QED  BY <1>1, <1>4, <1>5 DEF first

LEMMA DequeueHasAReason ==
  ASSUME OfflineInv, NEW t \in Replays, Dequeue(t)
  PROVE  UploadsLeaveForAReason
<1>1. job[t].at = "dequeue" /\ job[t].at \in Handling
  BY DEF Dequeue, At, Handling
<1>2. CASE UNCHANGED queue
  BY <1>2, NothingLeaves
<1>3. CASE Remove(t)
  <2> SUFFICES ASSUME NEW e \in queue, e.op = "uploadBlob",
                      \A f \in queue' : f.seq # e.seq
               PROVE  LeavesForAReason(e)
    BY DEF UploadsLeaveForAReason
  <2> DEFINE first == First(job[t].left)
  <2>1. first.op = "uploadBlob" /\ e.since = first.since
    BY <1>1, <1>3, RemovedIsInHand
  <2>2. ReplayOK(t, job[t], queue, server.versions, Top)
    BY TopIs
  <2>3. job[t].op = "server" \/ Sent(first, server.versions)
    BY <1>1, <2>1, <2>2 DEF ReplayOK
  <2>4. CASE job[t].op = "server"
    <3>1. t = "choice"
      BY <2>2, <2>4 DEF ReplayOK, OpsOf
    <3> QED  BY <1>1, <2>4, <3>1 DEF LeavesForAReason, At
  <2>5. CASE Sent(first, server.versions)
    BY <2>1, <2>5 DEF Sent, LeavesForAReason, Latest
  <2> QED  BY <2>3, <2>4, <2>5
<1> QED  BY <1>2, <1>3 DEF Dequeue

LEMMA ReconsiderHasAReason ==
  ASSUME OfflineInv, NEW t \in Replays, Reconsider(t)
  PROVE  UploadsLeaveForAReason
<1>1. job[t].at \in Handling
  BY DEF Reconsider, At, Handling
<1>2. CASE UNCHANGED queue
  BY <1>2, NothingLeaves
<1>3. CASE Spent(t) /\ Remove(t)
  <2> SUFFICES ASSUME NEW e \in queue, e.op = "uploadBlob",
                      \A f \in queue' : f.seq # e.seq
               PROVE  LeavesForAReason(e)
    BY DEF UploadsLeaveForAReason
  <2>1. e.seq = First(job[t].left).seq
    BY <1>1, <1>3, RemovedIsInHand
  <2>2. PICK d \in queue : d.seq = First(job[t].left).seq /\ d.attempts >= 3
    BY <1>3 DEF Spent
  <2>3. d = e
    BY <2>1, <2>2 DEF OfflineInv, QueueOK
  <2> QED  BY <2>2, <2>3 DEF LeavesForAReason
<1> QED  BY <1>2, <1>3 DEF Reconsider

LEMMA AttemptTakesNothing ==
  ASSUME OfflineInv, NEW t \in Replays, Attempt(t)
  PROVE  UploadsLeaveForAReason
<1>1. queue' = {Counted(e, t) : e \in queue} \/ queue' = queue
  BY DEF Attempt, Counted
<1>2. \A e \in queue : Counted(e, t).seq = e.seq
  BY CountedIs DEF OfflineInv, QueueOK, EntryOK
<1>3. \A e \in queue : \E f \in queue' : f.seq = e.seq
  BY <1>1, <1>2
<1> QED  BY <1>3, NothingLeaves

LEMMA StepsHaveReasons == OfflineInv /\ [Next]_vars => UploadsLeaveForAReason
<1> SUFFICES ASSUME OfflineInv, [Next]_vars PROVE UploadsLeaveForAReason
  OBVIOUS
<1>1. CASE queue \subseteq queue'
  BY <1>1, NothingLeaves
<1>2. CASE \E t \in Replays :
              Dequeue(t) \/ Reconsider(t) \/ Attempt(t)
  BY <1>2, DequeueHasAReason, ReconsiderHasAReason, AttemptTakesNothing
<1>3. CASE Editor
  <2>1. queue \subseteq queue'
    BY <1>3 DEF Editor, StartLoad, Open, Fetch, Label, Store, StartSave, Put,
                ReadBase, Keep, Enqueue, Count
  <2> QED  BY <1>1, <2>1
<1>4. CASE \E t \in Drains : Drain(t)
  BY <1>1, <1>2, <1>4, ReplaysAre DEF Drain, Check, Finish
<1>5. CASE \E t \in Drains \cup {"choice"} : Replay(t)
  BY <1>1, <1>2, <1>5, ReplaysAre
     DEF Replay, Snapshot, SendPut, ReadCached, Report
<1>6. CASE \E t \in Tasks : Deliver(t)
  BY <1>1, <1>6 DEF Deliver, Upload, Refresh, Note, Tag
<1>7. CASE Retry \/ \E op \in {"local", "server"} : StartChoice(op)
  BY <1>1, <1>7 DEF Retry, StartChoice
<1>8. CASE Environment
  BY <1>1, <1>8 DEF Environment, GoOffline, GoOnline, Reload, ElsewherePut,
                    ElsewhereUpload
<1>9. CASE UNCHANGED vars
  BY <1>1, <1>9 DEF vars
<1> QED  BY <1>3, <1>4, <1>5, <1>6, <1>7, <1>8, <1>9 DEF Next

(* However drains, choices, saves, reloads and failures interleave, an     *)
(* upload leaves the queue only after one from here succeeded since it was *)
(* queued, after three attempts, or because the user chose the server's    *)
(* version (drainSyncQueue, resolveConflict): half of DrainIsCareful.      *)
THEOREM UploadsLeaveTheQueueForAReason ==
  Spec => [][UploadsLeaveForAReason]_vars
<1>1. OfflineInv /\ [Next]_vars => [UploadsLeaveForAReason]_vars
  BY StepsHaveReasons
<1> QED  BY <1>1, OfflineInvariant, PTL DEF Spec
-----------------------------------------------------------------------------
(***************************************************************************)
(* Where operations do not overlap and IndexedDB works, one task at most   *)
(* is under way, and what it knows of the state stays true until it ends.  *)
(***************************************************************************)
Loading == {"open", "noteOpen", "fetch", "label", "store"}

Saving == {"put", "queuePut", "countPut", "base", "keep", "queueUpload",
           "countUpload", "upload", "refresh", "note", "tag", "confirm",
           "noteConfirm"}

Resolving == {"snapshot", "report", "put", "read", "upload", "refresh", "note",
              "tag", "dequeue"}

RoleOK(t, j, n) ==
    \/ j.at = "idle"
    \/ t = "editor" /\ j.op = "load" /\ j.at \in Loading
    \/ t = "editor" /\ j.op = "save" /\ j.at \in Saving /\ j.work = n
    \/ t \in Drains /\ j.op = "drain" /\ j.at \in ReplayPcs \ {"idle"}
    \/ t = "choice" /\ j.op = "local" /\ j.at \in Resolving
    \/ t = "choice" /\ j.op = "server" /\ j.at \in {"snapshot", "dequeue", "report"}

Serial ==
    /\ \A t, u \in Tasks : t = u \/ At(t, "idle") \/ At(u, "idle")
    /\ elsewhere.halfway # None => \A t \in Tasks : At(t, "idle")
    /\ \A t \in Tasks : RoleOK(t, job[t], user.saves)

(* What is queued is in the snapshot, or the drain has met an obstacle.    *)
DrainKnows(j) ==
    /\ j.at \notin {"idle", "snapshot"} =>
          j.conflict \/ j.error \/ queue \subseteq j.left
    /\ j.at = "reconsider" => j.error
    /\ j.at \in {"finish", "report"} => j.left = {}

(* The banner's count is due to be taken.                                  *)
Due ==
    \/ job["editor"].at \in {"countPut", "countUpload"}
    \/ \E t \in Replays : job[t].at \notin {"idle", "snapshot"}

StatusOK ==
    /\ page.pending = Cardinality(queue) \/ Due
    /\ \A t \in Drains : DrainKnows(job[t])

(* What the adapter took, and what becomes of it at each call.             *)
Queued == \E e \in queue : e.op = "uploadBlob"

KeptAt(t, j) ==
    /\ j.op = "load" => queue = {}
    /\ j.at \in {"queueUpload", "countUpload", "upload"} => cache.blob.buf = j.work
    /\ j.at = "countUpload" => Queued
    /\ j.at \in {"refresh", "note", "tag"} => Uploaded(j.work) /\ cache.blob.buf = j.work
    /\ t # "editor" /\ j.op # "server" /\ j.at = "dequeue"
         => First(j.left).op = "updateVault" \/ Uploaded(cache.blob.buf)
    /\ j.op = "server" => user.kept = None

KeptOK ==
    /\ WorkIsKept
    /\ cache.blob # None
    /\ user.kept # None => user.kept <= user.saves
    /\ \A t \in Tasks : ~At(t, "idle") => KeptAt(t, job[t])

(* Nobody else has uploaded a version after a, up to b.                    *)
Span(a, b) == \A i \in a + 1 .. b : server.versions[i].by = "here"

Based(e) ==
    e.op = "uploadBlob" =>
       /\ e.base # None /\ e.base <= Latest /\ e.seen <= Latest
       /\ Span(e.seen, e.base)
       /\ user.seen # None => e.seen <= user.seen

SpanAt(t, j) ==
    /\ j.op = "load" => user.seen = None /\ queue = {}
    /\ j.at = "noteOpen" => j.detail.version = Latest
    /\ j.at = "fetch" /\ online => cache.meta.version = Latest
    /\ j.at = "label" => cache.meta.version = Latest /\ j.seen = Latest
    /\ j.at = "store" => j.base = Latest /\ j.seen = Latest
    /\ t = "editor" /\ j.at \in {"put", "queuePut", "countPut", "base", "keep",
                                 "queueUpload", "countUpload"}
         => user.seen # None /\ j.seen = user.seen
    /\ t = "editor" /\ j.at \in {"keep", "queueUpload", "countUpload"}
         => j.base # None /\ j.base <= Latest /\ Span(j.seen, j.base)
    /\ j.at = "refresh" => j.seen = Latest
    /\ j.at \in {"note", "tag"} => j.detail.version = Latest /\ j.seen = Latest
    /\ t \in Drains => \A e \in j.left : Based(e)
    /\ t \in Drains /\ j.at \in {"check", "read", "upload", "refresh", "note", "tag"}
         => First(j.left).op = "uploadBlob"
    /\ t \in Drains /\ j.at \in {"read", "upload"} => First(j.left).base = Latest
    /\ t \in Drains /\ j.at \in {"refresh", "note", "tag"}
         => Span(First(j.left).seen, Latest)

SpanWorld ==
    /\ cache.blob # None /\ cache.meta # None
    /\ cache.blob.version # None /\ cache.blob.version <= Latest
    /\ cache.blob.seen <= Latest /\ Span(cache.blob.seen, cache.blob.version)
    /\ user.seen # None =>
          user.seen <= Latest /\ Span(user.seen, cache.blob.version)
    /\ \A e \in queue : Based(e)

SpanOK == SpanWorld /\ \A t \in Tasks : ~At(t, "idle") => SpanAt(t, job[t])

OrderlyInv == Orderly => Serial /\ StatusOK /\ KeptOK /\ SpanOK
-----------------------------------------------------------------------------
(* One task at a time *)

LEMMA NoOverlap ==
  ASSUME Orderly
  PROVE  "overlap" \notin Faults /\ "idb" \notin Faults /\ "reopen" \notin Faults
  BY DEF Orderly

LEMMA ContinueGoes ==
  ASSUME NEW j \in Job
  PROVE  /\ Continue(j).op = j.op /\ Continue(j).left = j.left
         /\ Continue(j).conflict = j.conflict /\ Continue(j).error = j.error
         /\ Continue(j).at =
              IF j.left = {} THEN IF j.op = "drain" THEN "finish" ELSE "report"
              ELSE IF j.op = "server" THEN "dequeue"
              ELSE IF First(j.left).op = "updateVault" THEN "put"
              ELSE IF j.op = "drain" THEN "check" ELSE "read"
  BY DEF Continue, Job

LEMMA SkipGoes ==
  ASSUME NEW j \in Job
  PROVE  LET rest == j.left \ {First(j.left)}
         IN  /\ Skip(j).op = j.op /\ Skip(j).left = rest
             /\ Skip(j).conflict = j.conflict /\ Skip(j).error = j.error
             /\ Skip(j).at =
                  IF rest = {} THEN IF j.op = "drain" THEN "finish" ELSE "report"
                  ELSE IF j.op = "server" THEN "dequeue"
                  ELSE IF First(rest).op = "updateVault" THEN "put"
                  ELSE IF j.op = "drain" THEN "check" ELSE "read"
<1> DEFINE rest == j.left \ {First(j.left)}
           k == [Idle EXCEPT !.op = j.op, !.left = rest,
                             !.conflict = j.conflict, !.error = j.error]
<1>1. rest \in SUBSET Entry
  BY DEF Job
<1>2. k \in Job /\ k.op = j.op /\ k.left = rest /\ k.conflict = j.conflict
        /\ k.error = j.error
  BY <1>1, IdleIsAJob DEF Job, Idle
<1>3. Skip(j) = Continue(k)
  BY DEF Skip
<1> HIDE DEF k, rest
<1> QED  BY <1>2, <1>3, ContinueGoes DEF rest

LEMMA SkipHasRole ==
  ASSUME NEW t \in Tasks, NEW j \in Job, NEW n, RoleOK(t, j, n),
         j.at # "idle", j.op \in {"drain", "local", "server"}
  PROVE  RoleOK(t, Skip(j), n)
<1> DEFINE at == Skip(j).at
<1>1. Skip(j).op = j.op
       /\ at \in {"finish", "report", "dequeue", "put", "check", "read"}
       /\ (at = "finish" => j.op = "drain") /\ (at = "report" => j.op # "drain")
       /\ (at = "dequeue" => j.op = "server") /\ (at \in {"put", "check", "read"} => j.op # "server")
       /\ (at = "check" => j.op = "drain") /\ (at = "read" => j.op # "drain")
  BY SkipGoes
<1> QED  BY <1>1 DEF RoleOK, ReplayPcs, Handling, Resolving

LEMMA Roles ==
  ASSUME NEW t \in Tasks, NEW j, NEW n, RoleOK(t, j, n), j.at # "idle"
  PROVE  /\ t = "editor" => j.op \in {"load", "save"} /\ j.at \in Loading \cup Saving
         /\ t \in Drains => j.op = "drain" /\ j.at \in ReplayPcs \ {"idle"}
         /\ t = "choice" => j.op \in {"local", "server"} /\ j.at \in Resolving
         /\ j.op = "server" => j.at \in {"snapshot", "dequeue", "report"}
         /\ j.op = "drain" <=> t \in Drains
         /\ t = "editor" \/ t \in Replays
  BY OfflineAssumption DEF RoleOK, Resolving, Tasks, Replays

(* A step of the task that is at work.                                     *)
LEMMA TaskStep ==
  ASSUME OfflineInv, Serial, NEW t \in Tasks, ~At(t, "idle"), NEW j, Goto(t, j),
         UNCHANGED elsewhere
  PROVE  /\ job'[t] = j
         /\ elsewhere.halfway = None
         /\ \A u \in Tasks \ {t} :
               job[u].at = "idle" /\ job'[u].at = "idle" /\ job'[u] = job[u]
         /\ RoleOK(t, j, user'.saves) => Serial'
<1>1. job \in [Tasks -> Job] /\ job' = [job EXCEPT ![t] = j]
  BY TopIs DEF Goto
<1>2. job'[t] = j /\ \A u \in Tasks \ {t} : job'[u] = job[u] /\ job[u].at = "idle"
  BY <1>1 DEF Serial, At
<1>3. elsewhere.halfway = None
  BY DEF Serial
<1>4. ASSUME RoleOK(t, j, user'.saves)  PROVE Serial'
  BY <1>2, <1>3, <1>4 DEF Serial, At, RoleOK
<1> QED  BY <1>2, <1>3, <1>4

(* A task begins when none is at work.                                     *)
LEMMA TaskBegins ==
  ASSUME OfflineInv, Quiet, NEW t \in Tasks, NEW j, Goto(t, j), UNCHANGED elsewhere
  PROVE  /\ job'[t] = j
         /\ \A u \in Tasks \ {t} :
               job[u].at = "idle" /\ job'[u].at = "idle" /\ job'[u] = job[u]
         /\ RoleOK(t, j, user'.saves) => Serial'
<1>1. job \in [Tasks -> Job] /\ job' = [job EXCEPT ![t] = j]
  BY TopIs DEF Goto
<1>2. job'[t] = j /\ \A u \in Tasks \ {t} : job'[u] = job[u] /\ job[u].at = "idle"
  BY <1>1 DEF Quiet, At
<1>3. ASSUME RoleOK(t, j, user'.saves)  PROVE Serial'
  BY <1>2, <1>3 DEF Serial, At, RoleOK, Quiet
<1> QED  BY <1>2, <1>3

(* A drain is called, or one is under way already.                         *)
LEMMA DrainBegins ==
  ASSUME NEW jobs \in [Tasks -> Job], \A u \in Tasks : jobs[u].at = "idle",
         scenario \in Scenarios,
         NEW b, job' \in Drained(jobs, b), elsewhere'.halfway = None
  PROVE  /\ Serial'
         /\ \/ b /\ job' = jobs
            \/ ~b /\ \E d \in Drains :
                 /\ \A u \in Tasks \ {d} : job'[u] = jobs[u] /\ job'[u].at = "idle"
                 /\ job'[d] = [Idle EXCEPT !.op = "drain", !.at = "snapshot"]
                 /\ job'[d].op = "drain" /\ job'[d].at = "snapshot" /\ job'[d].left = {}
<1>1. CASE b
  BY <1>1 DEF Drained, Serial, At, RoleOK
<1>2. CASE ~b
  <2> DEFINE drain == [Idle EXCEPT !.op = "drain", !.at = "snapshot"]
  <2>1. scenario.drains \subseteq Drains
    BY OfflineAssumption
  <2>2. PICK d \in Drains : job' = [jobs EXCEPT ![d] = drain]
    BY <1>2, <2>1 DEF Drained
  <2>3. d \in Tasks /\ drain.op = "drain" /\ drain.at = "snapshot" /\ drain.left = {}
    BY DEF Tasks, Idle
  <2> HIDE DEF drain
  <2>4. job'[d] = drain /\ \A u \in Tasks \ {d} : job'[u] = jobs[u] /\ job'[u].at = "idle"
    BY <2>2, <2>3
  <2>5. RoleOK(d, drain, user'.saves)
    BY <2>3 DEF RoleOK, ReplayPcs
  <2>6. Serial'
    BY <2>3, <2>4, <2>5 DEF Serial, At, RoleOK
  <2> QED  BY <1>2, <2>3, <2>4, <2>6 DEF drain
<1> QED  BY <1>1, <1>2
-----------------------------------------------------------------------------
(* What one task knows is all there is to know. *)

Ordered == Serial /\ StatusOK /\ KeptOK /\ SpanOK

OrderedInv == OfflineInv /\ Orderly /\ Ordered

StatusAt(t, j) ==
    /\ \/ page.pending = Cardinality(queue)
       \/ t = "editor" /\ j.at \in {"countPut", "countUpload"}
       \/ t # "editor" /\ j.at \notin {"idle", "snapshot"}
    /\ t \in Drains => DrainKnows(j)

(* The state after a step, once the task that took it has been looked at. *)
LEMMA AloneAfter ==
  ASSUME NEW t \in Tasks, \A u \in Tasks \ {t} : job'[u].at = "idle",
         Serial', StatusAt(t, job[t])', WorkIsKept', SpanWorld',
         user'.kept # None => user'.kept <= user'.saves,
         job'[t].at # "idle" => (KeptAt(t, job[t]) /\ SpanAt(t, job[t]))'
  PROVE  Ordered'
<1>1. StatusOK'
  BY OfflineAssumption DEF StatusOK, StatusAt, Due, Replays, Tasks, DrainKnows
<1>2. KeptOK'
  BY DEF KeptOK, SpanWorld, At
<1>3. SpanOK'
  BY DEF SpanOK, SpanWorld, At
<1> QED  BY <1>1, <1>2, <1>3 DEF Ordered

LEMMA WorksAlone ==
  ASSUME OrderedInv, NEW t \in Tasks, ~At(t, "idle")
  PROVE  /\ \A u \in Tasks \ {t} : job[u].at = "idle"
         /\ elsewhere.halfway = None
         /\ job[t] \in Job /\ RoleOK(t, job[t], user.saves)
         /\ StatusAt(t, job[t]) /\ KeptAt(t, job[t]) /\ SpanAt(t, job[t])
         /\ SpanWorld /\ WorkIsKept
<1>1. /\ \A u \in Tasks \ {t} : job[u].at = "idle"
      /\ elsewhere.halfway = None
      /\ job[t] \in Job /\ RoleOK(t, job[t], user.saves)
  BY TopIs DEF OrderedInv, Ordered, Serial, At
<1>2. StatusAt(t, job[t])
  BY <1>1, OfflineAssumption
     DEF OrderedInv, Ordered, StatusOK, StatusAt, Due, Replays, Tasks
<1>3. KeptAt(t, job[t]) /\ SpanAt(t, job[t]) /\ SpanWorld /\ WorkIsKept
  BY DEF OrderedInv, Ordered, KeptOK, SpanOK, SpanWorld
<1> QED  BY <1>1, <1>2, <1>3

LEMMA SameServer ==
  ASSUME OfflineInv, UNCHANGED server
  PROVE  /\ ServerOK(server') /\ Prefix(server.versions, server'.versions)
         /\ Latest' = Latest
  BY TopIs, PrefixRefl DEF OfflineInv, Latest

(* The history of the server grows, nothing else of the world changes.     *)
LEMMA WorldGrows ==
  ASSUME OrderedInv, UNCHANGED <<scenario, cache, queue, user>>,
         ServerOK(server'), Prefix(server.versions, server'.versions)
  PROVE  /\ WorkIsKept' /\ SpanWorld'
         /\ user'.kept # None => user'.kept <= user'.saves
         /\ Latest \in Nat /\ Latest' \in Nat /\ Latest <= Latest'
         /\ \A a \in Nat, b \in 0 .. Latest : Span(a, b) => Span(a, b)'
         /\ \A e \in Entry : Based(e) => Based(e)'
         /\ \A w \in Nat : Uploaded(w) => Uploaded(w)'
<1>1. /\ server.versions \in Seq(Version) /\ server'.versions \in Seq(Version)
      /\ Latest \in Nat /\ Latest' \in Nat /\ Latest <= Latest'
      /\ \A i \in 1 .. Latest : server'.versions[i] = server.versions[i]
  BY TopIs, LenProperties DEF OrderedInv, ServerOK, Server, Prefix, Latest
<1>2. ASSUME NEW a \in Nat, NEW b \in 0 .. Latest, Span(a, b)  PROVE Span(a, b)'
  BY <1>1, <1>2 DEF Span
<1>3. ASSUME NEW e \in Entry, Based(e)  PROVE Based(e)'
  <2>1. e.seen \in Nat /\ (e.base = None \/ e.base \in Nat)
    BY ConstantsAre DEF Entry
  <2>2. CASE e.op = "uploadBlob"
    BY <1>1, <1>2, <1>3, <2>1, <2>2 DEF Based
  <2> QED  BY <2>2 DEF Based
<1>4. ASSUME NEW w \in Nat, Uploaded(w)  PROVE Uploaded(w)'
  BY <1>1, <1>4 DEF Uploaded
<1>5. user.kept # None => user.kept \in Nat
  BY ConstantsAre DEF OrderedInv, OfflineInv, User
<1>6. WorkIsKept'
  BY <1>4, <1>5 DEF OrderedInv, Ordered, KeptOK, WorkIsKept, Orderly, Faults, Waiting
<1>7. /\ user'.kept # None => user'.kept <= user'.saves
  BY DEF OrderedInv, Ordered, KeptOK
<1>8. /\ SpanWorld /\ queue \subseteq Entry
      /\ cache.blob.seen \in Nat /\ cache.blob.version \in 0 .. Latest
      /\ user.seen # None => user.seen \in Nat
  <2>1. SpanWorld /\ OfflineInv
    BY DEF OrderedInv, Ordered, SpanOK
  <2>2. cache.blob \in Blob
    BY <2>1 DEF SpanWorld, OfflineInv, WorldOK, Cache
  <2>3. cache.blob.seen \in Nat /\ cache.blob.version \in 0 .. Latest
    <3>1. cache.blob.version # None /\ cache.blob.version <= Latest
      BY <2>1 DEF SpanWorld
    <3>2. cache.blob.seen \in Nat /\ cache.blob.version \in Nat
      BY <2>2, <3>1, ConstantsAre DEF Blob
    <3>3. Latest \in Nat
      BY <1>1
    <3> QED  BY <3>1, <3>2, <3>3
  <2>4. user.seen # None => user.seen \in Nat
    BY <2>1, ConstantsAre DEF OfflineInv, User
  <2>5. queue \subseteq Entry
    BY <2>1 DEF OfflineInv, QueueOK, EntryOK
  <2> QED  BY <2>1, <2>3, <2>4, <2>5
<1>9. SpanWorld'
  BY <1>1, <1>2, <1>3, <1>8 DEF SpanWorld
<1> QED  BY <1>1, <1>2, <1>3, <1>4, <1>6, <1>7, <1>9

(* A step that only moves a task on. *)
LEMMA MoveIsOrdered ==
  ASSUME OrderedInv, NEW t \in Tasks, ~At(t, "idle"), NEW j, Goto(t, j),
         RoleOK(t, j, user.saves),
         UNCHANGED <<scenario, elsewhere, cache, queue, user>>,
         ServerOK(server'), Prefix(server.versions, server'.versions),
         page'.pending = page.pending,
         t = "editor" => job[t].at \notin {"countPut", "countUpload"},
         t # "editor" => j.at \notin {"idle", "snapshot"} \/ job[t].at = "snapshot",
         t \in Drains => DrainKnows(j),
         job'[t].at # "idle" => (KeptAt(t, job[t]) /\ SpanAt(t, job[t]))'
  PROVE  Ordered'
<1>1. /\ job'[t] = j /\ Serial'
      /\ \A u \in Tasks \ {t} : job'[u].at = "idle"
  BY TaskStep DEF OrderedInv, Ordered
<1>2. StatusAt(t, job[t])
  BY WorksAlone
<1>3. StatusAt(t, job[t])'
  BY <1>1, <1>2 DEF StatusAt, At, DrainKnows
<1> QED  BY <1>1, <1>3, WorldGrows, AloneAfter

(* A task that gives up. *)
LEMMA EditorStopsOrdered ==
  ASSUME OrderedInv, ~At("editor", "idle"), Fail("editor"),
         job["editor"].at \notin {"countPut", "countUpload"},
         UNCHANGED <<scenario, elsewhere, cache, queue, user>>,
         ServerOK(server'), Prefix(server.versions, server'.versions),
         page'.pending = page.pending
  PROVE  Ordered'
<1>1. "editor" \in Tasks /\ "editor" \notin Drains
  BY OfflineAssumption DEF Tasks
<1>2. Rejected(job["editor"]) = Idle
  BY DEF OrderedInv, OfflineInv, EditorOK, Rejected
<1>3. Goto("editor", Idle) /\ RoleOK("editor", Idle, user.saves)
  BY <1>2, IdleIsAJob DEF Fail, RoleOK
<1>4. job'["editor"] = Idle
  BY <1>1, <1>3, TaskStep DEF OrderedInv, Ordered
<1>5. job'["editor"].at = "idle"
  BY <1>4, IdleIsAJob
<1> QED  BY <1>1, <1>3, <1>5, MoveIsOrdered

LEMMA OpenIsOrdered ==
  ASSUME OrderedInv, Open  PROVE Ordered'
<1> DEFINE t == "editor"
<1>1. t \in Tasks /\ t \notin Drains /\ ~At(t, "idle") /\ job[t].at = "open"
  BY OfflineAssumption DEF Tasks, Open, At
<1>2. /\ job[t].op = "load" /\ job[t] \in Job /\ KeptAt(t, job[t]) /\ SpanAt(t, job[t])
  BY <1>1, WorksAlone DEF RoleOK, Saving
<1>3. UNCHANGED <<scenario, elsewhere, online, cache, queue, user, server, page>>
  BY DEF Open, world
<1>4. ASSUME NEW j, Goto(t, j), j.op = "load", j.at \in {"noteOpen", "fetch"},
             j.at = "noteOpen" => j.detail.version = Latest,
             j.at = "fetch" => ~online
      PROVE  Ordered'
  <2>1. RoleOK(t, j, user.saves)
    BY <1>4 DEF RoleOK, Loading
  <2>2. job'[t] = j
    BY <1>1, <1>3, <1>4, TaskStep DEF OrderedInv, Ordered
  <2>3. (KeptAt(t, job[t]) /\ SpanAt(t, job[t]))'
    BY <1>1, <1>2, <1>3, <1>4, <2>2 DEF KeptAt, SpanAt, Latest
  <2> QED  BY <1>1, <1>3, <1>4, <2>1, <2>3, MoveIsOrdered, SameServer
           DEF OrderedInv
<1>5. CASE Goto(t, [job[t] EXCEPT !.at = "noteOpen", !.detail = Answer])
  <2> DEFINE j == [job[t] EXCEPT !.at = "noteOpen", !.detail = Answer]
  <2>1. j.op = "load" /\ j.at = "noteOpen" /\ j.detail.version = Latest
    BY <1>2 DEF Job, Answer
  <2> HIDE DEF j
  <2> QED  BY <1>4, <1>5, <2>1 DEF j
<1>6. CASE ~online /\ Goto(t, [job[t] EXCEPT !.at = "fetch", !.detail = cache.meta])
  <2> DEFINE j == [job[t] EXCEPT !.at = "fetch", !.detail = cache.meta]
  <2>1. j.op = "load" /\ j.at = "fetch"
    BY <1>2 DEF Job
  <2> HIDE DEF j
  <2> QED  BY <1>4, <1>6, <2>1 DEF j
<1>7. CASE Fail(t)
  BY <1>1, <1>3, <1>7, EditorStopsOrdered, SameServer DEF OrderedInv
<1> QED  BY <1>5, <1>6, <1>7 DEF Open
-----------------------------------------------------------------------------
(* Loading *)

LEMMA StepIsOrdered ==
  ASSUME OrderedInv, NEW t \in Tasks, ~At(t, "idle"), NEW j, Goto(t, j),
         UNCHANGED elsewhere, RoleOK(t, j, user'.saves),
         StatusAt(t, job[t])', WorkIsKept', SpanWorld',
         user'.kept # None => user'.kept <= user'.saves,
         job'[t].at # "idle" => (KeptAt(t, job[t]) /\ SpanAt(t, job[t]))'
  PROVE  Ordered'
<1>1. Serial' /\ \A u \in Tasks \ {t} : job'[u].at = "idle"
  BY TaskStep DEF OrderedInv, Ordered
<1> QED  BY <1>1, AloneAfter

LEMMA BeginIsOrdered ==
  ASSUME OrderedInv, Quiet, NEW t \in Tasks, NEW j, Goto(t, j),
         UNCHANGED elsewhere, RoleOK(t, j, user'.saves),
         StatusAt(t, job[t])', WorkIsKept', SpanWorld',
         user'.kept # None => user'.kept <= user'.saves,
         job'[t].at # "idle" => (KeptAt(t, job[t]) /\ SpanAt(t, job[t]))'
  PROVE  Ordered'
<1>1. Serial' /\ \A u \in Tasks \ {t} : job'[u].at = "idle"
  BY TaskBegins DEF OrderedInv
<1> QED  BY <1>1, AloneAfter

LEMMA EditorWorks ==
  ASSUME OrderedInv, ~At("editor", "idle")
  PROVE  /\ "editor" \in Tasks /\ "editor" \notin Drains
         /\ job["editor"] \in Job /\ RoleOK("editor", job["editor"], user.saves)
         /\ StatusAt("editor", job["editor"])
         /\ KeptAt("editor", job["editor"]) /\ SpanAt("editor", job["editor"])
         /\ SpanWorld /\ WorkIsKept
         /\ user.kept # None => user.kept <= user.saves
         /\ ServerOK(server) /\ Prefix(server.versions, server.versions)
         /\ server.versions \in Seq(Version)
<1>1. "editor" \in Tasks /\ "editor" \notin Drains
  BY OfflineAssumption DEF Tasks
<1>2. /\ ServerOK(server) /\ Prefix(server.versions, server.versions)
      /\ server.versions \in Seq(Version)
  BY TopIs, PrefixRefl DEF OrderedInv, OfflineInv
<1> QED  BY <1>1, <1>2, WorksAlone DEF OrderedInv, Ordered, KeptOK

LEMMA UserIs ==
  ASSUME OrderedInv
  PROVE  /\ user \in User /\ user.saves \in 0 .. MaxSaves /\ user.saves \in Nat
         /\ user.saves # None /\ (user.kept # None => user.kept \in Nat)
         /\ (user.seen # None => user.seen \in Nat)
<1>1. user \in User /\ user.saves \in Nat
  BY Here DEF OrderedInv
<1>2. user.saves \in 0 .. MaxSaves /\ (user.kept # None => user.kept \in Nat)
      /\ (user.seen # None => user.seen \in Nat)
  BY <1>1, ConstantsAre DEF User
<1> QED  BY <1>1, <1>2, OfflineAssumption

LEMMA QuietIs ==
  ASSUME OrderedInv, Quiet
  PROVE  /\ page.pending = Cardinality(queue) /\ SpanWorld /\ WorkIsKept
         /\ user.kept # None => user.kept <= user.saves
         /\ \A u \in Tasks : job[u].at = "idle"
         /\ "editor" \in Tasks /\ "editor" \notin Drains
         /\ elsewhere.halfway = None
<1>1. \A u \in Tasks : job[u].at = "idle"
  BY DEF Quiet, At
<1>2. page.pending = Cardinality(queue)
  BY <1>1 DEF OrderedInv, Ordered, StatusOK, Due, Replays, Tasks
<1> QED  BY <1>1, <1>2, OfflineAssumption
         DEF OrderedInv, Ordered, KeptOK, SpanOK, Quiet, Tasks

(* Where the state of the world is the same, so is what is known of it. *)
LEMMA WorldStays ==
  ASSUME UNCHANGED <<scenario, server, cache, queue, user>>
  PROVE  /\ WorkIsKept => WorkIsKept'
         /\ SpanWorld => SpanWorld'
BY DEF WorkIsKept, Orderly, Faults, Uploaded, Waiting, Latest, SpanWorld, Span, Based

LEMMA StartLoadIsOrdered ==
  ASSUME OrderedInv, StartLoad  PROVE Ordered'
<1> DEFINE j == [Idle EXCEPT !.op = "load", !.at = "open"]
<1>1. Quiet /\ queue = {}
  BY NoOverlap DEF OrderedInv, StartLoad, Turn
<1>2. /\ Goto("editor", j)
      /\ user' = [user EXCEPT !.seen = None, !.unlocked = TRUE]
      /\ UNCHANGED <<scenario, elsewhere, server, cache, queue, page>>
  BY <1>1 DEF StartLoad, Goto, world
<1>3. j.op = "load" /\ j.at = "open"
  BY DEF Idle
<1>4. /\ user'.seen = None /\ user'.kept = user.kept /\ user'.saves = user.saves
      /\ user'.dropped = user.dropped
  BY <1>2 DEF OrderedInv, OfflineInv, User
<1> HIDE DEF j
<1>5. RoleOK("editor", j, user'.saves)
  BY <1>3 DEF RoleOK, Loading
<1>6. job'["editor"] = j
  BY <1>1, <1>2, <1>5, QuietIs, TaskBegins DEF OrderedInv
<1>7. StatusAt("editor", job["editor"])'
  BY <1>1, <1>2, QuietIs DEF StatusAt
<1>8. WorkIsKept'
  BY <1>1, <1>2, <1>4, QuietIs
     DEF WorkIsKept, Orderly, Faults, Uploaded, Waiting, Latest
<1>9. SpanWorld'
  BY <1>1, <1>2, <1>4, QuietIs DEF SpanWorld, Span, Latest
<1>10. (KeptAt("editor", job["editor"]) /\ SpanAt("editor", job["editor"]))'
  BY <1>1, <1>2, <1>3, <1>4, <1>6, QuietIs DEF KeptAt, SpanAt
<1> QED  BY <1>1, <1>2, <1>4, <1>5, <1>7, <1>8, <1>9, <1>10, QuietIs, BeginIsOrdered

(* A step of the editor that loads. *)
LEMMA LoadMoves ==
  ASSUME OrderedInv, ~At("editor", "idle"), job["editor"].op = "load",
         NEW j, Goto("editor", j), j.op = "load", j.at \in Loading,
         UNCHANGED <<scenario, elsewhere, cache, queue, user, server, page>>,
         SpanAt("editor", job["editor"])'
  PROVE  Ordered'
<1>1. RoleOK("editor", j, user.saves) /\ job["editor"].at \in Loading
  BY EditorWorks DEF RoleOK, At, Loading
<1>2. job'["editor"] = j
  BY EditorWorks, TaskStep DEF OrderedInv, Ordered
<1>3. queue' = {}
  BY EditorWorks DEF KeptAt
<1>4. KeptAt("editor", job["editor"])'
  BY <1>2, <1>3, EditorWorks DEF KeptAt, Loading
<1> QED  BY <1>1, <1>4, EditorWorks, MoveIsOrdered DEF Loading

LEMMA OpenedIsOrdered ==
  ASSUME OrderedInv, ~At("editor", "idle"), job["editor"].op = "load",
         NEW j, NEW v, Opened(j, v), v \in Nat, v # None,
         UNCHANGED <<scenario, elsewhere, queue, server, page>>,
         cache'.meta = cache.meta, cache'.blob # None,
         cache'.blob.seen <= Latest, cache'.blob.version <= Latest,
         cache'.blob.version # None,
         Span(cache'.blob.seen, cache'.blob.version), v <= Latest,
         Span(v, cache'.blob.version)
  PROVE  Ordered'
<1>1. /\ Goto("editor", Idle) /\ RoleOK("editor", Idle, user'.saves)
      /\ user'.kept = user.kept /\ user'.saves = user.saves
      /\ user'.dropped = user.dropped
      /\ user'.seen = user.seen \/ user'.seen = v
  BY IdleIsAJob DEF Opened, RoleOK, OrderedInv, OfflineInv, User
<1>2. job'["editor"] = Idle /\ job'["editor"].at = "idle"
  BY <1>1, EditorWorks, TaskStep, IdleIsAJob DEF OrderedInv, Ordered
<1>3. queue' = {} /\ user.seen = None /\ job["editor"].at \in Loading
  BY EditorWorks DEF KeptAt, SpanAt, RoleOK, At
<1>4. StatusAt("editor", job["editor"])'
  BY <1>3, EditorWorks DEF StatusAt, Loading
<1>5. WorkIsKept'
  BY <1>1, <1>3, EditorWorks
     DEF WorkIsKept, Orderly, Faults, Uploaded, Waiting, Latest
<1>6. SpanWorld'
  BY <1>1, <1>3, EditorWorks DEF SpanWorld, Span, Latest
<1> QED  BY <1>1, <1>2, <1>4, <1>5, <1>6, EditorWorks, StepIsOrdered

LEMMA FetchIsOrdered ==
  ASSUME OrderedInv, Fetch  PROVE Ordered'
<1> DEFINE e == job["editor"]
<1>1. /\ ~At("editor", "idle") /\ e.at = "fetch"
      /\ UNCHANGED <<scenario, elsewhere, online, server, cache, queue, page>>
  BY DEF Fetch, At, world
<1>2. e.op = "load" /\ SpanAt("editor", e) /\ SpanWorld /\ e \in Job
  BY <1>1, EditorWorks DEF RoleOK, Saving
<1>3. ASSUME NEW w, online, UNCHANGED user,
             Goto("editor", [e EXCEPT !.at = "label", !.work = w, !.seen = Latest])
      PROVE  Ordered'
  <2> DEFINE j == [e EXCEPT !.at = "label", !.work = w, !.seen = Latest]
  <2>1. j.op = "load" /\ j.at = "label" /\ j.seen = Latest
    BY <1>2 DEF Job
  <2> HIDE DEF j
  <2>2. job'["editor"] = j
    BY <1>1, <1>3, EditorWorks, TaskStep DEF OrderedInv, Ordered, j
  <2>3. SpanAt("editor", job["editor"])'
    BY <1>1, <1>2, <1>3, <2>1, <2>2, EditorWorks DEF SpanAt, Latest
  <2> QED  BY <1>1, <1>2, <1>3, <2>1, <2>3, LoadMoves DEF j, Loading
<1>4. ASSUME NEW j, Opened(j, cache.blob.seen), ~online  PROVE Ordered'
  <2>1. cache.blob \in Blob
    BY <1>2 DEF OrderedInv, OfflineInv, WorldOK, Cache, SpanWorld
  <2>2. cache.blob.seen \in Nat /\ cache.blob.seen # None
    BY <2>1, ConstantsAre, OfflineAssumption DEF Blob
  <2> QED  BY <1>1, <1>2, <1>4, <2>2, OpenedIsOrdered DEF SpanWorld
<1>5. CASE Fail("editor") /\ UNCHANGED user
  BY <1>1, <1>5, EditorStopsOrdered, SameServer DEF OrderedInv
<1> QED  BY <1>3, <1>4, <1>5 DEF Fetch

LEMMA LabelIsOrdered ==
  ASSUME OrderedInv, Label  PROVE Ordered'
<1> DEFINE e == job["editor"]
           j == [e EXCEPT !.at = "store", !.base = cache.meta.version]
<1>1. /\ ~At("editor", "idle") /\ e.at = "label"
      /\ UNCHANGED <<scenario, elsewhere, online, server, cache, queue, page, user>>
  BY DEF Label, At, world
<1>2. e.op = "load" /\ SpanAt("editor", e) /\ SpanWorld /\ e \in Job
  BY <1>1, EditorWorks DEF RoleOK, Saving
<1>3. Goto("editor", j)
  BY <1>2, NoOverlap DEF Label, VersionRead, OrderedInv, SpanWorld
<1>4. j.op = "load" /\ j.at = "store" /\ j.base = Latest /\ j.seen = Latest
  BY <1>1, <1>2 DEF Job, SpanAt
<1> HIDE DEF j
<1>5. job'["editor"] = j
  BY <1>1, <1>3, EditorWorks, TaskStep DEF OrderedInv, Ordered
<1>6. SpanAt("editor", job["editor"])'
  BY <1>1, <1>2, <1>4, <1>5, EditorWorks DEF SpanAt, Latest
<1> QED  BY <1>1, <1>2, <1>3, <1>4, <1>6, LoadMoves DEF Loading

LEMMA StoreIsOrdered ==
  ASSUME OrderedInv, Store  PROVE Ordered'
<1> DEFINE e == job["editor"]
           b == [buf |-> e.work, version |-> e.base, seen |-> e.seen]
<1>1. /\ ~At("editor", "idle") /\ e.at = "store"
      /\ UNCHANGED <<scenario, elsewhere, online, server, queue, page>>
  BY DEF Store, At, world
<1>2. /\ e.op = "load" /\ SpanAt("editor", e) /\ SpanWorld /\ e \in Job
      /\ e.base = Latest /\ e.seen = Latest
  BY <1>1, EditorWorks DEF RoleOK, Saving, SpanAt
<1>3. Latest \in Nat /\ Latest \in Versions /\ Latest # None
  BY Here, ConstantsAre, OfflineAssumption DEF OrderedInv
<1>4. cache' = [cache EXCEPT !.blob = b]
  BY NoOverlap DEF Store, WriteCache, OrderedInv
<1>5. cache'.blob = b /\ cache'.meta = cache.meta
  BY <1>4, Here DEF OrderedInv, WorldOK, Cache
<1>6. b \in Blob /\ b.version = Latest /\ b.seen = Latest
  BY <1>2, <1>3 DEF Blob, Job
<1>7. cache'.blob # None
  BY <1>5, <1>6, NoneAssumption
<1>8. Opened(e, Latest) /\ Span(Latest, Latest)
  BY <1>2, <1>3 DEF Store, Span
<1> HIDE DEF b
<1> QED  BY <1>1, <1>2, <1>3, <1>5, <1>6, <1>7, <1>8, OpenedIsOrdered
-----------------------------------------------------------------------------
(* Saving *)

LEMMA StartSaveIsOrdered ==
  ASSUME OrderedInv, StartSave  PROVE Ordered'
<1> DEFINE j == [Idle EXCEPT !.op = "save", !.at = "put",
                             !.work = user.saves + 1, !.seen = user.seen]
<1>1. Quiet /\ user.seen # None
  BY NoOverlap DEF OrderedInv, StartSave, Turn
<1>2. /\ Goto("editor", j)
      /\ user' = [user EXCEPT !.saves = @ + 1, !.whole = FALSE]
      /\ UNCHANGED <<scenario, elsewhere, online, server, cache, queue, page>>
  BY DEF StartSave, world
<1>3. j.op = "save" /\ j.at = "put" /\ j.work = user.saves + 1 /\ j.seen = user.seen
  BY DEF Idle
<1>4. /\ user'.seen = user.seen /\ user'.kept = user.kept
      /\ user'.saves = user.saves + 1 /\ user'.dropped = user.dropped
  BY <1>2 DEF OrderedInv, OfflineInv, User
<1> HIDE DEF j
<1>5. RoleOK("editor", j, user'.saves)
  BY <1>3, <1>4 DEF RoleOK, Saving
<1>6. job'["editor"] = j
  BY <1>1, <1>2, <1>5, QuietIs, TaskBegins DEF OrderedInv
<1>7. StatusAt("editor", job["editor"])'
  BY <1>1, <1>2, QuietIs DEF StatusAt
<1>8. WorkIsKept'
  BY <1>1, <1>2, <1>4, QuietIs
     DEF WorkIsKept, Orderly, Faults, Uploaded, Waiting, Latest
<1>9. SpanWorld'
  BY <1>1, <1>2, <1>4, QuietIs DEF SpanWorld, Span, Latest, Based
<1>10. (KeptAt("editor", job["editor"]) /\ SpanAt("editor", job["editor"]))'
  BY <1>1, <1>2, <1>3, <1>4, <1>6, QuietIs DEF KeptAt, SpanAt
<1>11. user'.kept # None => user'.kept <= user'.saves
  <2>1. user.saves \in Nat /\ (user.kept # None => user.kept \in Nat)
    BY UserIs
  <2> QED  BY <1>1, <1>4, <2>1, QuietIs
<1> QED  BY <1>1, <1>2, <1>5, <1>7, <1>8, <1>9, <1>10, <1>11, QuietIs, BeginIsOrdered

(* A step of the editor that saves. *)
LEMMA SaveMoves ==
  ASSUME OrderedInv, ~At("editor", "idle"), job["editor"].op = "save",
         job["editor"].at \notin {"countPut", "countUpload"},
         NEW j, Goto("editor", j), j.op = "save", j.at \in Saving,
         j.work = job["editor"].work,
         UNCHANGED <<scenario, elsewhere, cache, queue, user>>,
         ServerOK(server'), Prefix(server.versions, server'.versions),
         page'.pending = page.pending,
         KeptAt("editor", job["editor"])', SpanAt("editor", job["editor"])'
  PROVE  Ordered'
<1>1. RoleOK("editor", j, user.saves)
  BY EditorWorks DEF RoleOK, At, Saving
<1> QED  BY <1>1, EditorWorks, MoveIsOrdered

LEMMA SaverIs ==
  ASSUME OrderedInv, ~At("editor", "idle"), job["editor"].at \notin Loading
  PROVE  /\ job["editor"].op = "save" /\ job["editor"].at \in Saving
         /\ job["editor"].work = user.saves
  BY EditorWorks DEF RoleOK, At

LEMMA PutIsOrdered ==
  ASSUME OrderedInv, Put  PROVE Ordered'
<1> DEFINE e == job["editor"]
<1>1. /\ ~At("editor", "idle") /\ e.at = "put"
      /\ UNCHANGED <<scenario, elsewhere, online, cache, queue, page, user>>
  BY DEF Put, At, world
<1>2. /\ e.op = "save" /\ SpanAt("editor", e) /\ KeptAt("editor", e) /\ e \in Job
      /\ user.seen # None /\ e.seen = user.seen
  BY <1>1, EditorWorks, SaverIs DEF Loading, SpanAt
<1>3. ASSUME NEW pc \in {"base", "queuePut"}, Goto("editor", [e EXCEPT !.at = pc]),
             ServerOK(server'), server'.versions = server.versions
      PROVE  Ordered'
  <2> DEFINE j == [e EXCEPT !.at = pc]
  <2>1. j.op = "save" /\ j.at = pc /\ j.work = e.work /\ j.seen = e.seen
    BY <1>2 DEF Job
  <2>2. Goto("editor", j)
    BY <1>3
  <2> HIDE DEF j
  <2>3. job'["editor"] = j
    BY <1>1, <2>2, EditorWorks, TaskStep DEF OrderedInv, Ordered
  <2>4. SpanAt("editor", job["editor"])'
    BY <1>1, <1>2, <1>3, <2>1, <2>3, EditorWorks DEF SpanAt, Latest
  <2>5. KeptAt("editor", job["editor"])'
    BY <1>1, <1>2, <1>3, <2>1, <2>3, EditorWorks DEF KeptAt
  <2>6. Prefix(server.versions, server'.versions)
    BY <1>1, <1>3, EditorWorks
  <2> QED  BY <1>1, <1>2, <1>3, <2>1, <2>2, <2>4, <2>5, <2>6, SaveMoves DEF Saving
<1>4. ASSUME ServerOK(server'), server'.versions = server.versions, Fail("editor")
      PROVE  Ordered'
  <2>1. Prefix(server.versions, server'.versions)
    BY <1>1, <1>4, EditorWorks
  <2> QED  BY <1>1, <1>4, <2>1, EditorStopsOrdered
<1>5. CASE server' = [server EXCEPT !.envelope = e.work]
  <2>1. ServerOK(server') /\ server'.versions = server.versions
    BY <1>2, <1>5, PutServer DEF OrderedInv, Job
  <2>2. Goto("editor", [e EXCEPT !.at = "base"]) \/ Fail("editor")
        \/ Goto("editor", [e EXCEPT !.at = "queuePut"])
    BY DEF Put, Call
  <2> QED  BY <1>3, <1>4, <2>1, <2>2
<1>6. CASE server' = server
  <2>1. ServerOK(server') /\ server'.versions = server.versions
    BY <1>6, SameServer DEF OrderedInv
  <2>2. Goto("editor", [e EXCEPT !.at = "base"]) \/ Fail("editor")
        \/ Goto("editor", [e EXCEPT !.at = "queuePut"])
    BY DEF Put, Call
  <2> QED  BY <1>3, <1>4, <2>1, <2>2
<1> QED  BY <1>5, <1>6 DEF Put, Call

LEMMA ReadBaseIsOrdered ==
  ASSUME OrderedInv, ReadBase  PROVE Ordered'
<1> DEFINE e == job["editor"]
           j == [e EXCEPT !.at = "keep", !.base = cache.blob.version]
<1>1. /\ ~At("editor", "idle") /\ e.at = "base"
      /\ UNCHANGED <<scenario, elsewhere, online, server, cache, queue, page, user>>
  BY DEF ReadBase, At, world
<1>2. /\ e.op = "save" /\ SpanAt("editor", e) /\ KeptAt("editor", e) /\ e \in Job
      /\ user.seen # None /\ e.seen = user.seen /\ SpanWorld
  BY <1>1, EditorWorks, SaverIs DEF Loading, SpanAt
<1>3. Goto("editor", j)
  BY <1>2, NoOverlap DEF ReadBase, VersionRead, OrderedInv, SpanWorld
<1>4. /\ j.op = "save" /\ j.at = "keep" /\ j.base = cache.blob.version
      /\ j.seen = e.seen /\ j.work = e.work
  BY <1>2 DEF Job
<1> HIDE DEF j
<1>5. job'["editor"] = j
  BY <1>1, <1>3, EditorWorks, TaskStep DEF OrderedInv, Ordered
<1>6. j.base # None /\ j.base <= Latest /\ Span(j.seen, j.base)
  BY <1>2, <1>4 DEF SpanWorld
<1>7. SpanAt("editor", job["editor"])'
  BY <1>1, <1>2, <1>4, <1>5, <1>6, EditorWorks DEF SpanAt, Latest, Span
<1>8. KeptAt("editor", job["editor"])'
  BY <1>1, <1>2, <1>4, <1>5, EditorWorks DEF KeptAt
<1> QED  BY <1>1, <1>2, <1>3, <1>4, <1>7, <1>8, SaveMoves, EditorWorks DEF Saving

LEMMA KeepIsOrdered ==
  ASSUME OrderedInv, Keep  PROVE Ordered'
<1> DEFINE e == job["editor"]
           b == [buf |-> e.work, version |-> e.base, seen |-> e.seen]
           j == [e EXCEPT !.at = IF online THEN "upload" ELSE "queueUpload"]
<1>1. /\ ~At("editor", "idle") /\ e.at = "keep" /\ Goto("editor", j)
      /\ UNCHANGED <<scenario, elsewhere, online, server, queue, page, user>>
  BY DEF Keep, At, world
<1>2. /\ e.op = "save" /\ SpanAt("editor", e) /\ KeptAt("editor", e) /\ e \in Job
      /\ user.seen # None /\ e.seen = user.seen /\ SpanWorld /\ e.work = user.saves
      /\ e.base # None /\ e.base <= Latest /\ Span(e.seen, e.base)
  BY <1>1, EditorWorks, SaverIs DEF Loading, SpanAt
<1>3. cache' = [cache EXCEPT !.blob = b]
  BY NoOverlap DEF Keep, WriteCache, OrderedInv
<1>4. cache'.blob = b /\ cache'.meta = cache.meta
  BY <1>3, Here DEF OrderedInv, WorldOK, Cache
<1>5. b \in Blob /\ b.version = e.base /\ b.seen = e.seen /\ b.buf = e.work
  BY <1>2 DEF Blob, Job
<1>6. cache'.blob # None
  BY <1>4, <1>5, NoneAssumption
<1>7. /\ j.op = "save" /\ j.at \in {"upload", "queueUpload"}
      /\ j.work = e.work /\ j.base = e.base /\ j.seen = e.seen
  BY <1>2 DEF Job
<1> HIDE DEF b, j
<1>8. RoleOK("editor", j, user'.saves)
  BY <1>1, <1>2, <1>7 DEF RoleOK, Saving
<1>9. job'["editor"] = j
  BY <1>1, EditorWorks, TaskStep DEF OrderedInv, Ordered
<1>10. StatusAt("editor", job["editor"])'
  BY <1>1, EditorWorks DEF StatusAt
<1>11. user.saves \in 0 .. MaxSaves /\ (user.kept # None => user.kept \in Nat /\ user.kept <= user.saves)
  BY <1>1, EditorWorks, ConstantsAre DEF OrderedInv, OfflineInv, User
<1>12. WorkIsKept'
  <2>1. Waiting(user.kept) /\ user.kept # None => Waiting(user.kept)'
    BY <1>1, <1>2, <1>4, <1>5, <1>6, <1>11, ConstantsAre DEF Waiting
  <2> QED  BY <1>1, <2>1, EditorWorks
           DEF WorkIsKept, Orderly, Faults, Uploaded, Latest
<1>13. SpanWorld'
  BY <1>1, <1>2, <1>4, <1>5, <1>6 DEF SpanWorld, Span, Latest, Based
<1>14. SpanAt("editor", job["editor"])'
  BY <1>1, <1>2, <1>7, <1>9, EditorWorks DEF SpanAt, Latest, Span
<1>15. KeptAt("editor", job["editor"])'
  BY <1>4, <1>5, <1>7, <1>9 DEF KeptAt
<1> QED  BY <1>1, <1>8, <1>10, <1>11, <1>12, <1>13, <1>14, <1>15, EditorWorks,
            StepIsOrdered
(* A call is added to the queue, the banner not yet told.                  *)
LEMMA EnqueueIsOrdered ==
  ASSUME OrderedInv, Enqueue  PROVE Ordered'
<1> DEFINE e == job["editor"]
           op == IF e.at = "queuePut" THEN "updateVault" ELSE "uploadBlob"
           pc == IF e.at = "queuePut" THEN "countPut" ELSE "countUpload"
           f == [seq |-> Key(e.work, op), op |-> op, work |-> e.work,
                 base |-> e.base, attempts |-> 0, seen |-> e.seen, since |-> Latest]
           j == [e EXCEPT !.at = pc]
<1>1. /\ ~At("editor", "idle") /\ e.at \in {"queuePut", "queueUpload"}
      /\ UNCHANGED <<scenario, elsewhere, online, server, cache, page, user>>
      /\ queue' = queue \cup {f} /\ Goto("editor", j)
  BY NoOverlap DEF Enqueue, At, world, OrderedInv
<1>2. /\ e.op = "save" /\ SpanAt("editor", e) /\ KeptAt("editor", e) /\ e \in Job
      /\ user.seen # None /\ e.seen = user.seen /\ SpanWorld /\ e.work = user.saves
      /\ e.at = "queueUpload" => e.base # None /\ e.base <= Latest /\ Span(e.seen, e.base)
                                 /\ cache.blob.buf = e.work
  BY <1>1, EditorWorks, SaverIs DEF Loading, SpanAt, KeptAt
<1>3. /\ j.op = "save" /\ j.at = pc
      /\ j.work = e.work /\ j.base = e.base /\ j.seen = e.seen
  BY <1>2 DEF Job
<1>4. f.op = op /\ f.base = e.base /\ f.seen = e.seen
  OBVIOUS
<1>5. Based(f)
  <2>1. e.seen \in Nat /\ e.seen <= Latest
    BY <1>2, UserIs DEF SpanWorld
  <2> QED  BY <1>1, <1>2, <1>4, <2>1 DEF Based
<1> HIDE DEF f, j
<1>6. RoleOK("editor", j, user'.saves)
  BY <1>1, <1>2, <1>3 DEF RoleOK, Saving
<1>7. job'["editor"] = j
  BY <1>1, EditorWorks, TaskStep DEF OrderedInv, Ordered
<1>8. StatusAt("editor", job["editor"])'
  BY <1>1, <1>3, <1>7, EditorWorks DEF StatusAt
<1>9. WorkIsKept'
  BY <1>1, EditorWorks DEF WorkIsKept, Orderly, Faults, Uploaded, Latest, Waiting
<1>10. SpanWorld'
  BY <1>1, <1>2, <1>5 DEF SpanWorld, Span, Latest, Based
<1>11. SpanAt("editor", job["editor"])'
  BY <1>1, <1>2, <1>3, <1>7, EditorWorks DEF SpanAt, Latest, Span
<1>12. KeptAt("editor", job["editor"])'
  <2>1. pc = "countUpload" => Queued'
    BY <1>1, <1>4 DEF Queued
  <2> QED  BY <1>1, <1>2, <1>3, <1>7, <2>1 DEF KeptAt
<1> QED  BY <1>1, <1>6, <1>8, <1>9, <1>10, <1>11, <1>12, EditorWorks, StepIsOrdered

LEMMA CountIsOrdered ==
  ASSUME OrderedInv, Count  PROVE Ordered'
<1> DEFINE e == job["editor"]
<1>1. /\ ~At("editor", "idle") /\ e.at \in {"countPut", "countUpload"}
      /\ UNCHANGED <<scenario, elsewhere, online, server, cache, queue>>
      /\ page' = [page EXCEPT !.pending = Cardinality(queue)]
      /\ IF e.at = "countPut"
         THEN Goto("editor", [e EXCEPT !.at = "base"]) /\ UNCHANGED user
         ELSE Taken(e) /\ Goto("editor", [e EXCEPT !.at = "confirm"])
  BY NoOverlap DEF Count, At, world, OrderedInv
<1>2. /\ e.op = "save" /\ SpanAt("editor", e) /\ KeptAt("editor", e) /\ e \in Job
      /\ user.seen # None /\ e.seen = user.seen /\ SpanWorld /\ e.work = user.saves
      /\ e.at = "countUpload" => cache.blob.buf = e.work /\ Queued
  BY <1>1, EditorWorks, SaverIs DEF Loading, SpanAt, KeptAt
<1>3. page'.pending = Cardinality(queue)
  BY <1>1, Here DEF OrderedInv, WorldOK, Page
<1>4. user.saves \in 0 .. MaxSaves /\ user.saves \in Nat /\ user.saves # None
  BY UserIs
<1>5. ASSUME NEW pc \in {"base", "confirm"}, Goto("editor", [e EXCEPT !.at = pc]),
             user'.saves = user.saves, user'.seen = user.seen, WorkIsKept',
             user'.kept # None => user'.kept <= user'.saves
      PROVE  Ordered'
  <2> DEFINE j == [e EXCEPT !.at = pc]
  <2>1. j.op = "save" /\ j.at = pc /\ j.work = e.work /\ j.seen = e.seen
    BY <1>2 DEF Job
  <2>2. Goto("editor", j)
    BY <1>5
  <2> HIDE DEF j
  <2>3. RoleOK("editor", j, user'.saves)
    BY <1>1, <1>2, <1>5, <2>1 DEF RoleOK, Saving
  <2>4. job'["editor"] = j
    BY <1>1, <2>2, EditorWorks, TaskStep DEF OrderedInv, Ordered
  <2>5. StatusAt("editor", job["editor"])'
    BY <1>1, <1>3, EditorWorks DEF StatusAt
  <2>6. SpanWorld'
    BY <1>1, <1>2, <1>5 DEF SpanWorld, Span, Latest, Based
  <2>7. SpanAt("editor", job["editor"])'
    BY <1>1, <1>2, <1>5, <2>1, <2>4, EditorWorks DEF SpanAt, Latest, Span
  <2>8. KeptAt("editor", job["editor"])'
    BY <1>1, <1>2, <2>1, <2>4, EditorWorks DEF KeptAt
  <2> QED  BY <1>1, <1>5, <2>2, <2>3, <2>5, <2>6, <2>7, <2>8, EditorWorks, StepIsOrdered
<1>6. CASE e.at = "countPut"
  <2>1. WorkIsKept'
    BY <1>1, <1>6, EditorWorks DEF WorkIsKept, Orderly, Faults, Uploaded, Latest, Waiting
  <2> QED  BY <1>1, <1>5, <1>6, <2>1, EditorWorks
<1>7. CASE e.at # "countPut"
  <2>1. /\ Goto("editor", [e EXCEPT !.at = "confirm"])
        /\ user' = [user EXCEPT !.kept = e.work, !.whole = TRUE, !.seen = e.seen]
    BY <1>1, <1>7 DEF Taken
  <2>2. /\ user'.saves = user.saves /\ user'.seen = user.seen
        /\ user'.kept = user.saves
    BY <1>2, <2>1 DEF OrderedInv, OfflineInv, User
  <2>3. Waiting(user.saves)
    BY <1>1, <1>2, <1>4, <1>7 DEF Waiting, Queued, SpanWorld
  <2>4. WorkIsKept'
    BY <1>1, <2>2, <2>3 DEF WorkIsKept, Waiting
  <2> QED  BY <1>4, <1>5, <2>1, <2>2, <2>4
<1> QED  BY <1>6, <1>7
-----------------------------------------------------------------------------
(* Replaying *)

LEMMA ReplayWorks ==
  ASSUME OrderedInv, NEW t \in Replays, ~At(t, "idle")
  PROVE  /\ t \in Tasks /\ t # "editor" /\ t \in Drains \cup {"choice"}
         /\ job[t] \in Job /\ RoleOK(t, job[t], user.saves)
         /\ job[t].op \in {"drain", "local", "server"}
         /\ job[t].op = "drain" <=> t \in Drains
         /\ StatusAt(t, job[t]) /\ KeptAt(t, job[t]) /\ SpanAt(t, job[t])
         /\ SpanWorld /\ WorkIsKept
         /\ user.kept # None => user.kept <= user.saves
         /\ ServerOK(server) /\ Prefix(server.versions, server.versions)
         /\ job[t].left \subseteq Entry
         /\ job[t].at \in Handling => First(job[t].left) \in job[t].left
<1>1. /\ t \in Tasks /\ t # "editor" /\ t \in Drains \cup {"choice"}
      /\ "choice" \notin Drains
  BY ReplaysAre, OfflineAssumption
<1>2. /\ job[t] \in Job /\ RoleOK(t, job[t], user.saves)
      /\ StatusAt(t, job[t]) /\ KeptAt(t, job[t]) /\ SpanAt(t, job[t])
      /\ SpanWorld /\ WorkIsKept
  BY <1>1, WorksAlone
<1>3. job[t].op \in {"drain", "local", "server"} /\ (job[t].op = "drain" <=> t \in Drains)
  BY <1>1, <1>2, Roles DEF At
<1>4. user.kept # None => user.kept <= user.saves
  BY DEF OrderedInv, Ordered, KeptOK
<1>5. ServerOK(server) /\ Prefix(server.versions, server.versions)
  BY TopIs, PrefixRefl DEF OrderedInv, OfflineInv
<1>6. job[t].left \subseteq Entry
  BY <1>2 DEF Job
<1>7. job[t].at \in Handling => First(job[t].left) \in job[t].left
  BY HandlingNotEmpty DEF OrderedInv
<1> QED  BY <1>1, <1>2, <1>3, <1>4, <1>5, <1>6, <1>7

(* Where a replay goes on to the next call, or to its end.                 *)
LEMMA SkipKnows ==
  ASSUME NEW j \in Job, j.op \in {"drain", "local", "server"},
         First(j.left) \in j.left
  PROVE  /\ Skip(j).op = j.op /\ Skip(j).left = j.left \ {First(j.left)}
         /\ Skip(j).conflict = j.conflict /\ Skip(j).error = j.error
         /\ Skip(j).at \in {"finish", "report", "dequeue", "put", "check", "read"}
         /\ Skip(j).at = "dequeue" => j.op = "server"
         /\ Skip(j).at \in {"finish", "report"} => Skip(j).left = {}
         /\ j.op = "drain" => Skip(j).at # "read"
         /\ Skip(j).at = "check" => First(Skip(j).left).op = "uploadBlob"
<1> DEFINE rest == j.left \ {First(j.left)}
<1>1. rest \in SUBSET Entry
  BY DEF Job
<1>2. rest # {} => First(rest) \in Entry
  BY <1>1, FirstIsIn
<1>3. rest # {} /\ First(rest).op # "updateVault" => First(rest).op = "uploadBlob"
  BY <1>2 DEF Entry
<1> QED  BY <1>3, SkipGoes

(* After the step nothing but what was queued is known of the task.        *)
Bare(t, j) ==
    /\ t # "editor" /\ j.at \in {"finish", "report", "put", "dequeue", "check", "failed",
                                 "reconsider", "snapshot"}
    /\ j.at = "dequeue" => j.op = "server"
    /\ j.at = "check" /\ t \in Drains => First(j.left).op = "uploadBlob"

LEMMA SkipIsOrdered ==
  ASSUME OrderedInv, NEW t \in Replays, job[t].at \in Handling,
         NEW j, Goto(t, j), RoleOK(t, j, user.saves),
         Bare(t, j) \/ (t = "choice" /\ j.at = "read"),
         j.at # "snapshot", j.op = job[t].op, j.left \subseteq job[t].left,
         t \in Drains => DrainKnows(j),
         UNCHANGED <<scenario, elsewhere, cache, queue, user>>,
         ServerOK(server'), Prefix(server.versions, server'.versions),
         page'.pending = page.pending
  PROVE  Ordered'
<1>1. ~At(t, "idle")
  BY DEF At, Handling
<1>2. job'[t] = j /\ "choice" \notin Drains
  BY <1>1, ReplayWorks, TaskStep, OfflineAssumption DEF OrderedInv, Ordered
<1>3. KeptAt(t, job[t])'
  BY <1>1, <1>2, ReplayWorks DEF KeptAt, Bare
<1>4. t \in Drains => \A e \in j.left : Based(e)'
  <2>1. t \in Drains => \A e \in j.left : e \in Entry /\ Based(e)
    BY <1>1, ReplayWorks DEF SpanAt
  <2> QED  BY <2>1, WorldGrows
<1>5. SpanAt(t, job[t])'
  BY <1>1, <1>2, <1>4, ReplayWorks DEF SpanAt, Bare
<1> QED  BY <1>1, <1>3, <1>5, ReplayWorks, MoveIsOrdered DEF Bare

LEMMA GivesUp ==
  ASSUME OrderedInv, NEW t \in Tasks, ~At(t, "idle"), Fail(t),
         t = "editor" => job[t].at \notin {"countPut", "countUpload"},
         t # "editor" => job[t].at \in Handling /\ job[t].op # "server",
         UNCHANGED <<scenario, elsewhere, cache, queue, user>>,
         ServerOK(server'), Prefix(server.versions, server'.versions),
         page'.pending = page.pending
  PROVE  Ordered'
<1>1. CASE t = "editor"
  BY <1>1, EditorStopsOrdered
<1>2. CASE t # "editor"
  <2>1. t \in Replays
    BY <1>2 DEF Replays
  <2>2. CASE t \in Drains
    <3> DEFINE j == [job[t] EXCEPT !.at = "failed"]
    <3>1. Goto(t, j) /\ job[t].op = "drain"
      BY <2>1, <2>2, ReplayWorks DEF Fail, Rejected
    <3>2. /\ j.op = job[t].op /\ j.at = "failed" /\ j.left = job[t].left
          /\ j.conflict = job[t].conflict /\ j.error = job[t].error
      BY <2>1, ReplayWorks DEF Job
    <3> HIDE DEF j
    <3>3. RoleOK(t, j, user.saves)
      BY <2>2, <3>1, <3>2 DEF RoleOK, ReplayPcs, Handling
    <3>4. DrainKnows(j)
      BY <2>1, <2>2, <3>2, <1>2, ReplayWorks DEF StatusAt, DrainKnows, Handling
    <3> QED  BY <1>2, <2>1, <3>1, <3>2, <3>3, <3>4, SkipIsOrdered DEF Bare
  <2>3. CASE t \notin Drains
    <3>1. t = "choice" /\ job[t].op = "local" /\ job[t] \in Job
          /\ First(job[t].left) \in job[t].left /\ RoleOK(t, job[t], user.saves)
      BY <1>2, <2>1, <2>3, ReplayWorks
    <3>2. Goto(t, Skip(job[t]))
      BY <3>1 DEF Fail, Rejected
    <3>3. RoleOK(t, Skip(job[t]), user.saves)
      BY <3>1, SkipHasRole DEF At
    <3> QED  BY <1>2, <2>1, <2>3, <3>1, <3>2, <3>3, SkipKnows, SkipIsOrdered DEF Bare
  <2> QED  BY <2>2, <2>3
<1> QED  BY <1>1, <1>2
-----------------------------------------------------------------------------
(* Delivering, by the editor or a replay *)

LEMMA TaskWorks ==
  ASSUME OrderedInv, NEW t \in Tasks, ~At(t, "idle")
  PROVE  /\ job[t] \in Job /\ RoleOK(t, job[t], user.saves)
         /\ StatusAt(t, job[t]) /\ KeptAt(t, job[t]) /\ SpanAt(t, job[t])
         /\ SpanWorld /\ WorkIsKept
         /\ user.kept # None => user.kept <= user.saves
         /\ ServerOK(server) /\ Prefix(server.versions, server.versions)
         /\ t = "editor" => t \notin Drains
         /\ t = "choice" => t \notin Drains
         /\ t # "editor" => t \in Replays
         /\ Latest \in Nat
<1>1. Latest \in Nat
  BY Here, ConstantsAre DEF OrderedInv
<1>2. ServerOK(server) /\ Prefix(server.versions, server.versions)
  BY TopIs, PrefixRefl DEF OrderedInv, OfflineInv
<1> QED  BY <1>1, <1>2, WorksAlone, OfflineAssumption DEF OrderedInv, Ordered, KeptOK, Replays

(* Before a task delivers it has a call in hand, and it resolves nothing   *)
(* for the server.                                                         *)
LEMMA Delivers ==
  ASSUME OrderedInv, NEW t \in Tasks,
         job[t].at \in {"upload", "refresh", "note", "tag"}
  PROVE  /\ ~At(t, "idle")
         /\ t = "editor" => job[t].op = "save" /\ job[t].work = user.saves
         /\ t # "editor" => /\ t \in Replays /\ job[t].at \in Handling
                            /\ job[t].op \in {"drain", "local"}
                            /\ First(job[t].left) \in job[t].left
         /\ t \in Drains => /\ First(job[t].left).op = "uploadBlob"
                            /\ Based(First(job[t].left))
                            /\ First(job[t].left) \in Entry
<1>1. ~At(t, "idle")
  BY DEF At
<1>2. t = "editor" => job[t].op = "save" /\ job[t].work = user.saves
  BY <1>1, SaverIs DEF Loading
<1>3. t # "editor" => /\ t \in Replays /\ job[t].at \in Handling
                      /\ job[t].op \in {"drain", "local"}
                      /\ First(job[t].left) \in job[t].left
  BY <1>1, ReplayWorks, Roles, TaskWorks DEF Handling, At
<1>4. t \in Drains => t # "editor"
  BY OfflineAssumption
<1>5. t \in Drains => /\ First(job[t].left).op = "uploadBlob"
                      /\ Based(First(job[t].left))
                      /\ First(job[t].left) \in Entry
  BY <1>1, <1>3, <1>4, ReplayWorks DEF SpanAt
<1> QED  BY <1>1, <1>2, <1>3, <1>5

(* A step of a delivery that changes neither the cache nor the queue.      *)
LEMMA DeliveryMoves ==
  ASSUME OrderedInv, NEW t \in Tasks, NEW j, Goto(t, j),
         job[t].at \in {"upload", "refresh", "note", "tag", "confirm"},
         j.at \in {"refresh", "note", "noteConfirm"},
         j.at = "noteConfirm" <=> job[t].at = "confirm",
         j.op = job[t].op, j.work = job[t].work, j.left = job[t].left,
         j.conflict = job[t].conflict, j.error = job[t].error,
         UNCHANGED <<scenario, elsewhere, cache, queue, user>>,
         ServerOK(server'), Prefix(server.versions, server'.versions),
         page'.pending = page.pending,
         KeptAt(t, job[t])', SpanAt(t, job[t])'
  PROVE  Ordered'
<1>1. ~At(t, "idle")
  BY DEF At
<1>2. /\ t = "editor" => job[t].at \notin {"countPut", "countUpload"}
      /\ t # "editor" => j.at \notin {"idle", "snapshot"}
      /\ job[t].at = "confirm" => t = "editor"
  BY <1>1, TaskWorks, Roles DEF At, RoleOK, Resolving, ReplayPcs, Handling
<1>3. t \in Drains => DrainKnows(j)
  <2>1. t \in Drains => t \in Replays
    BY ReplaysAre
  <2> QED  BY <1>1, <1>2, <2>1, ReplayWorks, TaskWorks DEF DrainKnows, StatusAt
<1>4. RoleOK(t, j, user.saves)
  <2>1. CASE t = "editor"
    <3>1. job[t].op = "save" /\ job[t].work = user.saves
      BY <1>1, <2>1, SaverIs DEF Loading
    <3> QED  BY <2>1, <3>1 DEF RoleOK, Saving
  <2>2. CASE t # "editor"
    BY <1>1, <1>2, <2>2, TaskWorks DEF RoleOK, Resolving, ReplayPcs, Handling
  <2> QED  BY <2>1, <2>2
<1> QED  BY <1>1, <1>2, <1>3, <1>4, MoveIsOrdered

LEMMA UploadIsOrdered ==
  ASSUME OrderedInv, NEW t \in Tasks, Upload(t)  PROVE Ordered'
<1> DEFINE e == job[t]
           j == [e EXCEPT !.at = "refresh", !.seen = Latest + 1]
<1>1. /\ e.at = "upload" /\ ~At(t, "idle")
      /\ UNCHANGED <<scenario, elsewhere, online, cache, queue, page, user>>
  BY DEF Upload, At, world
<1>2. /\ SpanAt(t, e) /\ KeptAt(t, e) /\ e \in Job /\ SpanWorld
      /\ cache.blob.buf = e.work /\ Latest \in Nat
  BY <1>1, TaskWorks DEF KeptAt
<1>3. CASE /\ Latest < MaxVersions
           /\ server' = [server EXCEPT !.versions =
                           Append(@, [work |-> e.work, by |-> "here"])]
  <2>1. /\ ServerOK(server') /\ Prefix(server.versions, server'.versions)
        /\ Latest' = Latest + 1 /\ server'.versions[Latest + 1].by = "here"
        /\ server'.versions[Latest + 1].work = e.work
    <3>1. e.work \in Works
      BY <1>2 DEF Job
    <3>2. server'.versions[Latest + 1] = [work |-> e.work, by |-> "here"]
      <4>1. [work |-> e.work, by |-> "here"] \in Version
        BY <3>1 DEF Version
      <4>2. /\ server.versions \in Seq(Version) /\ Latest = Len(server.versions)
            /\ server \in Server
        BY Here, TopIs DEF OrderedInv, Latest
      <4>3. server'.versions =
              Append(server.versions, [work |-> e.work, by |-> "here"])
        BY <1>3, <4>2 DEF Server
      <4> QED  BY <4>1, <4>2, <4>3, AppendProperties
    <3>3. /\ ServerOK(server') /\ Prefix(server.versions, server'.versions)
          /\ Len(server'.versions) = Latest + 1
      BY <1>3, <3>1, AppendedServer DEF OrderedInv
    <3>4. Latest' = Len(server'.versions)
      BY DEF Latest
    <3> QED  BY <3>2, <3>3, <3>4
  <2>2. CASE Goto(t, j)
    <3>1. /\ j.op = e.op /\ j.at = "refresh" /\ j.work = e.work /\ j.left = e.left
          /\ j.conflict = e.conflict /\ j.error = e.error /\ j.seen = Latest + 1
      BY <1>2 DEF Job
    <3> HIDE DEF j
    <3>2. job'[t] = j
      BY <1>1, <2>2, TaskStep DEF OrderedInv, Ordered
    <3>3. Uploaded(e.work)'
      <4>1. e.work \in Nat
        BY <1>2, ConstantsAre DEF Job
      <4>2. Latest + 1 \in 1 .. Latest' /\ e.work >= e.work /\ job'[t].work = e.work
        BY <1>2, <2>1, <3>1, <3>2, <4>1
      <4> QED  BY <2>1, <4>2 DEF Uploaded
    <3>4. KeptAt(t, job[t])'
      BY <1>1, <1>2, <3>1, <3>2, <3>3 DEF KeptAt
    <3>5. t \in Drains => \A f \in e.left : Based(f)'
      <4>1. t \in Drains => \A f \in e.left : f \in Entry /\ Based(f)
        BY <1>2 DEF SpanAt, Job
      <4> QED  BY <1>1, <2>1, <4>1, WorldGrows
    <3>6. t \in Drains => t # "editor" /\ First(e.left).op = "uploadBlob"
      BY <1>1, Delivers, OfflineAssumption
    <3>7. SpanAt(t, job[t])'
      <4>1. t \in Drains => Span(First(e.left).seen, Latest)'
        <5>1. t \in Drains => Span(First(e.left).seen, Latest)
                              /\ First(e.left).seen \in Nat
          <6> SUFFICES ASSUME t \in Drains
                       PROVE  /\ Span(First(e.left).seen, Latest)
                              /\ First(e.left).seen \in Nat
            OBVIOUS
          <6>1. /\ First(e.left).op = "uploadBlob" /\ Based(First(e.left))
                /\ First(e.left) \in Entry
            BY <1>1, Delivers
          <6>2. First(e.left).base = Latest
            BY <1>1, <1>2 DEF SpanAt
          <6>3. First(e.left).seen \in Nat
            BY <6>1, ConstantsAre DEF Entry
          <6> QED  BY <6>1, <6>2, <6>3 DEF Based
        <5>2. \A i \in 1 .. Latest : server'.versions[i] = server.versions[i]
          BY <2>1 DEF Prefix, Latest
        <5>3. job'[t].left = e.left
          BY <3>1, <3>2
        <5> QED  BY <1>2, <2>1, <5>1, <5>2, <5>3 DEF Span
      <4>2. /\ job'[t].op = e.op /\ job'[t].at = "refresh" /\ job'[t].left = e.left
            /\ job'[t].seen = Latest'
        BY <2>1, <3>1, <3>2
      <4>3. e.op # "load"
        BY <1>1, Delivers
      <4>4. t = "editor" => t \notin Drains
        BY OfflineAssumption
      <4> QED  BY <3>5, <3>6, <4>1, <4>2, <4>3, <4>4 DEF SpanAt
    <3> QED  BY <1>1, <2>1, <2>2, <3>1, <3>4, <3>7, DeliveryMoves
  <2>3. CASE Fail(t)
    BY <1>1, <2>1, <2>3, GivesUp, Delivers
  <2> QED  BY <1>3, <2>2, <2>3 DEF Upload, Call
<1>4. CASE UNCHANGED server /\ Fail(t)
  BY <1>1, <1>4, GivesUp, Delivers, SameServer DEF OrderedInv
<1> QED  BY <1>3, <1>4 DEF Upload, Call

LEMMA RefreshIsOrdered ==
  ASSUME OrderedInv, NEW t \in Tasks, Refresh(t)  PROVE Ordered'
<1> DEFINE e == job[t]
           j == [e EXCEPT !.detail = Answer,
                          !.at = IF @ = "refresh" THEN "note" ELSE "noteConfirm"]
<1>1. /\ e.at \in {"refresh", "confirm"} /\ ~At(t, "idle")
      /\ UNCHANGED <<scenario, elsewhere, online, server, cache, queue, page, user>>
  BY DEF Refresh, At, world
<1>2. /\ SpanAt(t, e) /\ KeptAt(t, e) /\ e \in Job
      /\ ServerOK(server') /\ Prefix(server.versions, server'.versions)
  BY <1>1, TaskWorks
<1>3. CASE Goto(t, j)
  <2>1. /\ j.op = e.op /\ j.work = e.work /\ j.left = e.left
        /\ j.conflict = e.conflict /\ j.error = e.error /\ j.seen = e.seen
        /\ j.at = IF e.at = "refresh" THEN "note" ELSE "noteConfirm"
        /\ j.detail.version = Latest
    BY <1>2 DEF Job, Answer
  <2> HIDE DEF j
  <2>2. job'[t] = j
    BY <1>1, <1>3, TaskStep DEF OrderedInv, Ordered
  <2>3. KeptAt(t, job[t])'
    BY <1>1, <1>2, <2>1, <2>2 DEF KeptAt, Uploaded, Latest
  <2>4. t \in Drains => t # "editor"
    BY OfflineAssumption
  <2>5. SpanAt(t, job[t])'
    BY <1>1, <1>2, <2>1, <2>2, <2>4 DEF SpanAt, Based, Span, Latest
  <2> QED  BY <1>1, <1>2, <1>3, <2>1, <2>3, <2>5, DeliveryMoves
<1>4. CASE Fail(t)
  <2>1. t # "editor" => e.at = "refresh"
    BY <1>1, TaskWorks, Roles DEF At, RoleOK, Resolving, ReplayPcs, Handling
  <2> QED  BY <1>1, <1>2, <1>4, <2>1, GivesUp, Delivers
<1> QED  BY <1>3, <1>4 DEF Refresh

LEMMA NoteIsOrdered ==
  ASSUME OrderedInv, NEW t \in Tasks, Note(t)  PROVE Ordered'
<1> DEFINE e == job[t]
<1>1. /\ e.at \in {"note", "noteConfirm", "noteOpen"} /\ ~At(t, "idle")
      /\ UNCHANGED <<scenario, elsewhere, online, server, queue, page, user>>
      /\ cache' = [cache EXCEPT !.meta = e.detail]
      /\ Goto(t, IF At(t, "noteConfirm") THEN Idle
                 ELSE [e EXCEPT !.at = IF @ = "note" THEN "tag" ELSE "fetch"])
  BY NoOverlap DEF Note, At, world, WriteCache, OrderedInv
<1>2. /\ SpanAt(t, e) /\ KeptAt(t, e) /\ StatusAt(t, e) /\ e \in Job
      /\ SpanWorld /\ WorkIsKept /\ RoleOK(t, e, user.saves)
      /\ user.kept # None => user.kept <= user.saves
      /\ t \in Drains => t # "editor"
  BY <1>1, TaskWorks
<1>3. cache'.meta = e.detail /\ cache'.blob = cache.blob
  BY <1>1, Here DEF OrderedInv, WorldOK, Cache
<1>4. cache'.meta # None
  BY <1>2, <1>3, NoneAssumption DEF Job
<1>5. WorkIsKept'
  BY <1>1, <1>2, <1>3 DEF WorkIsKept, Orderly, Faults, Uploaded, Latest, Waiting
<1>6. SpanWorld'
  BY <1>1, <1>2, <1>3, <1>4 DEF SpanWorld, Span, Latest, Based
<1>7. ASSUME NEW j, Goto(t, j), RoleOK(t, j, user.saves), StatusAt(t, job[t])',
             job'[t].at # "idle" => (KeptAt(t, job[t]) /\ SpanAt(t, job[t]))'
      PROVE  Ordered'
  BY <1>1, <1>2, <1>5, <1>6, <1>7, StepIsOrdered
<1>8. CASE e.at = "noteConfirm"
  <2>1. Goto(t, Idle) /\ RoleOK(t, Idle, user.saves) /\ Idle.at = "idle"
    BY <1>1, <1>8, IdleIsAJob DEF At, RoleOK
  <2>2. job'[t] = Idle
    BY <1>1, <2>1, TaskStep DEF OrderedInv, Ordered
  <2>3. t = "editor"
    BY <1>2, <1>8 DEF RoleOK, Resolving, ReplayPcs, Handling
  <2>4. StatusAt(t, job[t])'
    BY <1>1, <1>2, <1>8, <2>3 DEF StatusAt
  <2> QED  BY <1>7, <2>1, <2>2, <2>4
<1>9. CASE e.at # "noteConfirm"
  <2> DEFINE j == [e EXCEPT !.at = IF @ = "note" THEN "tag" ELSE "fetch"]
  <2>1. /\ j.op = e.op /\ j.work = e.work /\ j.left = e.left /\ j.detail = e.detail
        /\ j.conflict = e.conflict /\ j.error = e.error /\ j.seen = e.seen
        /\ j.at = IF e.at = "note" THEN "tag" ELSE "fetch"
    BY <1>2 DEF Job
  <2>2. Goto(t, j)
    BY <1>1, <1>9 DEF At
  <2> HIDE DEF j
  <2>3. job'[t] = j
    BY <1>1, <2>2, TaskStep DEF OrderedInv, Ordered
  <2>4. RoleOK(t, j, user.saves)
    BY <1>1, <1>2, <1>9, <2>1
       DEF RoleOK, Loading, Saving, Resolving, ReplayPcs, Handling
  <2>5. StatusAt(t, job[t])'
    BY <1>1, <1>2, <1>9, <2>1, <2>3 DEF StatusAt, DrainKnows
  <2>6. KeptAt(t, job[t])'
    BY <1>1, <1>2, <1>3, <1>9, <2>1, <2>3 DEF KeptAt, Uploaded, Latest
  <2>7. SpanAt(t, job[t])'
    BY <1>1, <1>2, <1>3, <1>9, <2>1, <2>3 DEF SpanAt, Based, Span, Latest
  <2> QED  BY <1>7, <2>2, <2>4, <2>5, <2>6, <2>7
<1> QED  BY <1>8, <1>9

LEMMA TagIsOrdered ==
  ASSUME OrderedInv, NEW t \in Tasks, Tag(t)  PROVE Ordered'
<1> DEFINE e == job[t]
           b == [buf |-> e.work, version |-> e.detail.version, seen |-> e.seen]
           j == [e EXCEPT !.at = IF t = "editor" THEN "confirm" ELSE "dequeue"]
<1>1. /\ e.at = "tag" /\ ~At(t, "idle") /\ Goto(t, j)
      /\ UNCHANGED <<scenario, elsewhere, online, server, queue, page>>
      /\ cache' = [cache EXCEPT !.blob = b]
      /\ IF t = "editor" THEN Taken(e)
         ELSE user' = IF t = "choice" /\ user.seen # None
                      THEN [user EXCEPT !.seen = e.seen] ELSE user
  BY NoOverlap DEF Tag, At, world, WriteCache, OrderedInv
<1>2. /\ SpanAt(t, e) /\ KeptAt(t, e) /\ StatusAt(t, e) /\ e \in Job
      /\ SpanWorld /\ WorkIsKept /\ RoleOK(t, e, user.saves)
      /\ user.kept # None => user.kept <= user.saves
      /\ t \in Drains => t # "editor" /\ t # "choice"
      /\ Latest \in Nat /\ e.detail.version = Latest /\ e.seen = Latest
      /\ Uploaded(e.work) /\ cache.blob.buf = e.work
      /\ t = "editor" => e.op = "save" /\ e.work = user.saves
      /\ e.op # "load" /\ e.op # "server"
  BY <1>1, TaskWorks, Delivers DEF SpanAt, KeptAt
<1>3. cache'.meta = cache.meta /\ cache'.blob = b
  BY <1>1, Here DEF OrderedInv, WorldOK, Cache
<1>4. b \in Blob /\ b.buf = e.work /\ b.version = Latest /\ b.seen = Latest
  BY <1>2 DEF Blob, Job, Detail
<1>5. cache'.blob # None /\ Latest # None
  BY <1>2, <1>3, <1>4, NoneAssumption, OfflineAssumption
<1>6. /\ j.op = e.op /\ j.work = e.work /\ j.left = e.left
      /\ j.conflict = e.conflict /\ j.error = e.error
      /\ j.at = IF t = "editor" THEN "confirm" ELSE "dequeue"
  BY <1>2 DEF Job
<1>7. /\ user'.saves = user.saves /\ user'.dropped = user.dropped
      /\ t = "editor" => user'.kept = e.work /\ user'.seen = Latest
      /\ t # "editor" => user'.kept = user.kept
      /\ t # "editor" =>
           \/ user'.seen = user.seen
           \/ t = "choice" /\ user.seen # None /\ user'.seen = Latest
  <2>1. CASE t = "editor"
    BY <1>1, <1>2, <2>1, UserIs DEF Taken, User
  <2>2. CASE t = "choice" /\ user.seen # None
    BY <1>1, <1>2, <2>2, UserIs DEF User
  <2>3. CASE t # "editor" /\ ~(t = "choice" /\ user.seen # None)
    BY <1>1, <2>3
  <2> QED  BY <2>1, <2>2, <2>3
<1> HIDE DEF b, j
<1>8. job'[t] = j
  BY <1>1, TaskStep DEF OrderedInv, Ordered
<1>9. RoleOK(t, j, user'.saves)
  BY <1>1, <1>2, <1>6, <1>7
     DEF RoleOK, Loading, Saving, Resolving, ReplayPcs, Handling
<1>10. StatusAt(t, job[t])'
  BY <1>1, <1>2, <1>6, <1>8 DEF StatusAt, DrainKnows
<1>11. WorkIsKept'
  <2>1. CASE t = "editor"
    BY <1>1, <1>2, <1>7, <2>1 DEF WorkIsKept, Uploaded, Latest
  <2>2. CASE t # "editor"
    BY <1>1, <1>2, <1>3, <1>4, <1>5, <1>7, <2>2
       DEF WorkIsKept, Orderly, Faults, Uploaded, Latest, Waiting
  <2> QED  BY <2>1, <2>2
<1>12. user'.kept # None => user'.kept <= user'.saves
  BY <1>2, <1>7, UserIs
<1>13. SpanWorld'
  <2>1. Span(Latest, Latest)
    BY <1>2 DEF Span
  <2>2. user'.seen # None => user'.seen <= Latest /\ Span(user'.seen, Latest)
    <3>1. CASE t \in Drains /\ user.seen # None
      <4>1. /\ Span(First(e.left).seen, Latest) /\ First(e.left).op = "uploadBlob"
            /\ Based(First(e.left)) /\ First(e.left) \in Entry
        BY <1>1, <1>2, <3>1, Delivers DEF SpanAt
      <4>2. First(e.left).seen <= user.seen /\ First(e.left).seen \in Nat
        BY <3>1, <4>1, ConstantsAre DEF Based, Entry
      <4>3. user'.seen = user.seen /\ user.seen \in Nat /\ user.seen <= Latest
        BY <1>2, <1>7, <3>1, UserIs DEF SpanWorld
      <4> QED  BY <1>2, <4>1, <4>2, <4>3 DEF Span
    <3>2. CASE user'.seen = Latest
      BY <1>2, <2>1, <3>2
    <3>3. CASE t = "choice" /\ user.seen = None
      BY <1>7, <3>3
    <3>4. CASE t = "choice" /\ user.seen # None
      BY <1>1, <1>2, <3>2, <3>4, UserIs DEF User
    <3> QED  BY <1>2, <1>7, <3>1, <3>2, <3>3, <3>4 DEF Tasks
  <2>3. ASSUME NEW f \in queue  PROVE Based(f)'
    <3>1. Based(f)
      BY <1>2 DEF SpanWorld
    <3>2. user'.seen # None => user'.seen = user.seen \/ user'.seen = Latest
      BY <1>7
    <3> QED  BY <1>1, <3>1, <3>2 DEF Based, Span, Latest
  <2>4. Latest' = Latest /\ \A x, y : Span(x, y)' <=> Span(x, y)
    BY <1>1 DEF Latest, Span
  <2> QED  BY <1>1, <1>2, <1>3, <1>4, <1>5, <2>1, <2>2, <2>3, <2>4 DEF SpanWorld
<1>14. KeptAt(t, job[t])'
  <2>1. Uploaded(cache.blob.buf)'
    BY <1>1, <1>2, <1>3, <1>4 DEF Uploaded, Latest
  <2> QED  BY <1>1, <1>2, <1>6, <1>7, <1>8, <2>1 DEF KeptAt
<1>15. SpanAt(t, job[t])'
  <2>1. t \in Drains => \A f \in e.left : Based(f)'
    BY <1>1, <1>2, <1>7 DEF SpanAt, Based, Span, Latest
  <2> QED  BY <1>1, <1>2, <1>3, <1>6, <1>8, <2>1 DEF SpanAt
<1> QED  BY <1>1, <1>9, <1>10, <1>11, <1>12, <1>13, <1>14, <1>15, StepIsOrdered
-----------------------------------------------------------------------------
(* The steps of a replay *)

LEMMA SendPutIsOrdered ==
  ASSUME OrderedInv, NEW t \in Replays, SendPut(t)  PROVE Ordered'
<1> DEFINE e == job[t]
           j == [e EXCEPT !.at = "dequeue"]
<1>1. /\ e.at = "put" /\ e.at \in Handling /\ ~At(t, "idle")
      /\ UNCHANGED <<scenario, elsewhere, online, cache, queue, page, user>>
  BY DEF SendPut, At, world, Handling
<1>2. /\ SpanAt(t, e) /\ KeptAt(t, e) /\ StatusAt(t, e) /\ e \in Job
      /\ RoleOK(t, e, user.saves) /\ t \in Tasks /\ t # "editor"
      /\ e.op \in {"drain", "local"} /\ First(e.left) \in e.left
      /\ First(e.left) \in Entry /\ t \in Drains \cup {"choice"}
      /\ First(e.left).op = "updateVault"
  <2>1. e.op # "server"
    BY <1>1, ReplayWorks, Roles DEF At
  <2>2. First(e.left).op = "updateVault"
    BY <1>1, TopIs DEF ReplayOK, OrderedInv
  <2> QED  BY <1>1, <2>1, <2>2, ReplayWorks
<1>3. ServerOK(server') /\ server'.versions = server.versions
      /\ Prefix(server.versions, server'.versions)
  <2>1. CASE UNCHANGED server
    BY <1>1, <2>1, ReplayWorks
  <2>2. CASE server' = [server EXCEPT !.envelope = First(e.left).work]
    <3>1. First(e.left).work \in Works
      BY <1>2 DEF Entry
    <3>2. ServerOK(server') /\ server'.versions = server.versions
      BY <2>2, <3>1, PutServer DEF OrderedInv
    <3> QED  BY <1>1, <3>2, ReplayWorks
  <2> QED  BY <2>1, <2>2 DEF SendPut, Call
<1>4. CASE Fail(t)
  BY <1>1, <1>2, <1>3, <1>4, GivesUp
<1>5. CASE Goto(t, j)
  <2>1. /\ j.op = e.op /\ j.left = e.left /\ j.conflict = e.conflict
        /\ j.error = e.error /\ j.at = "dequeue"
    BY <1>2 DEF Job
  <2> HIDE DEF j
  <2>2. job'[t] = j
    BY <1>1, <1>2, <1>5, TaskStep DEF OrderedInv, Ordered
  <2>3. RoleOK(t, j, user.saves)
    BY <1>1, <1>2, <2>1 DEF RoleOK, Resolving, ReplayPcs, Handling, Loading
  <2>4. KeptAt(t, job[t])'
    BY <1>2, <2>1, <2>2 DEF KeptAt
  <2>5. t \in Drains => \A f \in j.left : Based(f)'
    BY <1>1, <1>2, <1>3, <2>1 DEF SpanAt, Based, Span, Latest
  <2>6. SpanAt(t, job[t])'
    BY <1>2, <2>1, <2>2, <2>5 DEF SpanAt
  <2>7. t \in Drains => DrainKnows(j)
    BY <1>1, <1>2, <2>1 DEF StatusAt, DrainKnows
  <2> QED  BY <1>1, <1>2, <1>3, <1>5, <2>1, <2>3, <2>4, <2>6, <2>7, MoveIsOrdered
<1> QED  BY <1>4, <1>5 DEF SendPut, Call

LEMMA ReadCachedIsOrdered ==
  ASSUME OrderedInv, NEW t \in Replays, ReadCached(t)  PROVE Ordered'
<1> DEFINE e == job[t]
           j == [e EXCEPT !.at = "upload", !.work = cache.blob.buf]
<1>1. /\ e.at = "read" /\ e.at \in Handling /\ ~At(t, "idle")
      /\ UNCHANGED <<scenario, elsewhere, online, server, cache, queue, page, user>>
  BY DEF ReadCached, At, world, Handling
<1>2. /\ SpanAt(t, e) /\ KeptAt(t, e) /\ StatusAt(t, e) /\ e \in Job
      /\ RoleOK(t, e, user.saves) /\ t \in Tasks /\ t # "editor" /\ SpanWorld
      /\ e.op \in {"drain", "local"} /\ t \in Drains \cup {"choice"}
      /\ ServerOK(server) /\ Prefix(server.versions, server.versions)
  <2>1. e.op # "server"
    BY <1>1, ReplayWorks, Roles DEF At
  <2> QED  BY <1>1, <2>1, ReplayWorks
<1>3. Goto(t, j)
  BY <1>2, NoOverlap DEF ReadCached, OrderedInv, SpanWorld
<1>4. /\ j.op = e.op /\ j.left = e.left /\ j.conflict = e.conflict
      /\ j.error = e.error /\ j.at = "upload" /\ j.work = cache.blob.buf
  BY <1>2 DEF Job
<1> HIDE DEF j
<1>5. job'[t] = j
  BY <1>1, <1>2, <1>3, TaskStep DEF OrderedInv, Ordered
<1>6. RoleOK(t, j, user.saves)
  BY <1>1, <1>2, <1>4 DEF RoleOK, Resolving, ReplayPcs, Handling, Loading
<1>7. KeptAt(t, job[t])'
  BY <1>1, <1>2, <1>4, <1>5 DEF KeptAt
<1>8. SpanAt(t, job[t])'
  BY <1>1, <1>2, <1>4, <1>5 DEF SpanAt, Based, Span, Latest
<1>9. t \in Drains => DrainKnows(j)
  BY <1>1, <1>2, <1>4 DEF StatusAt, DrainKnows
<1> QED  BY <1>1, <1>2, <1>3, <1>4, <1>6, <1>7, <1>8, <1>9, MoveIsOrdered

(* Only the call in hand is removed: no other has its key.                 *)
LEMMA RemoveTakesOne ==
  ASSUME OrderedInv, NEW t \in Replays, job[t].at \in Handling, Remove(t)
  PROVE  /\ queue' \subseteq queue
         /\ \A e \in queue \ queue' : e.op = First(job[t].left).op
         /\ queue \subseteq job[t].left =>
               queue' \subseteq job[t].left \ {First(job[t].left)}
<1> DEFINE f == First(job[t].left)
<1>1. queue' = {e \in queue : e.seq # f.seq}
  BY DEF Remove
<1>2. f \in Entry /\ f.seq = Key(f.work, f.op)
  BY HandlingNotEmpty DEF OrderedInv, EntryOK
<1>3. ASSUME NEW e \in queue, e.seq = f.seq  PROVE e.op = f.op
  <2>1. e \in Entry /\ e.seq = Key(e.work, e.op)
    BY DEF OrderedInv, OfflineInv, QueueOK, EntryOK
  <2>2. /\ e.work \in Nat /\ f.work \in Nat
        /\ e.op \in {"updateVault", "uploadBlob"} /\ f.op \in {"updateVault", "uploadBlob"}
    BY <1>2, <2>1, ConstantsAre DEF Entry
  <2> QED  BY <1>2, <1>3, <2>1, <2>2 DEF Key
<1> QED  BY <1>1, <1>3

(* A call is taken off the queue, and the replay goes on.                  *)
LEMMA TakenOffIsOrdered ==
  ASSUME OrderedInv, NEW t \in Replays, job[t].at \in Handling,
         Goto(t, Skip(job[t])), Remove(t),
         UNCHANGED <<scenario, elsewhere, online, server, cache, page>>,
         user' = user \/ user' = [user EXCEPT !.dropped = TRUE],
         user'.dropped \/ user.kept = None
           \/ First(job[t].left).op = "updateVault" \/ Uploaded(cache.blob.buf)
  PROVE  Ordered'
<1> DEFINE e == job[t]
           j == Skip(e)
<1>1. /\ ~At(t, "idle") /\ SpanAt(t, e) /\ KeptAt(t, e) /\ StatusAt(t, e) /\ e \in Job
      /\ RoleOK(t, e, user.saves) /\ t \in Tasks /\ t # "editor" /\ SpanWorld
      /\ WorkIsKept /\ e.op \in {"drain", "local", "server"}
      /\ t \in Drains \cup {"choice"}
      /\ (e.op = "drain" <=> t \in Drains)
      /\ user.kept # None => user.kept <= user.saves
      /\ First(e.left) \in e.left /\ e.at \notin {"idle", "snapshot"}
  BY ReplayWorks DEF At, Handling
<1>2. /\ user'.saves = user.saves /\ user'.seen = user.seen /\ user'.kept = user.kept
      /\ user.dropped => user'.dropped
  BY UserIs DEF User
<1>3. /\ j.op = e.op /\ j.left = e.left \ {First(e.left)}
      /\ j.conflict = e.conflict /\ j.error = e.error
      /\ j.at \in {"finish", "report", "dequeue", "put", "check", "read"}
      /\ j.at = "dequeue" => j.op = "server"
      /\ j.at \in {"finish", "report"} => j.left = {}
      /\ j.op = "drain" => j.at # "read"
      /\ j.at = "check" => First(j.left).op = "uploadBlob"
  BY <1>1, SkipKnows
<1>4. RoleOK(t, j, user'.saves)
  BY <1>1, <1>2, SkipHasRole DEF At
<1> HIDE DEF j
<1>5. job'[t] = j
  BY <1>1, TaskStep DEF OrderedInv, Ordered, j
<1>6. /\ queue' \subseteq queue
      /\ \A f \in queue \ queue' : f.op = First(e.left).op
      /\ queue \subseteq e.left => queue' \subseteq j.left
  BY <1>3, RemoveTakesOne
<1>7. StatusAt(t, job[t])'
  <2>1. DrainKnows(e) /\ t \in Drains => DrainKnows(job[t])'
    BY <1>1, <1>3, <1>5, <1>6 DEF DrainKnows
  <2> QED  BY <1>1, <1>3, <1>5, <2>1 DEF StatusAt
<1>8. WorkIsKept'
  <2> SUFFICES ASSUME ~user'.dropped, user'.kept # None
               PROVE  Uploaded(user.kept) \/ (Waiting(user.kept))'
    BY <1>2 DEF WorkIsKept, Uploaded, Latest
  <2>1. user.kept # None /\ ~user.dropped /\ user.kept \in Nat
    BY <1>2, UserIs
  <2>2. CASE Uploaded(user.kept)
    BY <2>2
  <2>3. CASE Waiting(user.kept) /\ First(e.left).op = "updateVault"
    BY <1>2, <1>6, <2>3 DEF Waiting
  <2>4. CASE Waiting(user.kept) /\ Uploaded(cache.blob.buf)
    <3>1. PICK i \in 1 .. Latest : /\ server.versions[i].by = "here"
                                   /\ server.versions[i].work >= cache.blob.buf
      BY <2>4 DEF Uploaded
    <3>2. server.versions[i].work \in Nat
      <4>1. server.versions[i] \in Version
        BY <3>1, TopIs DEF OrderedInv, Latest
      <4> QED  BY <4>1, ConstantsAre DEF Version
    <3>3. cache.blob.buf \in Nat /\ cache.blob.buf >= user.kept
      BY <2>1, <2>4, ConstantsAre DEF Waiting
    <3> QED  BY <2>1, <3>1, <3>2, <3>3 DEF Uploaded
  <2>5. Uploaded(user.kept) \/ Waiting(user.kept)
    BY <1>1, <2>1 DEF WorkIsKept, OrderedInv
  <2> QED  BY <2>1, <2>2, <2>3, <2>4, <2>5
<1>9. SpanWorld'
  BY <1>1, <1>2, <1>6 DEF SpanWorld, Span, Latest, Based
<1>10. KeptAt(t, job[t])'
  BY <1>1, <1>2, <1>3, <1>5 DEF KeptAt
<1>11. SpanAt(t, job[t])'
  <2>1. t \in Drains => \A f \in j.left : Based(f)'
    BY <1>1, <1>2, <1>3 DEF SpanAt, Based, Span, Latest
  <2> QED  BY <1>1, <1>3, <1>5, <2>1 DEF SpanAt
<1>12. user'.kept # None => user'.kept <= user'.saves
  BY <1>1, <1>2
<1>13. Goto(t, j)
  BY DEF j
<1> QED  BY <1>1, <1>4, <1>7, <1>8, <1>9, <1>10, <1>11, <1>12, <1>13, StepIsOrdered

LEMMA DequeueIsOrdered ==
  ASSUME OrderedInv, NEW t \in Replays, Dequeue(t)  PROVE Ordered'
<1>1. /\ job[t].at = "dequeue" /\ job[t].at \in Handling /\ ~At(t, "idle")
      /\ UNCHANGED <<scenario, elsewhere, online, server, cache, page, user>>
      /\ Remove(t) /\ Goto(t, Skip(job[t]))
  BY NoOverlap DEF Dequeue, At, world, Handling, OrderedInv
<1>2. user.kept = None \/ First(job[t].left).op = "updateVault" \/ Uploaded(cache.blob.buf)
  BY <1>1, ReplayWorks DEF KeptAt
<1> QED  BY <1>1, <1>2, TakenOffIsOrdered

LEMMA SnapshotIsOrdered ==
  ASSUME OrderedInv, NEW t \in Replays, Snapshot(t)  PROVE Ordered'
<1> DEFINE e == job[t]
           k == [e EXCEPT !.left = queue]
<1>1. /\ e.at = "snapshot" /\ ~At(t, "idle") /\ page'.pending = page.pending
      /\ UNCHANGED <<scenario, elsewhere, online, server, cache, queue, user>>
      /\ \/ Goto(t, Idle)
         \/ Goto(t, Continue(k))
  BY NoOverlap, Here DEF Snapshot, At, world, OrderedInv, WorldOK, Page
<1>2. /\ SpanAt(t, e) /\ KeptAt(t, e) /\ StatusAt(t, e) /\ e \in Job
      /\ RoleOK(t, e, user.saves) /\ t \in Tasks /\ t # "editor" /\ SpanWorld
      /\ e.op \in {"drain", "local", "server"} /\ t \in Drains \cup {"choice"}
      /\ (e.op = "drain" <=> t \in Drains)
      /\ ServerOK(server) /\ Prefix(server.versions, server.versions)
  BY <1>1, ReplayWorks
<1>3. CASE Goto(t, Idle)
  <2>1. RoleOK(t, Idle, user.saves) /\ Idle.at = "idle"
    BY IdleIsAJob DEF RoleOK
  <2>2. job'[t] = Idle
    BY <1>1, <1>2, <1>3, TaskStep DEF OrderedInv, Ordered
  <2> QED  BY <1>1, <1>2, <1>3, <2>1, <2>2, MoveIsOrdered DEF DrainKnows
<1>4. CASE Goto(t, Continue(k))
  <2> DEFINE j == Continue(k)
  <2>1. queue \in SUBSET Entry
    BY InvariantGivesTypes DEF OrderedInv, TypeOK
  <2>2. k \in Job /\ k.op = e.op /\ k.left = queue
    BY <1>2, <2>1 DEF Job
  <2>3. queue # {} /\ First(queue).op # "updateVault" => First(queue).op = "uploadBlob"
    BY <2>1, FirstIsIn DEF Entry
  <2> HIDE DEF k
  <2>4. /\ j.op = e.op /\ j.left = queue
        /\ j.at \in {"finish", "report", "dequeue", "put", "check", "read"}
        /\ (j.at = "finish" => j.op = "drain") /\ (j.at = "report" => j.op # "drain")
        /\ (j.at = "dequeue" => j.op = "server") /\ (j.at \in {"put", "check", "read"} => j.op # "server")
        /\ (j.at = "check" => j.op = "drain" /\ First(j.left).op = "uploadBlob")
        /\ (j.at = "read" => j.op # "drain")
        /\ (j.at \in {"finish", "report"} => j.left = {})
    BY <2>2, <2>3, ContinueGoes
  <2> HIDE DEF j
  <2>5. RoleOK(t, j, user.saves)
    BY <1>1, <1>2, <2>4 DEF RoleOK, Resolving, ReplayPcs, Handling, Loading
  <2>6. Goto(t, j)
    BY <1>4 DEF j
  <2>7. job'[t] = j
    BY <1>1, <1>2, <2>6, TaskStep DEF OrderedInv, Ordered
  <2>8. KeptAt(t, job[t])'
    BY <1>1, <1>2, <2>4, <2>7 DEF KeptAt
  <2>9. t \in Drains => \A f \in j.left : Based(f)'
    BY <1>1, <1>2, <2>4 DEF SpanWorld, Based, Span, Latest
  <2>10. SpanAt(t, job[t])'
    BY <1>1, <1>2, <2>4, <2>7, <2>9 DEF SpanAt
  <2>11. DrainKnows(j)
    BY <2>4 DEF DrainKnows
  <2> QED  BY <1>1, <1>2, <2>4, <2>5, <2>6, <2>8, <2>10, <2>11, MoveIsOrdered
<1> QED  BY <1>1, <1>3, <1>4

(* A drain goes on to the next call, and knows of an obstacle.             *)
LEMMA GoesOnOrdered ==
  ASSUME OrderedInv, NEW t \in Drains, job[t].at \in Handling,
         NEW j, Goto(t, j), j.op = job[t].op, j.at = Skip(job[t]).at,
         j.left = Skip(job[t]).left, j.conflict \/ j.error,
         UNCHANGED <<scenario, elsewhere, online, server, cache, queue, user, page>>
  PROVE  Ordered'
<1>1. /\ t \in Replays /\ ~At(t, "idle")
  BY ReplaysAre DEF At, Handling
<1>2. /\ job[t] \in Job /\ RoleOK(t, job[t], user.saves) /\ t \in Tasks /\ t # "editor"
      /\ job[t].op = "drain" /\ First(job[t].left) \in job[t].left
      /\ ServerOK(server) /\ Prefix(server.versions, server.versions)
  BY <1>1, ReplayWorks
<1>3. /\ j.left = job[t].left \ {First(job[t].left)}
      /\ j.at \in {"finish", "report", "dequeue", "put", "check", "read"}
      /\ j.at # "dequeue" /\ j.at # "read"
      /\ j.at \in {"finish", "report"} => j.left = {}
      /\ j.at = "check" => First(j.left).op = "uploadBlob"
  BY <1>2, SkipKnows
<1>4. RoleOK(t, j, user.saves)
  BY <1>2, <1>3 DEF RoleOK, ReplayPcs, Handling
<1>5. Bare(t, j) /\ DrainKnows(j)
  BY <1>2, <1>3 DEF Bare, DrainKnows
<1> QED  BY <1>1, <1>2, <1>3, <1>4, <1>5, SkipIsOrdered

LEMMA CheckIsOrdered ==
  ASSUME OrderedInv, NEW t \in Drains, Check(t)  PROVE Ordered'
<1> DEFINE e == job[t]
<1>1. /\ e.at = "check" /\ e.at \in Handling /\ ~At(t, "idle") /\ t \in Replays
      /\ UNCHANGED <<scenario, elsewhere, online, server, cache, queue, page, user>>
  BY ReplaysAre DEF Check, At, world, Handling
<1>2. /\ SpanAt(t, e) /\ KeptAt(t, e) /\ StatusAt(t, e) /\ e \in Job
      /\ RoleOK(t, e, user.saves) /\ t \in Tasks /\ t # "editor" /\ e.op = "drain"
      /\ First(e.left) \in e.left /\ First(e.left) \in Entry
      /\ ServerOK(server) /\ Prefix(server.versions, server.versions)
  BY <1>1, ReplayWorks
<1>3. CASE Goto(t, [Skip(e) EXCEPT !.conflict = TRUE])
  <2> DEFINE j == [Skip(e) EXCEPT !.conflict = TRUE]
  <2>1. Skip(e) \in Job
    <3>1. ReplayOK(t, e, queue, server.versions, Top)
      BY <1>1, TopIs DEF OrderedInv
    <3>2. ReplayOK(t, Skip(e), queue, server.versions, Top)
      BY <3>1, SkipOK
    <3> QED  BY <3>2 DEF ReplayOK
  <2>2. Skip(e).op = e.op
    BY <1>2, SkipKnows
  <2>3. /\ j.op = e.op /\ j.left = Skip(e).left /\ j.at = Skip(e).at
        /\ j.conflict
    BY <2>1, <2>2 DEF Job
  <2>4. Goto(t, j)
    BY <1>3
  <2> HIDE DEF j
  <2> QED  BY <1>1, <2>3, <2>4, GoesOnOrdered
<1>4. CASE Goto(t, [e EXCEPT !.at = "read"]) /\ ~Conflicts(First(e.left).base, Latest)
  <2> DEFINE j == [e EXCEPT !.at = "read"]
  <2>1. /\ j.op = e.op /\ j.left = e.left /\ j.conflict = e.conflict
        /\ j.error = e.error /\ j.at = "read"
    BY <1>2 DEF Job
  <2>2. Goto(t, j)
    BY <1>4
  <2> HIDE DEF j
  <2>3. job'[t] = j
    BY <1>1, <1>2, <2>2, TaskStep DEF OrderedInv, Ordered
  <2>4. RoleOK(t, j, user.saves)
    BY <1>1, <1>2, <2>1 DEF RoleOK, ReplayPcs, Handling
  <2>5. First(e.left).op = "uploadBlob" /\ First(e.left).base = Latest
    BY <1>1, <1>2, <1>4 DEF SpanAt, Based, Conflicts
  <2>6. KeptAt(t, job[t])'
    BY <1>1, <1>2, <2>1, <2>3 DEF KeptAt
  <2>7. SpanAt(t, job[t])'
    BY <1>1, <1>2, <2>1, <2>3, <2>5 DEF SpanAt, Based, Span, Latest
  <2>8. DrainKnows(j)
    BY <1>1, <1>2, <2>1 DEF StatusAt, DrainKnows
  <2> QED  BY <1>1, <1>2, <2>1, <2>2, <2>4, <2>6, <2>7, <2>8, MoveIsOrdered
<1>5. CASE Fail(t)
  BY <1>1, <1>2, <1>5, GivesUp
<1> QED  BY <1>3, <1>4, <1>5 DEF Check

LEMMA AttemptIsOrdered ==
  ASSUME OrderedInv, NEW t \in Drains, Attempt(t)  PROVE Ordered'
<1> DEFINE e == job[t]
           j == [e EXCEPT !.at = "reconsider", !.error = TRUE]
<1>1. /\ e.at = "failed" /\ e.at \in Handling /\ ~At(t, "idle") /\ t \in Replays
      /\ UNCHANGED <<scenario, elsewhere, online, server, cache, page, user>>
      /\ queue' = {Counted(f, t) : f \in queue} /\ Goto(t, j)
  BY NoOverlap, ReplaysAre DEF Attempt, At, world, Handling, OrderedInv, Counted
<1>2. /\ SpanAt(t, e) /\ KeptAt(t, e) /\ StatusAt(t, e) /\ e \in Job
      /\ RoleOK(t, e, user.saves) /\ t \in Tasks /\ t # "editor" /\ e.op = "drain"
      /\ SpanWorld /\ WorkIsKept
      /\ user.kept # None => user.kept <= user.saves
  BY <1>1, ReplayWorks
<1>3. /\ j.op = e.op /\ j.left = e.left /\ j.error /\ j.at = "reconsider"
  BY <1>2 DEF Job
<1> HIDE DEF j
<1>4. job'[t] = j
  BY <1>1, <1>2, TaskStep DEF OrderedInv, Ordered
<1>5. \A f \in queue : /\ Counted(f, t).op = f.op /\ Counted(f, t).base = f.base
                       /\ Counted(f, t).seen = f.seen
  <2>1. queue \subseteq Entry
    BY InvariantGivesTypes DEF OrderedInv, TypeOK
  <2> QED  BY <2>1 DEF Counted, Entry
<1>6. RoleOK(t, j, user'.saves)
  BY <1>1, <1>2, <1>3 DEF RoleOK, ReplayPcs, Handling
<1>7. StatusAt(t, job[t])'
  BY <1>1, <1>2, <1>3, <1>4 DEF StatusAt, DrainKnows
<1>8. WorkIsKept'
  <2>1. ASSUME NEW f \in queue, f.op = "uploadBlob"
        PROVE  \E g \in queue' : g.op = "uploadBlob"
    <3>1. Counted(f, t) \in queue'
      BY <1>1
    <3> QED  BY <1>5, <2>1, <3>1
  <2>2. Waiting(user.kept) => Waiting(user.kept)'
    BY <1>1, <2>1 DEF Waiting
  <2> QED  BY <1>1, <1>2, <2>2 DEF WorkIsKept, Orderly, Faults, Uploaded, Latest
<1>9. SpanWorld'
  <2>1. \A f \in queue' : Based(f)'
    BY <1>1, <1>2, <1>5 DEF SpanWorld, Based, Span, Latest
  <2> QED  BY <1>1, <1>2, <2>1 DEF SpanWorld, Span, Latest
<1>10. KeptAt(t, job[t])'
  BY <1>1, <1>2, <1>3, <1>4 DEF KeptAt
<1>11. SpanAt(t, job[t])'
  BY <1>1, <1>2, <1>3, <1>4 DEF SpanAt, Based, Span, Latest
<1> QED  BY <1>1, <1>2, <1>6, <1>7, <1>8, <1>9, <1>10, <1>11, StepIsOrdered

LEMMA ReconsiderIsOrdered ==
  ASSUME OrderedInv, NEW t \in Drains, Reconsider(t)  PROVE Ordered'
<1>1. /\ job[t].at = "reconsider" /\ job[t].at \in Handling /\ ~At(t, "idle")
      /\ t \in Replays
      /\ UNCHANGED <<scenario, elsewhere, online, server, cache, page>>
      /\ Goto(t, Skip(job[t]))
      /\ \/ Remove(t) /\ user' = [user EXCEPT !.dropped = TRUE]
         \/ UNCHANGED <<queue, user>>
  BY NoOverlap, ReplaysAre DEF Reconsider, At, world, Handling, OrderedInv
<1>2. CASE Remove(t) /\ user' = [user EXCEPT !.dropped = TRUE]
  <2>1. user'.dropped
    BY <1>2, UserIs DEF User
  <2> QED  BY <1>1, <1>2, <2>1, TakenOffIsOrdered
<1>3. CASE UNCHANGED <<queue, user>>
  <2>1. /\ job[t] \in Job /\ job[t].op = "drain" /\ job[t].error
        /\ First(job[t].left) \in job[t].left
    BY <1>1, ReplayWorks DEF StatusAt, DrainKnows
  <2>2. Skip(job[t]).op = job[t].op /\ Skip(job[t]).error
    BY <2>1, SkipKnows
  <2> QED  BY <1>1, <1>3, <2>2, GoesOnOrdered
<1> QED  BY <1>1, <1>2, <1>3

LEMMA FinishIsOrdered ==
  ASSUME OrderedInv, NEW t \in Drains, Finish(t)  PROVE Ordered'
<1> DEFINE e == job[t]
           j == [e EXCEPT !.at = "report"]
<1>1. /\ e.at = "finish" /\ ~At(t, "idle") /\ t \in Replays /\ Goto(t, j)
      /\ UNCHANGED <<scenario, elsewhere, online, server, cache, queue, user>>
      /\ page'.pending = page.pending
  BY ReplaysAre, Here DEF Finish, At, world, OrderedInv, WorldOK, Page
<1>2. /\ SpanAt(t, e) /\ KeptAt(t, e) /\ StatusAt(t, e) /\ e \in Job
      /\ RoleOK(t, e, user.saves) /\ t \in Tasks /\ t # "editor" /\ e.op = "drain"
      /\ ServerOK(server) /\ Prefix(server.versions, server.versions)
  BY <1>1, ReplayWorks
<1>3. /\ j.op = e.op /\ j.left = e.left /\ j.conflict = e.conflict
      /\ j.error = e.error /\ j.at = "report"
  BY <1>2 DEF Job
<1> HIDE DEF j
<1>4. job'[t] = j
  BY <1>1, <1>2, TaskStep DEF OrderedInv, Ordered
<1>5. RoleOK(t, j, user.saves)
  BY <1>1, <1>2, <1>3 DEF RoleOK, ReplayPcs, Handling
<1>6. KeptAt(t, job[t])'
  BY <1>1, <1>2, <1>3, <1>4 DEF KeptAt
<1>7. SpanAt(t, job[t])'
  BY <1>1, <1>2, <1>3, <1>4 DEF SpanAt, Based, Span, Latest
<1>8. DrainKnows(j)
  BY <1>1, <1>2, <1>3 DEF StatusAt, DrainKnows
<1> QED  BY <1>1, <1>2, <1>3, <1>5, <1>6, <1>7, <1>8, MoveIsOrdered

(* At the end the banner's count is taken, or nothing was left.            *)
LEMMA ReportIsOrdered ==
  ASSUME OrderedInv, NEW t \in Replays, Report(t)  PROVE Ordered'
<1> DEFINE e == job[t]
           remaining == Cardinality(queue)
           state == IF e.conflict THEN "conflict"
                    ELSE IF e.error /\ remaining > 0 THEN "error" ELSE "idle"
<1>1. /\ e.at = "report" /\ ~At(t, "idle") /\ Goto(t, Idle)
      /\ UNCHANGED <<scenario, elsewhere, online, server, cache, queue, user>>
      /\ page' = [page EXCEPT !.state = state, !.pending =
                     IF e.op = "drain" /\ state = "idle" THEN 0 ELSE remaining]
  BY NoOverlap DEF Report, At, world, OrderedInv
<1>2. /\ StatusAt(t, e) /\ e \in Job /\ t \in Tasks /\ t # "editor" /\ SpanWorld
      /\ WorkIsKept /\ (e.op = "drain" <=> t \in Drains)
      /\ user.kept # None => user.kept <= user.saves
  BY <1>1, ReplayWorks
<1>3. IsFiniteSet(queue) /\ remaining \in Nat
  BY FS_CardinalityType DEF OrderedInv, OfflineInv, QueueOK
<1>4. page'.pending = IF e.op = "drain" /\ state = "idle" THEN 0 ELSE remaining
  BY <1>1, Here DEF OrderedInv, WorldOK, Page
<1>5. e.op = "drain" /\ state = "idle" => remaining = 0
  <2>1. ASSUME t \in Drains, ~e.conflict, ~e.error  PROVE queue = {}
    BY <1>1, <1>2, <2>1 DEF StatusAt, DrainKnows
  <2> QED  BY <1>2, <1>3, <2>1, FS_EmptySet
<1>6. page'.pending = Cardinality(queue)
  BY <1>4, <1>5
<1>7. RoleOK(t, Idle, user'.saves) /\ Idle.at = "idle"
  BY IdleIsAJob DEF RoleOK
<1>8. job'[t] = Idle
  BY <1>1, <1>2, TaskStep DEF OrderedInv, Ordered
<1>9. StatusAt(t, job[t])'
  BY <1>1, <1>6, <1>7, <1>8 DEF StatusAt, DrainKnows
<1>10. WorkIsKept' /\ SpanWorld'
  BY <1>1, <1>2, WorldStays
<1> QED  BY <1>1, <1>2, <1>7, <1>8, <1>9, <1>10, StepIsOrdered
-----------------------------------------------------------------------------
(* Where nothing is under way afterwards, or a drain has just been called. *)

LEMMA JobsAnewOrdered ==
  ASSUME OrderedInv, NEW jobs \in [Tasks -> Job], \A u \in Tasks : jobs[u].at = "idle",
         NEW b, job' \in Drained(jobs, b) \cup {jobs}, elsewhere'.halfway = None,
         page'.pending = Cardinality(queue'), WorkIsKept', SpanWorld',
         user'.kept # None => user'.kept <= user'.saves
  PROVE  Ordered'
<1>1. scenario \in Scenarios
  BY Here DEF OrderedInv, WorldOK
<1>2. /\ Serial'
      /\ \/ job' = jobs
         \/ \E d \in Drains :
              /\ \A u \in Tasks \ {d} : job'[u].at = "idle"
              /\ job'[d].op = "drain" /\ job'[d].at = "snapshot" /\ job'[d].left = {}
  <2>1. CASE job' = jobs
    BY <2>1 DEF Serial, At, RoleOK
  <2>2. CASE job' \in Drained(jobs, b)
    BY <1>1, <2>2, DrainBegins
  <2> QED  BY <2>1, <2>2
<1>3. \A u \in Drains : u \in Tasks /\ u # "editor"
  BY OfflineAssumption DEF Tasks
<1>4. CASE job' = jobs
  <2>1. "editor" \in Tasks /\ "editor" \notin Drains
    BY <1>3 DEF Tasks
  <2>2. StatusAt("editor", job["editor"])'
    BY <2>1 DEF StatusAt
  <2> QED  BY <1>2, <1>4, <2>1, <2>2, AloneAfter
<1>5. ASSUME NEW d \in Drains, \A u \in Tasks \ {d} : job'[u].at = "idle",
             job'[d].op = "drain", job'[d].at = "snapshot", job'[d].left = {}
      PROVE  Ordered'
  <2>1. StatusAt(d, job[d])'
    BY <1>5 DEF StatusAt, DrainKnows
  <2>2. (KeptAt(d, job[d]) /\ SpanAt(d, job[d]))'
    BY <1>3, <1>5 DEF KeptAt, SpanAt
  <2> QED  BY <1>2, <1>3, <1>5, <2>1, <2>2, AloneAfter
<1> QED  BY <1>2, <1>4, <1>5

LEMMA StartChoiceIsOrdered ==
  ASSUME OrderedInv, NEW op \in {"local", "server"}, StartChoice(op)  PROVE Ordered'
<1> DEFINE j == [Idle EXCEPT !.op = op, !.at = "snapshot"]
<1>1. /\ Quiet /\ Goto("choice", j) /\ "choice" \in Tasks /\ "choice" \notin Drains
      /\ UNCHANGED <<scenario, elsewhere, online, server, cache, queue, page>>
      /\ user' = IF op = "server" THEN [user EXCEPT !.kept = None] ELSE user
  BY NoOverlap, OfflineAssumption DEF StartChoice, Turn, OrderedInv, world, Tasks
<1>2. j.op = op /\ j.at = "snapshot" /\ j.left = {}
  BY DEF Idle
<1>3. /\ user'.saves = user.saves /\ user'.seen = user.seen
      /\ user'.dropped = user.dropped
      /\ IF op = "server" THEN user'.kept = None ELSE user'.kept = user.kept
  BY <1>1, UserIs DEF User
<1> HIDE DEF j
<1>4. RoleOK("choice", j, user'.saves)
  BY <1>2 DEF RoleOK, Resolving
<1>5. job'["choice"] = j
  BY <1>1, TaskBegins DEF OrderedInv
<1>6. StatusAt("choice", job["choice"])'
  BY <1>1, QuietIs DEF StatusAt
<1>7. WorkIsKept'
  BY <1>1, <1>3, QuietIs
     DEF WorkIsKept, Orderly, Faults, Uploaded, Latest, Waiting
<1>8. SpanWorld'
  BY <1>1, <1>3, QuietIs DEF SpanWorld, Span, Latest, Based
<1>9. (KeptAt("choice", job["choice"]) /\ SpanAt("choice", job["choice"]))'
  BY <1>1, <1>2, <1>3, <1>5 DEF KeptAt, SpanAt
<1>10. user'.kept # None => user'.kept <= user'.saves
  BY <1>1, <1>3, QuietIs
<1> QED  BY <1>1, <1>4, <1>6, <1>7, <1>8, <1>9, <1>10, BeginIsOrdered

LEMMA ConnectionIsOrdered ==
  ASSUME OrderedInv, Retry \/ GoOnline  PROVE Ordered'
<1>1. /\ Quiet /\ job' \in Drained(job, page.draining)
      /\ UNCHANGED <<scenario, elsewhere, server, cache, queue, page, user>>
  BY NoOverlap DEF Retry, GoOnline, OrderedInv, world
<1>2. job \in [Tasks -> Job]
  BY TopIs DEF OrderedInv
<1>3. WorkIsKept' /\ SpanWorld'
  BY <1>1, QuietIs, WorldStays
<1> QED  BY <1>1, <1>2, <1>3, QuietIs, JobsAnewOrdered

LEMMA GoOfflineIsOrdered ==
  ASSUME OrderedInv, GoOffline  PROVE Ordered'
<1>1. /\ online' = FALSE
      /\ UNCHANGED <<scenario, elsewhere, server, cache, queue, page, job, user>>
  BY DEF GoOffline, world
<1>2. Serial' /\ StatusOK'
  BY <1>1 DEF OrderedInv, Ordered, Serial, RoleOK, At, StatusOK, Due, DrainKnows
<1>3. KeptOK'
  BY <1>1 DEF OrderedInv, Ordered, KeptOK, KeptAt, WorkIsKept, Orderly, Faults,
              Uploaded, Latest, Waiting, Queued, At
<1>4. SpanOK'
  <2>1. SpanWorld'
    BY <1>1, WorldStays DEF OrderedInv, Ordered, SpanOK
  <2>2. ASSUME NEW t \in Tasks, SpanAt(t, job[t])  PROVE SpanAt(t, job[t])'
    BY <1>1, <2>2 DEF SpanAt, Based, Span, Latest
  <2> QED  BY <1>1, <2>1, <2>2 DEF OrderedInv, Ordered, SpanOK, At
<1> QED  BY <1>2, <1>3, <1>4 DEF Ordered

LEMMA ReloadIsOrdered ==
  ASSUME OrderedInv, Reload  PROVE Ordered'
<1> DEFINE jobs == [t \in Tasks |-> Idle]
<1>1. /\ UNCHANGED <<scenario, elsewhere, online, server, cache, queue>>
      /\ elsewhere.halfway = None
      /\ page' = [draining |-> FALSE, state |-> "idle", pending |-> Cardinality(queue)]
      /\ user' = [user EXCEPT !.seen = None, !.unlocked = FALSE]
      /\ job' \in Drained(jobs, FALSE) \cup {jobs}
  BY NoOverlap DEF Reload, OrderedInv, world
<1>2. jobs \in [Tasks -> Job] /\ \A u \in Tasks : jobs[u].at = "idle"
  BY IdleIsAJob
<1>3. /\ user'.seen = None /\ user'.kept = user.kept /\ user'.saves = user.saves
      /\ user'.dropped = user.dropped
  BY <1>1, UserIs DEF User
<1>4. WorkIsKept /\ SpanWorld /\ (user.kept # None => user.kept <= user.saves)
  BY DEF OrderedInv, Ordered, KeptOK, SpanOK
<1>5. WorkIsKept'
  BY <1>1, <1>3, <1>4 DEF WorkIsKept, Orderly, Faults, Uploaded, Latest, Waiting
<1>6. SpanWorld'
  BY <1>1, <1>3, <1>4 DEF SpanWorld, Span, Latest, Based
<1> HIDE DEF jobs
<1> QED  BY <1>1, <1>2, <1>3, <1>4, <1>5, <1>6, JobsAnewOrdered

LEMMA ElsewhereIsOrdered ==
  ASSUME OrderedInv, ElsewherePut \/ ElsewhereUpload  PROVE Ordered'
<1>1. /\ \A u \in Tasks : job[u].at = "idle"
      /\ UNCHANGED <<scenario, online, cache, queue, page, job, user>>
  <2>1. CASE ElsewherePut
    BY <2>1, NoOverlap, QuietIs DEF ElsewherePut, OrderedInv
  <2>2. CASE ElsewhereUpload
    BY <2>2 DEF ElsewhereUpload, OrderedInv, Ordered, Serial, At
  <2> QED  BY <2>1, <2>2
<1>2. ServerOK(server') /\ Prefix(server.versions, server'.versions)
  <2>1. CASE ElsewherePut
    <3>1. MaxSaves + elsewhere.saves + 1 \in Works /\ OfflineInv'
      BY <2>1, ElsewhereOK, Here, OfflineAssumption
         DEF OrderedInv, ElsewherePut, WorldOK, Other, Works
    <3> QED  BY <2>1, <3>1, PutServer, TopIs, PrefixRefl DEF ElsewherePut, OrderedInv
  <2>2. CASE ElsewhereUpload
    <3>1. elsewhere.halfway \in Works
      BY <2>2, Here DEF OrderedInv, ElsewhereUpload, WorldOK, Other
    <3> QED  BY <2>2, <3>1, AppendedServer DEF ElsewhereUpload, OrderedInv
  <2> QED  BY <2>1, <2>2
<1>3. Serial' /\ StatusAt("editor", job["editor"])'
  <2>1. page.pending = Cardinality(queue)
    BY <1>1 DEF OrderedInv, Ordered, StatusOK, Due, Replays, Tasks
  <2>2. "editor" \in Tasks /\ "editor" \notin Drains
    BY OfflineAssumption DEF Tasks
  <2> QED  BY <1>1, <2>1, <2>2 DEF Serial, At, RoleOK, StatusAt
<1>4. "editor" \in Tasks
  BY DEF Tasks
<1> QED  BY <1>1, <1>2, <1>3, <1>4, WorldGrows, AloneAfter
-----------------------------------------------------------------------------
(* From here on, what holds without overlaps for every behaviour. *)

LEMMA InitIsOrdered == Init => OrderlyInv
<1> SUFFICES ASSUME Init, Orderly  PROVE Ordered
  BY DEF OrderlyInv, Ordered
<1>1. /\ \A t \in Tasks : job[t] = Idle /\ job[t].at = "idle"
      /\ "editor" \in Tasks /\ "editor" \notin Drains
  BY OfflineAssumption, IdleIsAJob DEF Init, Tasks
<1>2. /\ queue = {} /\ page.pending = 0 /\ user.seen = 1 /\ user.kept = 0
      /\ user.saves = 0 /\ elsewhere.halfway = None /\ Latest = 1
      /\ server.versions = <<[work |-> 0, by |-> "here"]>>
  BY DEF Init, Latest
<1>3. /\ cache.meta = NoDetail
      /\ cache.blob = [buf |-> 0, version |-> 1, seen |-> 1]
  BY NoOverlap DEF Init
<1>4. cache.meta # None /\ cache.blob # None /\ 1 # None
  <2>1. cache.meta \in Detail /\ cache.blob \in Blob
    BY <1>3, ConstantsAre DEF Blob
  <2> QED  BY <2>1, NoneAssumption, OfflineAssumption
<1>5. Serial /\ StatusOK
  BY <1>1, <1>2, FS_EmptySet, OfflineAssumption
     DEF Serial, StatusOK, RoleOK, At, DrainKnows, Tasks
<1>6. KeptOK
  <2>1. Uploaded(0)
    BY <1>2 DEF Uploaded, Latest
  <2> QED  BY <1>1, <1>2, <1>4, <2>1 DEF KeptOK, WorkIsKept, At
<1>7. SpanOK
  BY <1>1, <1>2, <1>3, <1>4 DEF SpanOK, SpanWorld, Span, At
<1> QED  BY <1>5, <1>6, <1>7 DEF Ordered

LEMMA NextIsOrdered == OfflineInv /\ OrderlyInv /\ [Next]_vars => OrderlyInv'
<1> SUFFICES ASSUME OfflineInv, OrderlyInv, [Next]_vars, Orderly'
             PROVE  Ordered'
  BY DEF OrderlyInv, Ordered
<1>1. scenario' = scenario
  BY DEF Next, vars, Editor, StartLoad, Open, Fetch, Label, Store, StartSave, Put,
         ReadBase, Keep, Enqueue, Count, Drain, Check, Attempt, Reconsider, Finish,
         Replay, Snapshot, SendPut, ReadCached, Dequeue, Report, Deliver, Upload,
         Refresh, Note, Tag, StartChoice, Retry, Environment, GoOffline, GoOnline,
         Reload, ElsewherePut, ElsewhereUpload, world
<1>2. OrderedInv
  BY <1>1 DEF OrderedInv, OrderlyInv, Ordered, Orderly, Faults
<1>3. CASE UNCHANGED vars
  BY <1>2, <1>3 DEF vars, OrderedInv, Ordered, Serial, StatusOK, KeptOK, SpanOK,
       SpanWorld, RoleOK, At, Due, DrainKnows, KeptAt, SpanAt, WorkIsKept, Orderly,
       Faults, Uploaded, Latest, Waiting, Queued, Based, Span
<1>4. CASE Editor
  BY <1>2, <1>4, StartLoadIsOrdered, OpenIsOrdered, FetchIsOrdered, LabelIsOrdered,
     StoreIsOrdered, StartSaveIsOrdered, PutIsOrdered, ReadBaseIsOrdered,
     KeepIsOrdered, EnqueueIsOrdered, CountIsOrdered DEF Editor
<1>5. CASE \E t \in Drains : Drain(t)
  BY <1>2, <1>5, CheckIsOrdered, AttemptIsOrdered, ReconsiderIsOrdered,
     FinishIsOrdered DEF Drain
<1>6. CASE \E t \in Drains \cup {"choice"} : Replay(t)
  BY <1>2, <1>6, ReplaysAre, SnapshotIsOrdered, SendPutIsOrdered,
     ReadCachedIsOrdered, DequeueIsOrdered, ReportIsOrdered DEF Replay
<1>7. CASE \E t \in Tasks : Deliver(t)
  BY <1>2, <1>7, UploadIsOrdered, RefreshIsOrdered, NoteIsOrdered, TagIsOrdered
     DEF Deliver
<1>8. CASE \E op \in {"local", "server"} : StartChoice(op)
  BY <1>2, <1>8, StartChoiceIsOrdered
<1>9. CASE Retry \/ Environment
  BY <1>2, <1>9, ConnectionIsOrdered, GoOfflineIsOrdered, ReloadIsOrdered,
     ElsewhereIsOrdered DEF Environment
<1> QED  BY <1>3, <1>4, <1>5, <1>6, <1>7, <1>8, <1>9 DEF Next

LEMMA OrderlyInvariant == Spec => [](OfflineInv /\ OrderlyInv)
<1>1. Init => OfflineInv /\ OrderlyInv
  BY InitEstablishes, InitIsOrdered
<1>2. OfflineInv /\ OrderlyInv /\ [Next]_vars => (OfflineInv /\ OrderlyInv)'
  BY NextKeepsInv, NextIsOrdered
<1> QED  BY <1>1, <1>2, PTL DEF Spec

(* What the adapter took is on the server or waits to be sent, whatever    *)
(* calls fail and whenever the page is reloaded, until the user gives it   *)
(* up or a drain does after three attempts (uploadBlob and drainSyncQueue  *)
(* of storage/offline.ts).                                                 *)
THEOREM TakenWorkIsKept == Spec => []WorkIsKept
<1>1. OrderlyInv => WorkIsKept
  BY DEF OrderlyInv, KeptOK, WorkIsKept
<1> QED  BY <1>1, OrderlyInvariant, PTL

(* Between operations the banner counts what waits to be sent, although    *)
(* drainSyncQueue puts 0 there without looking when it met no obstacle.    *)
THEOREM BannerCountsTheQueue == Spec => []StatusIsHonest
<1>1. OrderlyInv => StatusIsHonest
  BY DEF OrderlyInv, StatusOK, StatusIsHonest, Quiet, At, Due, Replays, Tasks
<1> QED  BY <1>1, OrderlyInvariant, PTL

(* A drain uploads over versions of this device only, and no upload leaves *)
(* the queue without a reason: an entry's base is the version of the copy  *)
(* that its work was made from, or one that a later upload of this device  *)
(* left in the cache (drainSyncQueue and uploadBlob of storage/offline.ts).*)
THEOREM DrainsAreCareful == Spec => DrainIsCareful
<1>1. ASSUME OfflineInv, OrderlyInv  PROVE UploadsOverOwn
  <2> SUFFICES ASSUME NEW t \in Drains, Orderly, At(t, "upload")
               PROVE  \A i \in First(job[t].left).seen + 1 .. Latest :
                         server.versions[i].by = "here"
    BY DEF UploadsOverOwn
  <2>1. /\ t \in Tasks /\ t \in Replays /\ ~At(t, "idle")
        /\ job[t].at = "upload" /\ job[t].at \in Handling
    BY ReplaysAre DEF At, Handling
  <2>2. SpanAt(t, job[t]) /\ First(job[t].left) \in job[t].left
    BY <1>1, <2>1, HandlingNotEmpty DEF OrderlyInv, SpanOK
  <2>3. /\ First(job[t].left).op = "uploadBlob" /\ First(job[t].left).base = Latest
        /\ Based(First(job[t].left))
    BY <2>1, <2>2 DEF SpanAt
  <2> QED  BY <2>3 DEF Based, Span
<1>2. OfflineInv /\ OrderlyInv /\ [Next]_vars
        => [UploadsOverOwn /\ UploadsLeaveForAReason]_vars
  BY <1>1, StepsHaveReasons
<1> QED  BY <1>2, OrderlyInvariant, PTL DEF Spec, DrainIsCareful
-----------------------------------------------------------------------------
(***************************************************************************)
(* Where calls do not fail either, and nobody else saves, the envelope and *)
(* the bytes of the last save reach the server together.                   *)
(***************************************************************************)
(* Calls succeed, and the vault is nobody else's.                          *)
Calm ==
    /\ Orderly /\ Faults \cap {"net", "lost_reply"} = {}
    /\ elsewhere.saves = 0 /\ ~user.dropped /\ Latest < MaxVersions

Puts(q) == {e \in q : e.op = "updateVault"}

Current == server.versions[Latest].work

(* A call that Check will let through.                                     *)
Good(e) == e.op = "uploadBlob" /\ e.base = Latest

(* The last save is on the server but for what waits in the queue.         *)
Complete ==
    /\ cache.blob.buf = user.saves
    /\ \/ server.envelope = user.saves /\ Puts(queue) = {}
       \/ \E e \in Puts(queue) : e.work = user.saves
    /\ Current = user.saves \/ \E e \in queue : Good(e)

Delivered == Puts(queue) = {} /\ (user.whole => Current = user.saves)

(* What the editor knows at each of its calls.                             *)
EditorAt(j) ==
    /\ j.op = "load" => user.unlocked
    /\ j.at \in {"label", "store"} => j.work = Current
    /\ j.op = "save" /\ j.at \notin {"confirm", "noteConfirm"} => ~user.whole
    /\ j.at \in {"put", "queuePut", "countPut", "base"} => cache.blob.version = Latest
    /\ j.at \in {"keep", "queueUpload"} => j.base = Latest
    /\ j.at \in {"queuePut", "countPut", "queueUpload", "countUpload"} => ~online
    /\ j.at \in {"upload", "refresh", "note", "tag"} => online
    /\ j.at \in {"base", "keep", "upload", "refresh", "note", "tag"} /\ online
         => server.envelope = j.work
    /\ j.at \in {"countPut", "base", "keep", "queueUpload", "countUpload"} /\ ~online
         => \E e \in Puts(queue) : e.work = j.work
    /\ j.at \in {"refresh", "note", "tag"} => Current = j.work
    /\ j.at = "countUpload" => \E e \in queue : Good(e)

(* What a replay knows: nothing it took from the queue has gone from there *)
(* without it, and no call is given up.                                    *)
ReplayAt(t, j) ==
    /\ online
    /\ j.at \notin {"failed", "reconsider"}
    /\ j.at # "snapshot" => j.left \subseteq queue
    /\ j.at \in {"refresh", "note", "tag"} => (user.whole => Current = user.saves)
    /\ j.op # "server" /\ j.at = "dequeue" =>
          IF First(j.left).op = "updateVault"
          THEN server.envelope = First(j.left).work
          ELSE user.whole => Current = user.saves
    /\ t = "choice" => Delivered
    /\ t \in Drains /\ j.at # "snapshot" =>
          /\ Puts(queue) \subseteq j.left
          /\ user.whole => Current = user.saves \/ \E e \in j.left : Good(e)

(* The cached copy does not name the newest version yet, or the page was   *)
(* reloaded, and the vault is loaded before it is saved again.             *)
StaleAt(t, j) ==
    \/ j.at \in {"refresh", "note", "tag"}
    \/ user.seen = None /\ ~user.unlocked
    \/ /\ user.seen = None /\ online
       /\ t = "editor" /\ j.at # "idle" /\ j.op = "load"

(* What is known of the vault while only t may be at work.                 *)
CalmAt(t, j) ==
    /\ page.draining => t \in Drains /\ j.at \notin {"idle", "snapshot", "report"}
    /\ online => Delivered \/ (t \in Drains /\ j.at # "idle")
    /\ user.whole => Complete
    /\ \A e \in queue : e.work <= user.saves
    /\ cache.blob.version = Latest \/ StaleAt(t, j)
    /\ j.at # "idle" => IF t = "editor" THEN EditorAt(j) ELSE ReplayAt(t, j)

CalmInv ==
    Calm =>
       /\ elsewhere.halfway = None
       /\ \A t \in Tasks :
             (\A u \in Tasks \ {t} : job[u].at = "idle") => CalmAt(t, job[t])
-----------------------------------------------------------------------------
Known == OrderedInv /\ Calm /\ CalmInv

LEMMA NothingFails ==
  ASSUME Calm
  PROVE  "net" \notin Faults /\ "lost_reply" \notin Faults
         /\ "idb" \notin Faults /\ "overlap" \notin Faults
  BY DEF Calm, Orderly

(* One task at work is all there is to know. *)
LEMMA CalmAlone ==
  ASSUME Known, NEW t \in Tasks, ~At(t, "idle")
  PROVE  /\ CalmAt(t, job[t])
         /\ t = "editor" => EditorAt(job[t])
         /\ t # "editor" => ReplayAt(t, job[t])
<1>1. \A u \in Tasks \ {t} : job[u].at = "idle"
  BY WorksAlone DEF Known
<1>2. CalmAt(t, job[t])
  BY <1>1 DEF Known, CalmInv
<1> QED  BY <1>2 DEF CalmAt, At

LEMMA CalmQuiet ==
  ASSUME Known, Quiet
  PROVE  /\ ~page.draining
         /\ online => Delivered
         /\ user.whole => Complete
         /\ \A e \in queue : e.work <= user.saves
         /\ cache.blob.version = Latest \/ (user.seen = None /\ ~user.unlocked)
<1>1. "editor" \in Tasks /\ \A u \in Tasks : job[u].at = "idle"
  BY QuietIs DEF Known
<1>2. CalmAt("editor", job["editor"])
  BY <1>1 DEF Known, CalmInv
<1> QED  BY <1>1, <1>2, OfflineAssumption DEF CalmAt, StaleAt

(* Whoever is at work, or nobody. *)
LEMMA CalmWorld ==
  ASSUME Known
  PROVE  /\ user.whole => Complete
         /\ \A e \in queue : e.work <= user.saves
         /\ elsewhere.halfway = None
<1>1. \E t \in Tasks : \A u \in Tasks \ {t} : job[u].at = "idle"
  BY DEF Known, OrderedInv, Ordered, Serial, At, Tasks
<1> QED  BY <1>1 DEF Known, CalmInv, CalmAt

(* The state after a step, once the task that took it has been looked at.  *)
LEMMA CalmAfter ==
  ASSUME elsewhere'.halfway = None,
         NEW t \in Tasks, \A u \in Tasks \ {t} : job'[u].at = "idle",
         CalmAt(t, job[t])'
  PROVE  CalmInv'
<1> SUFFICES ASSUME NEW u \in Tasks, \A v \in Tasks \ {u} : job'[v].at = "idle",
                    u # t
             PROVE  CalmAt(u, job[u])'
  BY DEF CalmInv
<1>1. job'[t].at = "idle" /\ job'[u].at = "idle"
  OBVIOUS
<1> QED  BY <1>1 DEF CalmAt, StaleAt

LEMMA CalmStep ==
  ASSUME Known, NEW t \in Tasks, ~At(t, "idle"), NEW j, Goto(t, j),
         UNCHANGED elsewhere, CalmAt(t, job[t])'
  PROVE  CalmInv'
<1>1. elsewhere.halfway = None /\ \A u \in Tasks \ {t} : job'[u].at = "idle"
  BY TaskStep DEF Known, OrderedInv, Ordered
<1> QED  BY <1>1, CalmAfter

LEMMA CalmBegin ==
  ASSUME Known, Quiet, NEW t \in Tasks, NEW j, Goto(t, j),
         UNCHANGED elsewhere, CalmAt(t, job[t])'
  PROVE  CalmInv'
<1>1. elsewhere.halfway = None /\ \A u \in Tasks \ {t} : job'[u].at = "idle"
  BY TaskBegins, QuietIs DEF Known, OrderedInv
<1> QED  BY <1>1, CalmAfter

(* What stays true where the vault stays the same.                         *)
LEMMA SameVault ==
  ASSUME UNCHANGED <<server, cache, queue>>, user'.saves = user.saves,
         user'.whole = user.whole
  PROVE  /\ Latest' = Latest /\ Current' = Current
         /\ Puts(queue)' = Puts(queue)
         /\ \A e : Good(e) <=> Good(e)'
         /\ (Complete <=> Complete') /\ (Delivered <=> Delivered')
<1>1. Latest' = Latest /\ Current' = Current /\ Puts(queue)' = Puts(queue)
  BY DEF Latest, Current, Puts
<1>2. \A e : Good(e) <=> Good(e)'
  BY <1>1 DEF Good
<1>3. Delivered <=> Delivered'
  BY <1>1 DEF Delivered
<1>4. Complete <=> Complete'
  BY <1>1, <1>2 DEF Complete
<1> QED  BY <1>1, <1>2, <1>3, <1>4

LEMMA EditorKnows ==
  ASSUME Known, ~At("editor", "idle")
  PROVE  /\ "editor" \in Tasks /\ "editor" \notin Drains
         /\ job["editor"] \in Job /\ EditorAt(job["editor"])
         /\ KeptAt("editor", job["editor"]) /\ SpanAt("editor", job["editor"])
         /\ job["editor"].at \in Loading =>
               job["editor"].op = "load" /\ queue = {} /\ user.seen = None
         /\ job["editor"].at \notin Loading =>
               job["editor"].op = "save" /\ job["editor"].work = user.saves
         /\ ~page.draining
         /\ online => Delivered
         /\ user.whole => Complete
         /\ \A e \in queue : e.work <= user.saves
         /\ cache.blob.version = Latest \/ StaleAt("editor", job["editor"])
         /\ cache.blob # None /\ cache.meta # None
<1> DEFINE e == job["editor"]
<1>1. /\ "editor" \in Tasks /\ "editor" \notin Drains /\ e \in Job
      /\ KeptAt("editor", e) /\ SpanAt("editor", e) /\ SpanWorld
      /\ RoleOK("editor", e, user.saves)
  BY EditorWorks DEF Known
<1>2. CalmAt("editor", e) /\ EditorAt(e)
  BY <1>1, CalmAlone
<1>3. /\ e.at \in Loading => e.op = "load"
      /\ e.at \notin Loading => e.op = "save" /\ e.work = user.saves
  BY <1>1 DEF RoleOK, At, Loading, Saving
<1> HIDE DEF e
<1>4. e.at \in Loading => queue = {} /\ user.seen = None
  BY <1>1, <1>3 DEF SpanAt
<1>5. /\ ~page.draining
      /\ online => Delivered
      /\ user.whole => Complete
      /\ \A f \in queue : f.work <= user.saves
      /\ cache.blob.version = Latest \/ StaleAt("editor", e)
  BY <1>1, <1>2 DEF CalmAt
<1> QED  BY <1>1, <1>2, <1>3, <1>4, <1>5 DEF e, SpanWorld

LEMMA EditorIsCalm ==
  ASSUME Known, ~At("editor", "idle"), NEW j, Goto("editor", j),
         UNCHANGED elsewhere, page'.draining = page.draining,
         (online => Delivered)', (user.whole => Complete)',
         (\A e \in queue : e.work <= user.saves)',
         (cache.blob.version = Latest \/ StaleAt("editor", job["editor"]))',
         job'["editor"].at # "idle" => EditorAt(job["editor"])'
  PROVE  CalmInv'
<1>1. CalmAt("editor", job["editor"])'
  BY EditorKnows DEF CalmAt
<1> QED  BY <1>1, EditorKnows, CalmStep

(* A step of the editor that leaves the vault as it is.                    *)
LEMMA EditorWalks ==
  ASSUME Known, ~At("editor", "idle"), NEW j, Goto("editor", j),
         UNCHANGED <<elsewhere, page, online, server, cache, queue>>,
         user'.saves = user.saves, user'.whole = user.whole,
         (cache.blob.version = Latest \/ StaleAt("editor", job["editor"]))',
         job'["editor"].at # "idle" => EditorAt(job["editor"])'
  PROVE  CalmInv'
<1>1. (online => Delivered)' /\ (user.whole => Complete)'
      /\ (\A e \in queue : e.work <= user.saves)'
  BY SameVault, EditorKnows
<1> QED  BY <1>1, EditorIsCalm
-----------------------------------------------------------------------------
(* Loading *)

LEMMA StartLoadIsCalm ==
  ASSUME Known, StartLoad  PROVE CalmInv'
<1> DEFINE j == [Idle EXCEPT !.op = "load", !.at = "open"]
<1>1. Quiet /\ queue = {} /\ (user.unlocked \/ online)
  BY NoOverlap DEF Known, OrderedInv, StartLoad, Turn
<1>2. /\ Goto("editor", j)
      /\ user' = [user EXCEPT !.seen = None, !.unlocked = TRUE]
      /\ UNCHANGED <<elsewhere, online, server, cache, queue, page>>
  BY <1>1 DEF StartLoad, Goto, world
<1>3. j.op = "load" /\ j.at = "open"
  BY DEF Idle
<1>4. /\ user'.seen = None /\ user'.unlocked /\ user'.saves = user.saves
      /\ user'.whole = user.whole
  BY <1>2, UserIs DEF Known, User
<1> HIDE DEF j
<1>5. /\ job'["editor"] = j /\ "editor" \in Tasks /\ "editor" \notin Drains
  BY <1>1, <1>2, QuietIs, TaskBegins DEF Known, OrderedInv
<1>6. /\ (online => Delivered)' /\ (user.whole => Complete)'
      /\ (\A e \in queue : e.work <= user.saves)' /\ Latest' = Latest
      /\ ~page'.draining
  BY <1>1, <1>2, <1>4, SameVault, CalmQuiet
<1>7. (cache.blob.version = Latest \/ StaleAt("editor", job["editor"]))'
  BY <1>1, <1>2, <1>3, <1>4, <1>5, <1>6, CalmQuiet DEF StaleAt
<1>8. EditorAt(job["editor"])'
  BY <1>3, <1>4, <1>5 DEF EditorAt
<1>9. CalmAt("editor", job["editor"])'
  BY <1>6, <1>7, <1>8 DEF CalmAt
<1> QED  BY <1>1, <1>2, <1>5, <1>9, CalmBegin

(* A step of the editor that loads: what it opens is the newest version.   *)
LEMMA LoadWalks ==
  ASSUME Known, ~At("editor", "idle"), job["editor"].at \in Loading,
         NEW j, Goto("editor", j), j.op = "load",
         j.at \in {"noteOpen", "fetch", "label", "store"},
         (j.at \in {"label", "store"} => j.work = Current),
         UNCHANGED <<elsewhere, page, online, server, cache, queue, user>>
  PROVE  CalmInv'
<1> DEFINE e == job["editor"]
<1>1. /\ e.op = "load" /\ user.seen = None /\ EditorAt(e)
      /\ cache.blob.version = Latest \/ StaleAt("editor", e)
  BY EditorKnows
<1>2. job'["editor"] = j
  BY EditorKnows, TaskStep DEF Known, OrderedInv, Ordered
<1>3. Current' = Current /\ Latest' = Latest
  BY SameVault
<1>4. e.at \notin {"refresh", "note", "tag"}
  BY DEF Loading
<1>5. StaleAt("editor", e) => StaleAt("editor", job["editor"])'
  BY <1>1, <1>2, <1>4 DEF StaleAt
<1>6. EditorAt(job["editor"])'
  BY <1>1, <1>2, <1>3 DEF EditorAt
<1> QED  BY <1>1, <1>3, <1>5, <1>6, EditorWalks

LEMMA OpenIsCalm ==
  ASSUME Known, Open  PROVE CalmInv'
<1> DEFINE e == job["editor"]
<1>1. /\ ~At("editor", "idle") /\ e.at = "open" /\ e.at \in Loading
      /\ UNCHANGED <<elsewhere, online, server, cache, queue, page, user>>
  BY DEF Open, At, world, Loading
<1>2. e.op = "load" /\ e \in Job /\ cache.meta # None
  BY <1>1, EditorKnows
<1>3. CASE Goto("editor", [e EXCEPT !.at = "noteOpen", !.detail = Answer])
  <2> DEFINE j == [e EXCEPT !.at = "noteOpen", !.detail = Answer]
  <2>1. j.op = "load" /\ j.at = "noteOpen"
    BY <1>2 DEF Job
  <2> HIDE DEF j
  <2> QED  BY <1>1, <1>3, <2>1, LoadWalks DEF j
<1>4. CASE Goto("editor", [e EXCEPT !.at = "fetch", !.detail = cache.meta])
  <2> DEFINE j == [e EXCEPT !.at = "fetch", !.detail = cache.meta]
  <2>1. j.op = "load" /\ j.at = "fetch"
    BY <1>2 DEF Job
  <2> HIDE DEF j
  <2> QED  BY <1>1, <1>4, <2>1, LoadWalks DEF j
<1> QED  BY <1>2, <1>3, <1>4, NothingFails DEF Open, Known

(* The tree was opened or not; the copy is the newest version.             *)
LEMMA OpenedIsCalm ==
  ASSUME Known, ~At("editor", "idle"), job["editor"].at \in Loading,
         NEW j, NEW v, Opened(j, v),
         UNCHANGED <<elsewhere, page, online, server, queue>>,
         (user.whole => Complete)', cache'.blob.version = Latest
  PROVE  CalmInv'
<1>1. /\ Goto("editor", Idle) /\ Idle.at = "idle"
      /\ user'.saves = user.saves /\ user'.whole = user.whole
  BY UserIs, IdleIsAJob DEF Opened, Known, User
<1>2. job'["editor"].at = "idle"
  BY <1>1, EditorKnows, TaskStep DEF Known, OrderedInv, Ordered
<1>3. (online => Delivered)' /\ (\A e \in queue : e.work <= user.saves)'
  BY <1>1, EditorKnows DEF Delivered, Puts, Current, Latest
<1>4. (cache.blob.version = Latest)'
  BY DEF Latest
<1> QED  BY <1>1, <1>2, <1>3, <1>4, EditorIsCalm

LEMMA FetchIsCalm ==
  ASSUME Known, Fetch  PROVE CalmInv'
<1> DEFINE e == job["editor"]
<1>1. /\ ~At("editor", "idle") /\ e.at = "fetch" /\ e.at \in Loading
      /\ UNCHANGED <<elsewhere, online, server, cache, queue, page>>
  BY DEF Fetch, At, world, Loading
<1>2. /\ e.op = "load" /\ e \in Job /\ EditorAt(e) /\ cache.blob # None
      /\ user.whole => Complete
      /\ cache.blob.version = Latest \/ StaleAt("editor", e)
  BY <1>1, EditorKnows
<1>3. CASE /\ UNCHANGED user
           /\ Goto("editor", [e EXCEPT !.at = "label",
                                 !.work = server.versions[Latest].work,
                                 !.seen = Latest])
  <2> DEFINE j == [e EXCEPT !.at = "label",
                            !.work = server.versions[Latest].work,
                            !.seen = Latest]
  <2>1. j.op = "load" /\ j.at = "label" /\ j.work = Current
    BY <1>2 DEF Job, Current
  <2> HIDE DEF j
  <2> QED  BY <1>1, <1>3, <2>1, LoadWalks DEF j
<1>4. ASSUME NEW j, ~online, Opened(j, cache.blob.seen)  PROVE CalmInv'
  <2>1. cache.blob.version = Latest
    BY <1>1, <1>2, <1>4 DEF EditorAt, StaleAt
  <2>2. user'.saves = user.saves /\ user'.whole = user.whole
    BY <1>4, UserIs DEF Opened, Known, User
  <2>3. (user.whole => Complete)'
    BY <1>1, <1>2, <2>2, SameVault
  <2> QED  BY <1>1, <1>4, <2>1, <2>3, OpenedIsCalm
<1> QED  BY <1>2, <1>3, <1>4, NothingFails DEF Fetch, Known

LEMMA LabelIsCalm ==
  ASSUME Known, Label  PROVE CalmInv'
<1> DEFINE e == job["editor"]
<1>1. /\ ~At("editor", "idle") /\ e.at = "label" /\ e.at \in Loading
      /\ UNCHANGED <<elsewhere, online, server, cache, queue, page, user>>
  BY DEF Label, At, world, Loading
<1>2. e.op = "load" /\ e \in Job /\ e.work = Current
  BY <1>1, EditorKnows DEF EditorAt
<1>3. PICK v : Goto("editor", [e EXCEPT !.at = "store", !.base = v])
  BY DEF Label
<1> DEFINE j == [e EXCEPT !.at = "store", !.base = v]
<1>4. j.op = "load" /\ j.at = "store" /\ j.work = Current
  BY <1>2 DEF Job
<1> HIDE DEF j
<1> QED  BY <1>1, <1>3, <1>4, LoadWalks DEF j

LEMMA StoreIsCalm ==
  ASSUME Known, Store  PROVE CalmInv'
<1> DEFINE e == job["editor"]
           b == [buf |-> e.work, version |-> e.base, seen |-> e.seen]
<1>1. /\ ~At("editor", "idle") /\ e.at = "store" /\ e.at \in Loading
      /\ UNCHANGED <<elsewhere, online, server, queue, page>>
      /\ cache' = [cache EXCEPT !.blob = b] /\ Opened(e, e.seen)
  BY NothingFails DEF Store, At, world, Loading, WriteCache, Known
<1>2. /\ e.base = Latest /\ e.work = Current /\ queue = {}
      /\ user.whole => Complete
  BY <1>1, EditorKnows DEF EditorAt, SpanAt
<1>3. cache'.blob = b
  BY <1>1, Here DEF Known, OrderedInv, WorldOK, Cache
<1>4. cache'.blob.version = Latest /\ cache'.blob.buf = Current
  BY <1>2, <1>3
<1>5. user'.saves = user.saves /\ user'.whole = user.whole
  BY <1>1, UserIs DEF Opened, Known, User
<1>6. (user.whole => Complete)'
  BY <1>1, <1>2, <1>4, <1>5 DEF Complete, Puts, Current, Latest, Good
<1> QED  BY <1>1, <1>4, <1>6, OpenedIsCalm
-----------------------------------------------------------------------------
(* Saving *)

LEMMA StartSaveIsCalm ==
  ASSUME Known, StartSave  PROVE CalmInv'
<1> DEFINE j == [Idle EXCEPT !.op = "save", !.at = "put",
                             !.work = user.saves + 1, !.seen = user.seen]
<1>1. Quiet /\ user.seen # None
  BY NoOverlap DEF Known, OrderedInv, StartSave, Turn
<1>2. /\ Goto("editor", j)
      /\ user' = [user EXCEPT !.saves = @ + 1, !.whole = FALSE]
      /\ UNCHANGED <<elsewhere, online, server, cache, queue, page>>
  BY DEF StartSave, world
<1>3. j.op = "save" /\ j.at = "put"
  BY DEF Idle
<1>4. user'.saves = user.saves + 1 /\ ~user'.whole /\ user.saves \in Nat
  BY <1>2, UserIs DEF Known, User
<1> HIDE DEF j
<1>5. /\ job'["editor"] = j /\ "editor" \in Tasks /\ "editor" \notin Drains
  BY <1>1, <1>2, QuietIs, TaskBegins DEF Known, OrderedInv
<1>6. /\ cache'.blob.version = Latest' /\ ~page'.draining
      /\ (online => Delivered)'
  BY <1>1, <1>2, <1>4, CalmQuiet DEF Latest, Delivered, Puts
<1>7. (\A f \in queue : f.work <= user.saves)'
  <2>1. \A f \in queue : f.work \in Nat
    BY Here, ConstantsAre DEF Known, OrderedInv, OfflineInv, QueueOK, EntryOK, Entry
  <2> QED  BY <1>1, <1>2, <1>4, <2>1, CalmQuiet
<1>8. EditorAt(job["editor"])'
  BY <1>3, <1>4, <1>5, <1>6 DEF EditorAt
<1>9. CalmAt("editor", job["editor"])'
  BY <1>4, <1>6, <1>7, <1>8 DEF CalmAt
<1> QED  BY <1>1, <1>2, <1>5, <1>9, CalmBegin

(* A step of a save that has not been told yet whether it went through.    *)
LEMMA SaveWalks ==
  ASSUME Known, ~At("editor", "idle"), job["editor"].op = "save", ~user.whole,
         NEW j, Goto("editor", j), j.op = "save", j.at \in Saving,
         j.at \notin {"confirm", "noteConfirm"},
         UNCHANGED <<elsewhere, user, online>>, page'.draining = page.draining,
         server'.versions = server.versions,
         online /\ Puts(queue) = {} => Puts(queue') = {},
         (\A e \in queue : e.work <= user.saves)',
         (cache.blob.version = Latest \/ StaleAt("editor", job["editor"]))',
         EditorAt(job["editor"])'
  PROVE  CalmInv'
<1>1. (user.whole => Complete)'
  OBVIOUS
<1>2. (online => Delivered)'
  BY EditorKnows DEF Delivered
<1> QED  BY <1>1, <1>2, EditorIsCalm

LEMMA PutIsCalm ==
  ASSUME Known, Put  PROVE CalmInv'
<1> DEFINE e == job["editor"]
<1>1. /\ ~At("editor", "idle") /\ e.at = "put" /\ e.at \notin Loading
      /\ UNCHANGED <<elsewhere, online, cache, queue, page, user>>
  BY DEF Put, At, world, Loading
<1>2. /\ e.op = "save" /\ e \in Job /\ ~user.whole
      /\ cache.blob.version = Latest
      /\ \A f \in queue : f.work <= user.saves
  BY <1>1, EditorKnows DEF EditorAt
<1>3. /\ server \in Server /\ Latest' = Len(server'.versions)
      /\ Latest = Len(server.versions)
  BY DEF Known, OrderedInv, OfflineInv, ServerOK, Latest
<1>4. ASSUME NEW pc \in {"base", "queuePut"}, Goto("editor", [e EXCEPT !.at = pc]),
             server'.versions = server.versions,
             pc = "base" => online /\ server'.envelope = e.work,
             pc = "queuePut" => ~online
      PROVE  CalmInv'
  <2> DEFINE j == [e EXCEPT !.at = pc]
  <2>1. j.op = "save" /\ j.at = pc /\ j.work = e.work
    BY <1>2 DEF Job
  <2>2. Goto("editor", j)
    BY <1>4
  <2> HIDE DEF j
  <2>3. job'["editor"] = j
    BY <1>1, <2>2, EditorKnows, TaskStep DEF Known, OrderedInv, Ordered
  <2>4. EditorAt(job["editor"])'
    BY <1>1, <1>2, <1>3, <1>4, <2>1, <2>3 DEF EditorAt
  <2> QED  BY <1>1, <1>2, <1>3, <1>4, <2>1, <2>2, <2>4, SaveWalks DEF Saving
<1>5. CASE online
  <2>1. /\ server' = [server EXCEPT !.envelope = e.work]
        /\ Goto("editor", [e EXCEPT !.at = "base"])
    BY <1>5, NothingFails DEF Put, Call, CallFails, Known
  <2>2. server'.versions = server.versions /\ server'.envelope = e.work
    BY <1>3, <2>1 DEF Server
  <2> QED  BY <1>4, <1>5, <2>1, <2>2
<1>6. CASE ~online
  <2>1. UNCHANGED server /\ Goto("editor", [e EXCEPT !.at = "queuePut"])
    BY <1>6 DEF Put
  <2> QED  BY <1>4, <1>6, <2>1
<1> QED  BY <1>5, <1>6

LEMMA ReadBaseIsCalm ==
  ASSUME Known, ReadBase  PROVE CalmInv'
<1> DEFINE e == job["editor"]
           j == [e EXCEPT !.at = "keep", !.base = cache.blob.version]
<1>1. /\ ~At("editor", "idle") /\ e.at = "base" /\ e.at \notin Loading
      /\ UNCHANGED <<elsewhere, online, server, cache, queue, page, user>>
  BY DEF ReadBase, At, world, Loading
<1>2. /\ e.op = "save" /\ e \in Job /\ ~user.whole /\ EditorAt(e)
      /\ cache.blob.version = Latest /\ cache.blob # None
      /\ \A f \in queue : f.work <= user.saves
  BY <1>1, EditorKnows DEF EditorAt
<1>3. Goto("editor", j)
  BY <1>2, NothingFails DEF ReadBase, VersionRead, Known
<1>4. j.op = "save" /\ j.at = "keep" /\ j.work = e.work /\ j.base = Latest
  BY <1>2 DEF Job
<1> HIDE DEF j
<1>5. job'["editor"] = j
  BY <1>1, <1>3, EditorKnows, TaskStep DEF Known, OrderedInv, Ordered
<1>6. Latest' = Latest /\ Puts(queue)' = Puts(queue)
  BY <1>1 DEF Latest, Puts
<1>7. EditorAt(job["editor"])'
  BY <1>1, <1>2, <1>4, <1>5, <1>6 DEF EditorAt
<1> QED  BY <1>1, <1>2, <1>3, <1>4, <1>6, <1>7, SaveWalks DEF Saving

LEMMA KeepIsCalm ==
  ASSUME Known, Keep  PROVE CalmInv'
<1> DEFINE e == job["editor"]
           b == [buf |-> e.work, version |-> e.base, seen |-> e.seen]
           j == [e EXCEPT !.at = IF online THEN "upload" ELSE "queueUpload"]
<1>1. /\ ~At("editor", "idle") /\ e.at = "keep" /\ e.at \notin Loading
      /\ UNCHANGED <<elsewhere, online, server, queue, page, user>>
      /\ cache' = [cache EXCEPT !.blob = b] /\ Goto("editor", j)
  BY NothingFails DEF Keep, At, world, Loading, WriteCache, Known
<1>2. /\ e.op = "save" /\ e \in Job /\ ~user.whole /\ EditorAt(e)
      /\ e.base = Latest
      /\ \A f \in queue : f.work <= user.saves
  BY <1>1, EditorKnows DEF EditorAt
<1>3. cache'.blob = b
  BY <1>1, Here DEF Known, OrderedInv, WorldOK, Cache
<1>4. /\ j.op = "save" /\ j.at = IF online THEN "upload" ELSE "queueUpload"
      /\ j.work = e.work /\ j.base = Latest
  BY <1>2 DEF Job
<1>5. cache'.blob.version = Latest
  BY <1>2, <1>3
<1> HIDE DEF j, b
<1>6. job'["editor"] = j
  BY <1>1, EditorKnows, TaskStep DEF Known, OrderedInv, Ordered
<1>7. Latest' = Latest /\ Puts(queue)' = Puts(queue)
  BY <1>1 DEF Latest, Puts
<1>8. EditorAt(job["editor"])'
  BY <1>1, <1>2, <1>4, <1>6, <1>7 DEF EditorAt
<1> QED  BY <1>1, <1>2, <1>4, <1>5, <1>7, <1>8, SaveWalks DEF Saving

(* Calls are queued while the app is offline only.                         *)
LEMMA EnqueueIsCalm ==
  ASSUME Known, Enqueue  PROVE CalmInv'
<1> DEFINE e == job["editor"]
           op == IF e.at = "queuePut" THEN "updateVault" ELSE "uploadBlob"
           pc == IF e.at = "queuePut" THEN "countPut" ELSE "countUpload"
           f == [seq |-> Key(e.work, op), op |-> op, work |-> e.work,
                 base |-> e.base, attempts |-> 0, seen |-> e.seen, since |-> Latest]
           j == [e EXCEPT !.at = pc]
<1>1. /\ ~At("editor", "idle") /\ e.at \in {"queuePut", "queueUpload"}
      /\ e.at \notin Loading
      /\ UNCHANGED <<elsewhere, online, server, cache, page, user>>
      /\ queue' = queue \cup {f} /\ Goto("editor", j)
  BY NothingFails DEF Enqueue, At, world, Known, Loading
<1>2. /\ e.op = "save" /\ e \in Job /\ ~user.whole /\ EditorAt(e) /\ ~online
      /\ e.work = user.saves
      /\ cache.blob.version = Latest \/ StaleAt("editor", e)
      /\ \A g \in queue : g.work <= user.saves
  BY <1>1, EditorKnows DEF EditorAt
<1>3. j.op = "save" /\ j.at = pc /\ j.work = e.work
  BY <1>2 DEF Job
<1>4. f.op = op /\ f.base = e.base /\ f.work = e.work
  OBVIOUS
<1> HIDE DEF f, j
<1>5. job'["editor"] = j
  BY <1>1, EditorKnows, TaskStep DEF Known, OrderedInv, Ordered
<1>6. /\ Latest' = Latest /\ Puts(queue) \subseteq Puts(queue')
      /\ op = "updateVault" => f \in Puts(queue')
      /\ f \in queue'
  BY <1>1, <1>4 DEF Latest, Puts
<1>7. (\A g \in queue : g.work <= user.saves)'
  BY <1>1, <1>2, <1>4, UserIs DEF Known
<1>8. pc = "countUpload" => f.op = "uploadBlob" /\ f.base = Latest'
  BY <1>1, <1>2, <1>4, <1>6 DEF EditorAt
<1>9. \E g \in Puts(queue') : g.work = e.work
  <2>1. e.at = "queueUpload" => \E g \in Puts(queue) : g.work = e.work
    BY <1>2 DEF EditorAt
  <2> QED  BY <1>1, <1>4, <1>6, <2>1
<1>10. pc \in {"countPut", "countUpload"} /\ (pc = "countPut" <=> e.at = "queuePut")
  BY <1>1
<1>11. EditorAt(job["editor"])'
  <2>1. pc = "countPut" => cache.blob.version = Latest
    BY <1>2, <1>10 DEF EditorAt
  <2>2. pc = "countUpload" => (\E g \in queue : Good(g))'
    BY <1>6, <1>8 DEF Good
  <2>3. /\ job'["editor"].op = "save" /\ job'["editor"].at = pc
        /\ job'["editor"].work = e.work
    BY <1>3, <1>5
  <2> HIDE DEF pc, op
  <2> QED  BY <1>1, <1>2, <1>6, <1>9, <1>10, <2>1, <2>2, <2>3 DEF EditorAt
<1>12. (cache.blob.version = Latest \/ StaleAt("editor", job["editor"]))'
  BY <1>1, <1>2, <1>3, <1>5, <1>6 DEF StaleAt
<1>13. j.op = "save" /\ j.at \in Saving /\ j.at \notin {"confirm", "noteConfirm"}
  BY <1>3 DEF Saving
<1> QED  BY <1>1, <1>2, <1>7, <1>11, <1>12, <1>13, SaveWalks

LEMMA CountIsCalm ==
  ASSUME Known, Count  PROVE CalmInv'
<1> DEFINE e == job["editor"]
<1>1. /\ ~At("editor", "idle") /\ e.at \in {"countPut", "countUpload"}
      /\ e.at \notin Loading
      /\ UNCHANGED <<elsewhere, online, server, cache, queue>>
      /\ page' = [page EXCEPT !.pending = Cardinality(queue)]
      /\ IF e.at = "countPut"
         THEN Goto("editor", [e EXCEPT !.at = "base"]) /\ UNCHANGED user
         ELSE Taken(e) /\ Goto("editor", [e EXCEPT !.at = "confirm"])
  BY NothingFails DEF Count, At, world, Known, Loading
<1>2. /\ e.op = "save" /\ e \in Job /\ ~user.whole /\ EditorAt(e) /\ ~online
      /\ e.work = user.saves /\ user.seen # None
      /\ cache.blob.version = Latest \/ StaleAt("editor", e)
      /\ e.at = "countUpload" => cache.blob.buf = e.work
      /\ \A g \in queue : g.work <= user.saves
  BY <1>1, EditorKnows DEF EditorAt, SpanAt, KeptAt
<1>3. page'.draining = page.draining
  BY <1>1, Here DEF Known, OrderedInv, WorldOK, Page
<1>4. cache.blob.version = Latest
  BY <1>1, <1>2 DEF StaleAt
<1>5. CASE e.at = "countPut"
  <2> DEFINE j == [e EXCEPT !.at = "base"]
  <2>1. j.op = "save" /\ j.at = "base" /\ j.work = e.work
    BY <1>2 DEF Job
  <2>2. Goto("editor", j) /\ UNCHANGED user
    BY <1>1, <1>5
  <2> HIDE DEF j
  <2>3. job'["editor"] = j
    BY <1>1, <2>2, EditorKnows, TaskStep DEF Known, OrderedInv, Ordered
  <2>4. Latest' = Latest /\ Puts(queue)' = Puts(queue)
    BY <1>1 DEF Latest, Puts
  <2>5. EditorAt(job["editor"])'
    BY <1>1, <1>2, <1>4, <1>5, <2>1, <2>2, <2>3, <2>4 DEF EditorAt
  <2> QED  BY <1>1, <1>2, <1>3, <1>4, <2>1, <2>2, <2>4, <2>5, SaveWalks DEF Saving
<1>6. CASE e.at = "countUpload"
  <2> DEFINE j == [e EXCEPT !.at = "confirm"]
  <2>1. j.op = "save" /\ j.at = "confirm"
    BY <1>2 DEF Job
  <2>2. /\ Goto("editor", j)
        /\ user' = [user EXCEPT !.kept = e.work, !.whole = TRUE, !.seen = e.seen]
    BY <1>1, <1>6 DEF Taken
  <2>3. user'.saves = user.saves
    BY <2>2, UserIs DEF Known, User
  <2> HIDE DEF j
  <2>4. job'["editor"] = j
    BY <1>1, <2>2, EditorKnows, TaskStep DEF Known, OrderedInv, Ordered
  <2>5. Complete
    <3>1. cache.blob.buf = user.saves
      BY <1>2, <1>6
    <3>2. (\E g \in Puts(queue) : g.work = user.saves) /\ (\E g \in queue : Good(g))
      BY <1>2, <1>6 DEF EditorAt
    <3> QED  BY <3>1, <3>2 DEF Complete
  <2>6. Complete'
    BY <1>1, <2>3, <2>5 DEF Complete, Puts, Current, Latest, Good
  <2>7. EditorAt(job["editor"])'
    BY <2>1, <2>4 DEF EditorAt
  <2>8. (cache.blob.version = Latest)' /\ ~online'
        /\ (\A g \in queue : g.work <= user.saves)'
    BY <1>1, <1>2, <1>4, <2>3 DEF Latest
  <2> QED  BY <1>1, <1>3, <2>2, <2>6, <2>7, <2>8, EditorIsCalm
<1> QED  BY <1>1, <1>5, <1>6
-----------------------------------------------------------------------------
(* Replaying *)

LEMMA ReplayKnows ==
  ASSUME Known, NEW t \in Replays, ~At(t, "idle")
  PROVE  /\ t \in Tasks /\ t # "editor" /\ t \in Drains \cup {"choice"}
         /\ "choice" \notin Drains
         /\ job[t] \in Job /\ job[t].op \in {"drain", "local", "server"}
         /\ (job[t].op = "drain" <=> t \in Drains)
         /\ RoleOK(t, job[t], user.saves)
         /\ KeptAt(t, job[t]) /\ SpanAt(t, job[t]) /\ StatusAt(t, job[t])
         /\ ReplayAt(t, job[t])
         /\ online
         /\ page.draining => t \in Drains
                             /\ job[t].at \notin {"idle", "snapshot", "report"}
         /\ Delivered \/ t \in Drains
         /\ user.whole => Complete
         /\ \A e \in queue : e.work <= user.saves
         /\ \/ cache.blob.version = Latest
            \/ job[t].at \in {"refresh", "note", "tag"}
            \/ user.seen = None /\ ~user.unlocked
         /\ job[t].at \in Handling => First(job[t].left) \in job[t].left
<1>1. /\ t \in Tasks /\ t # "editor" /\ t \in Drains \cup {"choice"}
      /\ job[t] \in Job /\ job[t].op \in {"drain", "local", "server"}
      /\ (job[t].op = "drain" <=> t \in Drains)
      /\ RoleOK(t, job[t], user.saves)
      /\ KeptAt(t, job[t]) /\ SpanAt(t, job[t]) /\ StatusAt(t, job[t])
      /\ job[t].at \in Handling => First(job[t].left) \in job[t].left
  BY ReplayWorks DEF Known
<1>2. CalmAt(t, job[t]) /\ ReplayAt(t, job[t])
  BY <1>1, CalmAlone
<1>3. online
  BY <1>2 DEF ReplayAt
<1>4. /\ page.draining => t \in Drains
                          /\ job[t].at \notin {"idle", "snapshot", "report"}
      /\ Delivered \/ t \in Drains
      /\ user.whole => Complete
      /\ \A e \in queue : e.work <= user.saves
      /\ cache.blob.version = Latest \/ StaleAt(t, job[t])
  BY <1>2, <1>3 DEF CalmAt
<1>5. \/ cache.blob.version = Latest
      \/ job[t].at \in {"refresh", "note", "tag"}
      \/ user.seen = None /\ ~user.unlocked
  BY <1>1, <1>4 DEF StaleAt
<1> QED  BY <1>1, <1>2, <1>3, <1>4, <1>5, OfflineAssumption

LEMMA ReplayIsCalm ==
  ASSUME Known, NEW t \in Replays, ~At(t, "idle"), NEW j, Goto(t, j),
         UNCHANGED elsewhere,
         (page.draining => t \in Drains
            /\ job[t].at \notin {"idle", "snapshot", "report"})',
         (Delivered \/ (t \in Drains /\ job[t].at # "idle"))',
         (user.whole => Complete)',
         (\A e \in queue : e.work <= user.saves)',
         (cache.blob.version = Latest \/ StaleAt(t, job[t]))',
         job'[t].at # "idle" => ReplayAt(t, job[t])'
  PROVE  CalmInv'
<1>1. t # "editor" /\ t \in Tasks
  BY ReplayKnows
<1>2. CalmAt(t, job[t])'
  BY <1>1 DEF CalmAt
<1> QED  BY <1>1, <1>2, CalmStep

(* A step of a replay that leaves the vault as it is.                      *)
LEMMA ReplayWalks ==
  ASSUME Known, NEW t \in Replays, ~At(t, "idle"), NEW j, Goto(t, j),
         UNCHANGED <<elsewhere, page, online, server, cache, queue, user>>,
         j.at \notin {"idle", "snapshot"}, t \in Drains => j.at # "report",
         job[t].at \in {"refresh", "note", "tag"} => j.at \in {"refresh", "note", "tag"},
         ReplayAt(t, job[t])'
  PROVE  CalmInv'
<1>1. job'[t] = j
  BY ReplayKnows, TaskStep DEF Known, OrderedInv, Ordered
<1>2. /\ (user.whole => Complete)' /\ (Delivered \/ t \in Drains)'
      /\ (\A e \in queue : e.work <= user.saves)'
  BY SameVault, ReplayKnows
<1>3. (cache.blob.version = Latest \/ StaleAt(t, job[t]))'
  BY <1>1, ReplayKnows DEF StaleAt, Latest
<1>4. (page.draining => t \in Drains
         /\ job[t].at \notin {"idle", "snapshot", "report"})'
  BY <1>1, ReplayKnows
<1>5. (Delivered \/ (t \in Drains /\ job[t].at # "idle"))'
  BY <1>1, <1>2
<1> QED  BY <1>2, <1>3, <1>4, <1>5, ReplayIsCalm

(* Calls of one kind have one key each, and later saves have later keys.   *)
LEMMA KeysTell ==
  ASSUME OfflineInv
  PROVE  /\ \A e, f \in queue : e.seq = f.seq => e = f
         /\ \A e \in queue : e \in Entry /\ e.work \in Nat /\ e.seq \in Nat
         /\ \A e, f \in Puts(queue) : e.seq < f.seq => e.work < f.work
<1>1. /\ \A e, f \in queue : e.seq = f.seq => e = f
      /\ \A e \in queue : e \in Entry /\ e.seq = Key(e.work, e.op)
  BY DEF OfflineInv, QueueOK, EntryOK
<1>2. \A e \in queue : e \in Entry /\ e.work \in Nat /\ e.seq \in Nat
  BY <1>1, ConstantsAre DEF Entry
<1>3. \A e \in Puts(queue) : e \in queue /\ e.seq = 2 * e.work
  BY <1>1 DEF Puts, Key
<1>4. ASSUME NEW e \in Puts(queue), NEW f \in Puts(queue), e.seq < f.seq
      PROVE  e.work < f.work
  BY <1>2, <1>3, <1>4
<1> QED  BY <1>1, <1>2, <1>4

LEMMA FirstIsLeast ==
  ASSUME NEW left \in SUBSET Entry, left # {}
  PROVE  \A f \in left : First(left).seq <= f.seq
<1> DEFINE seqs == {e.seq : e \in left}
<1>1. seqs \in SUBSET Nat /\ seqs # {}
  BY DEF Entry
<1>2. PICK n \in seqs : \A m \in seqs : n <= m
  BY <1>1, LeastNat
<1>3. PICK e \in left : e.seq = n
  BY <1>2
<1>4. \A f \in left : e.seq <= f.seq
  BY <1>2, <1>3
<1> QED  BY <1>4 DEF First

LEMMA SendPutIsCalm ==
  ASSUME Known, NEW t \in Replays, SendPut(t)  PROVE CalmInv'
<1> DEFINE e == job[t]
           j == [e EXCEPT !.at = "dequeue"]
           F == First(e.left)
<1>1. /\ e.at = "put" /\ e.at \in Handling /\ ~At(t, "idle") /\ t # "editor"
      /\ UNCHANGED <<elsewhere, online, cache, queue, page, user>>
  BY DEF SendPut, At, world, Handling
<1>2. /\ e \in Job /\ F \in e.left /\ ReplayAt(t, e) /\ online
      /\ e.left \subseteq queue /\ F.op = "updateVault"
      /\ (user.whole => Complete)
  <2>1. F.op = "updateVault"
    BY <1>1, TopIs DEF ReplayOK, Known, OrderedInv
  <2> QED  BY <1>1, <2>1, ReplayKnows DEF ReplayAt
<1>3. server' = [server EXCEPT !.envelope = F.work] /\ Goto(t, j)
  BY <1>2, NothingFails DEF SendPut, Call, CallFails, Known
<1>4. server'.versions = server.versions /\ server'.envelope = F.work
  BY <1>3, Here DEF Known, OrderedInv, Server
<1>5. F \in Puts(queue)
  BY <1>2 DEF Puts
<1>6. t \in Drains
  BY <1>1, <1>2, <1>5, ReplayKnows DEF ReplayAt, Delivered
<1>7. j.op = e.op /\ j.left = e.left /\ j.at = "dequeue"
  BY <1>2 DEF Job
<1> HIDE DEF j
<1>8. job'[t] = j
  BY <1>1, <1>3, ReplayKnows, TaskStep DEF Known, OrderedInv, Ordered
<1>9. /\ Latest' = Latest /\ Current' = Current /\ Puts(queue)' = Puts(queue)
      /\ \A f : Good(f) <=> Good(f)'
  BY <1>1, <1>4 DEF Latest, Current, Puts, Good
<1>10. (user.whole => Complete)'
  <2>1. user.whole => \E f \in Puts(queue) : f.work = user.saves
    BY <1>2, <1>5 DEF Complete
  <2> QED  BY <1>1, <1>2, <1>9, <2>1 DEF Complete
<1>11. ReplayAt(t, job[t])'
  BY <1>1, <1>2, <1>4, <1>6, <1>7, <1>8, <1>9, ReplayKnows DEF ReplayAt
<1>12. (cache.blob.version = Latest \/ StaleAt(t, job[t]))'
  BY <1>1, <1>9, ReplayKnows DEF StaleAt
<1>13. (page.draining => t \in Drains
          /\ job[t].at \notin {"idle", "snapshot", "report"})'
  BY <1>1, <1>6, <1>7, <1>8
<1>14. (Delivered \/ (t \in Drains /\ job[t].at # "idle"))'
  BY <1>6, <1>7, <1>8
<1>15. (\A f \in queue : f.work <= user.saves)'
  BY <1>1, ReplayKnows
<1> QED  BY <1>1, <1>3, <1>10, <1>11, <1>12, <1>13, <1>14, <1>15, ReplayIsCalm

LEMMA ReadCachedIsCalm ==
  ASSUME Known, NEW t \in Replays, ReadCached(t)  PROVE CalmInv'
<1> DEFINE e == job[t]
           j == [e EXCEPT !.at = "upload", !.work = cache.blob.buf]
<1>1. /\ e.at = "read" /\ ~At(t, "idle")
      /\ UNCHANGED <<elsewhere, online, server, cache, queue, page, user>>
  BY DEF ReadCached, At, world
<1>2. /\ e \in Job /\ ReplayAt(t, e) /\ cache.blob # None
  BY <1>1, ReplayKnows DEF Known, OrderedInv, Ordered, SpanOK, SpanWorld
<1>3. Goto(t, j)
  BY <1>2, NothingFails DEF ReadCached, Known
<1>4. j.op = e.op /\ j.left = e.left /\ j.at = "upload"
  BY <1>2 DEF Job
<1> HIDE DEF j
<1>5. job'[t] = j
  BY <1>1, <1>3, ReplayKnows, TaskStep DEF Known, OrderedInv, Ordered
<1>6. /\ Current' = Current /\ Puts(queue)' = Puts(queue)
      /\ (\A f : Good(f) <=> Good(f)') /\ (Delivered <=> Delivered')
  BY <1>1, SameVault
<1>7. ReplayAt(t, job[t])'
  BY <1>1, <1>2, <1>4, <1>5, <1>6 DEF ReplayAt
<1> QED  BY <1>1, <1>3, <1>4, <1>7, ReplayWalks

(* Where a replay goes after an entry: to the next call, or to its end.    *)
LEMMA SkipIs ==
  ASSUME Known, NEW t \in Replays, job[t].at \in Handling
  PROVE  LET j == Skip(job[t]) IN
         /\ j.op = job[t].op /\ j.left = job[t].left \ {First(job[t].left)}
         /\ j.at \in {"finish", "report", "dequeue", "put", "check", "read"}
         /\ j.at = "dequeue" => j.op = "server"
         /\ t \in Drains => j.at \notin {"dequeue", "report"}
<1>1. /\ job[t] \in Job /\ First(job[t].left) \in job[t].left
      /\ job[t].op \in {"drain", "local", "server"}
      /\ (job[t].op = "drain" <=> t \in Drains)
  BY ReplayKnows DEF At, Handling
<1> QED  BY <1>1, SkipKnows, SkipGoes

(* An entry leaves the queue and the snapshot.                             *)
LEMMA DequeueIsCalm ==
  ASSUME Known, NEW t \in Replays, Dequeue(t)  PROVE CalmInv'
<1> DEFINE e == job[t]
           F == First(e.left)
           j == Skip(e)
<1>1. /\ e.at = "dequeue" /\ e.at \in Handling /\ ~At(t, "idle")
      /\ UNCHANGED <<elsewhere, online, server, cache, page, user>>
      /\ queue' = {f \in queue : f.seq # F.seq} /\ Goto(t, j)
  BY NothingFails DEF Dequeue, At, world, Handling, Remove, Known
<1>2. /\ e \in Job /\ F \in e.left /\ ReplayAt(t, e) /\ online
      /\ e.left \subseteq queue /\ F \in queue
      /\ (user.whole => Complete)
  BY <1>1, ReplayKnows DEF ReplayAt
<1>3. queue' = queue \ {F}
  BY <1>1, <1>2, KeysTell DEF Known, OrderedInv
<1>4. /\ j.op = e.op /\ j.left = e.left \ {F}
      /\ j.at \in {"finish", "report", "dequeue", "put", "check", "read"}
      /\ j.at = "dequeue" => j.op = "server"
      /\ t \in Drains => j.at \notin {"dequeue", "report"}
  BY <1>1, SkipIs
<1>5. e.op # "server" \/ t = "choice"
  BY <1>1, ReplayKnows
<1> HIDE DEF j
<1>6. job'[t] = j
  BY <1>1, ReplayKnows, TaskStep DEF Known, OrderedInv, Ordered
<1>7. /\ Latest' = Latest /\ Current' = Current /\ Puts(queue') = Puts(queue) \ {F}
      /\ \A f : Good(f) <=> Good(f)'
  BY <1>1, <1>3 DEF Latest, Current, Puts, Good
<1>8. t = "choice" => Delivered /\ Delivered'
  BY <1>1, <1>2, <1>7 DEF ReplayAt, Delivered
<1> HIDE DEF F
<1>9. ASSUME user.whole  PROVE Complete'
  <2>1. CASE F.op = "updateVault"
    <3>1. F \in Puts(queue) /\ t \in Drains /\ e.op # "server"
      BY <1>1, <1>2, <1>8, <2>1, ReplayKnows DEF Puts, Delivered
    <3>2. server.envelope = F.work
      BY <1>1, <1>2, <2>1, <3>1 DEF ReplayAt, F
    <3>3. PICK f \in Puts(queue) : f.work = user.saves
      BY <1>2, <1>9, <3>1 DEF Complete
    <3>4. f = F => Puts(queue') = {}
      <4> SUFFICES ASSUME f = F, NEW g \in Puts(queue), g # F  PROVE FALSE
        BY <1>7
      <4>1. g \in e.left /\ g \in queue /\ g \in Entry /\ e.left \in SUBSET Entry
        BY <1>1, <1>2, <3>1 DEF ReplayAt, Puts, Job
      <4>2. F.seq <= g.seq
        BY <4>1, FirstIsLeast DEF F
      <4>3. F.seq # g.seq /\ F.seq \in Nat /\ g.seq \in Nat
        BY <1>2, <4>1, KeysTell DEF Known, OrderedInv
      <4>4. F.work < g.work
        BY <3>1, <4>2, <4>3, KeysTell DEF Known, OrderedInv
      <4>5. g.work <= user.saves
        BY <1>1, <4>1, ReplayKnows
      <4>6. F.work = user.saves /\ g.work \in Nat /\ user.saves \in Nat
        BY <3>3, <4>1, KeysTell, UserIs DEF Known, OrderedInv
      <4> QED  BY <4>4, <4>5, <4>6
    <3>5. \/ server.envelope = user.saves /\ Puts(queue') = {}
          \/ \E g \in Puts(queue') : g.work = user.saves
      BY <1>7, <3>2, <3>3, <3>4
    <3>6. Current = user.saves \/ \E g \in queue' : Good(g)
      BY <1>2, <1>3, <1>9, <2>1 DEF Complete, Good
    <3>7. (Current = user.saves \/ \E g \in queue : Good(g))'
      BY <1>1, <1>7, <3>6
    <3> QED  BY <1>1, <1>2, <1>9, <3>5, <3>7 DEF Complete
  <2>2. CASE F.op # "updateVault"
    <3>1. Current = user.saves
      <4>1. CASE e.op = "server"
        BY <1>5, <1>8, <1>9, <4>1 DEF Delivered
      <4>2. CASE e.op # "server"
        BY <1>1, <1>2, <1>9, <2>2, <4>2 DEF ReplayAt, F
      <4> QED  BY <4>1, <4>2
    <3>2. Puts(queue') = Puts(queue)
      BY <1>7, <2>2 DEF Puts
    <3>3. (Current = user.saves)'
      BY <1>1, <1>7, <3>1
    <3> QED  BY <1>1, <1>2, <1>9, <3>2, <3>3 DEF Complete
  <2> QED  BY <2>1, <2>2
<1>10. ReplayAt(t, job[t])'
  <2>1. j.left \subseteq queue'
    BY <1>2, <1>3, <1>4
  <2>2. t \in Drains =>
          /\ Puts(queue') \subseteq j.left
          /\ user.whole => Current = user.saves \/ \E f \in j.left : Good(f)
    <3> SUFFICES ASSUME t \in Drains
                 PROVE  /\ Puts(queue') \subseteq j.left
                        /\ user.whole => Current = user.saves
                                         \/ \E f \in j.left : Good(f)
      OBVIOUS
    <3>1. /\ Puts(queue) \subseteq e.left
          /\ user.whole => Current = user.saves \/ \E f \in e.left : Good(f)
      BY <1>1, <1>2 DEF ReplayAt
    <3>2. F.op # "updateVault" => (user.whole => Current = user.saves)
      BY <1>1, <1>2, ReplayKnows DEF ReplayAt, F
    <3>3. F.op = "updateVault" => ~Good(F)
      BY DEF Good
    <3> QED  BY <1>4, <1>7, <3>1, <3>2, <3>3
  <2>3. (Current = user.saves)' <=> (Current = user.saves)
    BY <1>1, <1>7
  <2>4. j.at \notin {"failed", "reconsider", "refresh", "note", "tag"}
    BY <1>4
  <2> QED  BY <1>1, <1>2, <1>4, <1>6, <1>7, <1>8, <2>1, <2>2, <2>3, <2>4 DEF ReplayAt
<1>11. (cache.blob.version = Latest \/ StaleAt(t, job[t]))'
  BY <1>1, <1>7, ReplayKnows DEF StaleAt
<1>12. (page.draining => t \in Drains
          /\ job[t].at \notin {"idle", "snapshot", "report"})'
  BY <1>1, <1>4, <1>6, ReplayKnows
<1>13. (Delivered \/ (t \in Drains /\ job[t].at # "idle"))'
  BY <1>1, <1>4, <1>6, <1>8, ReplayKnows
<1>14. (\A f \in queue : f.work <= user.saves)'
  BY <1>1, <1>3, ReplayKnows
<1> QED  BY <1>1, <1>9, <1>10, <1>11, <1>12, <1>13, <1>14, ReplayIsCalm

LEMMA SnapshotIsCalm ==
  ASSUME Known, NEW t \in Replays, Snapshot(t)  PROVE CalmInv'
<1> DEFINE e == job[t]
<1>1. /\ e.at = "snapshot" /\ ~At(t, "idle")
      /\ UNCHANGED <<elsewhere, online, server, cache, queue, user>>
  BY DEF Snapshot, At, world
<1>2. /\ e \in Job /\ ReplayAt(t, e) /\ online /\ (e.op = "drain" <=> t \in Drains)
      /\ e.op \in {"drain", "local", "server"} /\ ~page.draining
      /\ (user.whole => Complete) /\ (Delivered \/ t \in Drains)
      /\ cache.blob.version = Latest \/ (user.seen = None /\ ~user.unlocked)
      /\ \A f \in queue : f.work <= user.saves
      /\ queue \in SUBSET Entry
  <2>1. queue \in SUBSET Entry
    BY InvariantGivesTypes DEF Known, OrderedInv, TypeOK
  <2> QED  BY <1>1, <2>1, ReplayKnows
<1>3. /\ Latest' = Latest /\ Current' = Current /\ Puts(queue)' = Puts(queue)
      /\ (\A f : Good(f) <=> Good(f)') /\ (Delivered <=> Delivered')
      /\ (user.whole => Complete)'
  BY <1>1, <1>2, SameVault
<1>4. /\ (\A f \in queue : f.work <= user.saves)'
      /\ (cache.blob.version = Latest \/ StaleAt(t, job[t]))'
  BY <1>1, <1>2, <1>3 DEF StaleAt
<1>5. CASE e.op = "drain" /\ queue = {} /\ Goto(t, Idle) /\ UNCHANGED page
  <2>1. job'[t] = Idle /\ Idle.at = "idle"
    BY <1>1, <1>5, ReplayKnows, TaskStep, IdleIsAJob DEF Known, OrderedInv, Ordered
  <2>2. Delivered
    BY <1>2, <1>5 DEF Delivered, Complete, Puts
  <2> QED  BY <1>1, <1>2, <1>3, <1>4, <1>5, <2>1, <2>2, ReplayIsCalm
<1>6. CASE /\ e.op # "drain" \/ queue # {}
           /\ Goto(t, Continue([e EXCEPT !.left = queue]))
           /\ page' = IF e.op = "drain"
                      THEN [page EXCEPT !.draining = TRUE, !.state = "syncing"]
                      ELSE page
  <2> DEFINE k == [e EXCEPT !.left = queue]
             j == Continue(k)
  <2>1. k \in Job /\ k.left = queue /\ k.op = e.op
    BY <1>2 DEF Job
  <2> HIDE DEF k
  <2>2. /\ j.op = e.op /\ j.left = queue
        /\ j.at \in {"finish", "report", "dequeue", "put", "check", "read"}
        /\ j.at = "dequeue" => j.op = "server"
        /\ e.op = "drain" => j.at \notin {"dequeue", "report"}
    BY <2>1, ContinueGoes
  <2>3. Goto(t, j)
    BY <1>6 DEF k
  <2> HIDE DEF j
  <2>4. job'[t] = j
    BY <1>1, <2>3, ReplayKnows, TaskStep DEF Known, OrderedInv, Ordered
  <2>5. page'.draining => t \in Drains
    BY <1>2, <1>6, Here DEF Known, OrderedInv, WorldOK, Page
  <2>6. Puts(queue) \subseteq queue
    BY DEF Puts
  <2>7. user.whole => Current = user.saves \/ \E f \in queue : Good(f)
    BY <1>2 DEF Complete
  <2>8. ReplayAt(t, job[t])'
    <3>1. j.at \notin {"failed", "reconsider", "refresh", "note", "tag"}
      BY <2>2
    <3>2. t = "choice" => Delivered
      BY <1>2, OfflineAssumption
    <3> QED  BY <1>1, <1>2, <1>3, <2>2, <2>4, <2>6, <2>7, <3>1, <3>2 DEF ReplayAt
  <2>9. (page.draining => t \in Drains
           /\ job[t].at \notin {"idle", "snapshot", "report"})'
    BY <1>2, <2>2, <2>4, <2>5
  <2>10. (Delivered \/ (t \in Drains /\ job[t].at # "idle"))'
    BY <1>2, <1>3, <2>2, <2>4
  <2> QED  BY <1>1, <1>3, <1>4, <2>3, <2>8, <2>9, <2>10, ReplayIsCalm
<1> QED  BY <1>5, <1>6, NothingFails DEF Snapshot, Known

LEMMA CheckIsCalm ==
  ASSUME Known, NEW t \in Drains, Check(t)  PROVE CalmInv'
<1> DEFINE e == job[t]
           F == First(e.left)
<1>1. /\ e.at = "check" /\ ~At(t, "idle") /\ t \in Replays /\ e.at \in Handling
      /\ UNCHANGED <<elsewhere, online, server, cache, queue, page, user>>
      /\ t # "choice"
  BY ReplaysAre, OfflineAssumption DEF Check, At, world, Handling
<1>2. /\ e \in Job /\ ReplayAt(t, e) /\ online /\ F \in e.left
      /\ F.op = "uploadBlob" /\ e.op = "drain"
  BY <1>1, ReplayKnows DEF SpanAt
<1>3. /\ Puts(queue) \subseteq e.left /\ e.left \subseteq queue
      /\ user.whole => Current = user.saves \/ \E f \in e.left : Good(f)
  BY <1>1, <1>2 DEF ReplayAt
<1>4. /\ Current' = Current /\ Puts(queue)' = Puts(queue)
      /\ (\A f : Good(f) <=> Good(f)')
  BY <1>1, SameVault
<1>5. ASSUME NEW j, Goto(t, j), j.op = "drain", Puts(queue) \subseteq j.left,
             j.left \subseteq queue,
             user.whole => Current = user.saves \/ \E f \in j.left : Good(f),
             j.at \in {"finish", "put", "check", "read"}
      PROVE  CalmInv'
  <2>1. job'[t] = j
    BY <1>1, <1>5, ReplayKnows, TaskStep DEF Known, OrderedInv, Ordered
  <2>2. ReplayAt(t, job[t])'
    BY <1>1, <1>2, <1>4, <1>5, <2>1 DEF ReplayAt
  <2> QED  BY <1>1, <1>5, <2>2, ReplayWalks
<1>6. CASE Conflicts(F.base, Latest) /\ Goto(t, [Skip(e) EXCEPT !.conflict = TRUE])
  <2> DEFINE k == Skip(e)
             j == [k EXCEPT !.conflict = TRUE]
  <2>1. /\ k.op = "drain" /\ k.left = e.left \ {F}
        /\ k.at \in {"finish", "put", "check"}
    <3>1. k.at # "read"
      BY <1>2, SkipKnows
    <3> QED  BY <1>1, <1>2, <3>1, SkipIs
  <2>2. k \in Job
    <3>1. ReplayOK(t, e, queue, server.versions, Top)
      BY <1>1, TopIs DEF Known, OrderedInv
    <3>2. ReplayOK(t, k, queue, server.versions, Top)
      BY <3>1, SkipOK
    <3> QED  BY <3>2 DEF ReplayOK
  <2> HIDE DEF k
  <2>3. j.op = "drain" /\ j.left = e.left \ {F} /\ j.at \in {"finish", "put", "check"}
    BY <2>1, <2>2 DEF Job
  <2>4. Goto(t, j)
    BY <1>6 DEF k
  <2> HIDE DEF j
  <2>5. ~Good(F) /\ F \notin Puts(queue)
    BY <1>2, <1>6 DEF Good, Conflicts, Puts
  <2> QED  BY <1>3, <1>5, <2>3, <2>4, <2>5
<1>7. CASE Goto(t, [e EXCEPT !.at = "read"])
  <2> DEFINE j == [e EXCEPT !.at = "read"]
  <2>1. j.op = "drain" /\ j.left = e.left /\ j.at = "read"
    BY <1>2 DEF Job
  <2>2. Goto(t, j)
    BY <1>7
  <2> HIDE DEF j
  <2> QED  BY <1>3, <1>5, <2>1, <2>2
<1> QED  BY <1>2, <1>6, <1>7, NothingFails DEF Check, CallFails, Known

(* No call fails, so none is counted or given up.                          *)
LEMMA NoAttempts ==
  ASSUME Known, NEW t \in Drains, Attempt(t) \/ Reconsider(t)  PROVE FALSE
<1>1. t \in Replays /\ ~At(t, "idle") /\ job[t].at \in {"failed", "reconsider"}
  BY ReplaysAre DEF Attempt, Reconsider, At
<1> QED  BY <1>1, ReplayKnows DEF ReplayAt

LEMMA FinishIsCalm ==
  ASSUME Known, NEW t \in Drains, Finish(t)  PROVE CalmInv'
<1> DEFINE e == job[t]
           j == [e EXCEPT !.at = "report"]
<1>1. /\ e.at = "finish" /\ ~At(t, "idle") /\ t \in Replays /\ Goto(t, j)
      /\ UNCHANGED <<elsewhere, online, server, cache, queue, user>>
      /\ ~page'.draining
  BY ReplaysAre, Here DEF Finish, At, world, Known, OrderedInv, WorldOK, Page
<1>2. /\ e \in Job /\ ReplayAt(t, e) /\ online /\ e.op = "drain"
      /\ (user.whole => Complete)
      /\ cache.blob.version = Latest \/ (user.seen = None /\ ~user.unlocked)
      /\ \A f \in queue : f.work <= user.saves
  BY <1>1, ReplayKnows
<1>3. j.op = e.op /\ j.left = e.left /\ j.at = "report"
  BY <1>2 DEF Job
<1> HIDE DEF j
<1>4. job'[t] = j
  BY <1>1, ReplayKnows, TaskStep DEF Known, OrderedInv, Ordered
<1>5. /\ Latest' = Latest /\ Current' = Current /\ Puts(queue)' = Puts(queue)
      /\ (\A f : Good(f) <=> Good(f)') /\ (Delivered <=> Delivered')
      /\ (user.whole => Complete)'
  BY <1>1, <1>2, SameVault
<1>6. ReplayAt(t, job[t])'
  BY <1>1, <1>2, <1>3, <1>4, <1>5 DEF ReplayAt
<1>7. /\ (\A f \in queue : f.work <= user.saves)'
      /\ (cache.blob.version = Latest \/ StaleAt(t, job[t]))'
  BY <1>1, <1>2, <1>5 DEF StaleAt
<1>8. (Delivered \/ (t \in Drains /\ job[t].at # "idle"))'
  BY <1>3, <1>4
<1> QED  BY <1>1, <1>5, <1>6, <1>7, <1>8, ReplayIsCalm

(* At the end of a drain nothing it took is left, so nothing is queued.    *)
LEMMA ReportIsCalm ==
  ASSUME Known, NEW t \in Replays, Report(t)  PROVE CalmInv'
<1> DEFINE e == job[t]
<1>1. /\ e.at = "report" /\ ~At(t, "idle") /\ Goto(t, Idle) /\ Idle.at = "idle"
      /\ UNCHANGED <<elsewhere, online, server, cache, queue, user>>
      /\ page'.draining = page.draining
  BY IdleIsAJob, Here DEF Report, At, world, Known, OrderedInv, WorldOK, Page
<1>2. /\ ReplayAt(t, e) /\ ~page.draining
      /\ (user.whole => Complete) /\ StatusAt(t, e)
      /\ cache.blob.version = Latest \/ (user.seen = None /\ ~user.unlocked)
      /\ \A f \in queue : f.work <= user.saves
  BY <1>1, ReplayKnows
<1>3. Delivered
  <2>1. CASE t \in Drains
    <3>1. e.left = {}
      BY <1>1, <1>2, <2>1 DEF StatusAt, DrainKnows
    <3> QED  BY <1>1, <1>2, <2>1, <3>1 DEF ReplayAt, Delivered
  <2>2. CASE t \notin Drains
    BY <1>1, <2>2, ReplayKnows
  <2> QED  BY <2>1, <2>2
<1>4. job'[t] = Idle
  BY <1>1, ReplayKnows, TaskStep DEF Known, OrderedInv, Ordered
<1>5. Latest' = Latest /\ Delivered' /\ (user.whole => Complete)'
  BY <1>1, <1>2, <1>3, SameVault
<1>6. /\ (\A f \in queue : f.work <= user.saves)'
      /\ (cache.blob.version = Latest \/ StaleAt(t, job[t]))'
  BY <1>1, <1>2, <1>5 DEF StaleAt
<1> QED  BY <1>1, <1>2, <1>4, <1>5, <1>6, ReplayIsCalm
-----------------------------------------------------------------------------
(* Delivering *)

(* What a task that delivers knows, the editor or a replay.                *)
LEMMA DelivererKnows ==
  ASSUME Known, NEW t \in Tasks, ~At(t, "idle"),
         job[t].at \in {"upload", "refresh", "note", "tag"}
  PROVE  /\ job[t] \in Job /\ online /\ KeptAt(t, job[t]) /\ SpanAt(t, job[t])
         /\ job[t].op \in {"save", "drain", "local"}
         /\ t = "editor" => /\ EditorAt(job[t]) /\ job[t].op = "save"
                            /\ job[t].work = user.saves
                            /\ server.envelope = user.saves /\ ~user.whole
                            /\ ~page.draining
         /\ t # "editor" => /\ ReplayAt(t, job[t]) /\ t \in Replays
                            /\ First(job[t].left) \in job[t].left
                            /\ job[t].left \subseteq queue
                            /\ First(job[t].left).op # "updateVault"
         /\ cache.blob.buf = job[t].work
         /\ page.draining => t \in Drains
         /\ Delivered \/ t \in Drains
         /\ user.whole => Complete
         /\ \A e \in queue : e.work <= user.saves
<1> DEFINE e == job[t]
<1>1. e \in Job /\ KeptAt(t, e) /\ SpanAt(t, e) /\ cache.blob.buf = e.work
  BY WorksAlone DEF KeptAt, Known
<1>2. \A f \in queue : f.work <= user.saves
  BY CalmWorld
<1>3. user.whole => Complete
  BY CalmWorld
<1>4. CASE t = "editor"
  <2>1. EditorAt(e) /\ e.op = "save" /\ e.work = user.saves
        /\ ~page.draining /\ (online => Delivered)
    BY <1>4, EditorKnows DEF Loading
  <2>2. online /\ server.envelope = user.saves /\ ~user.whole
    BY <2>1 DEF EditorAt
  <2> QED  BY <1>1, <1>2, <1>3, <1>4, <2>1, <2>2
<1>5. CASE t # "editor"
  <2>1. t \in Replays /\ e.at \in Handling
    BY <1>5 DEF Replays, Handling
  <2>2. /\ ReplayAt(t, e) /\ online /\ First(e.left) \in e.left
        /\ (page.draining => t \in Drains) /\ (Delivered \/ t \in Drains)
        /\ e.left \subseteq queue /\ e.op \in {"drain", "local", "server"}
    BY <2>1, ReplayKnows DEF ReplayAt
  <2>3. e.op # "server"
    BY <2>1, Delivers DEF Known
  <2>4. First(e.left).op # "updateVault"
    <3>1. CASE t \in Drains
      BY <1>1, <3>1 DEF SpanAt
    <3>2. CASE t \notin Drains
      BY <2>2, <3>2 DEF Delivered, Puts
    <3> QED  BY <3>1, <3>2
  <2> QED  BY <1>1, <1>2, <1>3, <1>5, <2>1, <2>2, <2>3, <2>4
<1> QED  BY <1>4, <1>5

(* A step of a delivery.                                                   *)
LEMMA DeliveryIsCalm ==
  ASSUME Known, NEW t \in Tasks, ~At(t, "idle"),
         job[t].at \in {"upload", "refresh", "note", "tag"},
         NEW j, Goto(t, j), j.at \notin {"idle", "snapshot", "report"},
         UNCHANGED <<elsewhere, page, online, queue>>, user'.saves = user.saves,
         Delivered' \/ t \in Drains,
         (user.whole => Complete)',
         (cache.blob.version = Latest \/ StaleAt(t, job[t]))',
         IF t = "editor" THEN EditorAt(job[t])' ELSE ReplayAt(t, job[t])'
  PROVE  CalmInv'
<1>1. job'[t] = j
  BY TaskStep DEF Known, OrderedInv, Ordered
<1>2. (\A e \in queue : e.work <= user.saves)'
  BY DelivererKnows
<1>3. (page.draining => t \in Drains
         /\ job[t].at \notin {"idle", "snapshot", "report"})'
  BY <1>1, DelivererKnows
<1>4. (Delivered \/ (t \in Drains /\ job[t].at # "idle"))'
  BY <1>1
<1>5. CalmAt(t, job[t])'
  BY <1>2, <1>3, <1>4 DEF CalmAt
<1> QED  BY <1>5, CalmStep

LEMMA UploadIsCalm ==
  ASSUME Known, NEW t \in Tasks, Upload(t)  PROVE CalmInv'
<1> DEFINE e == job[t]
           j == [e EXCEPT !.at = "refresh", !.seen = Latest + 1]
<1>1. /\ e.at = "upload" /\ ~At(t, "idle")
      /\ e.at \in {"upload", "refresh", "note", "tag"}
      /\ UNCHANGED <<elsewhere, online, cache, queue, page, user>>
  BY DEF Upload, At, world
<1>2. /\ e \in Job /\ online /\ cache.blob.buf = e.work
      /\ (user.whole => Complete) /\ (Delivered \/ t \in Drains)
      /\ e.op \in {"save", "drain", "local"}
  BY <1>1, DelivererKnows
<1>3. /\ Goto(t, j)
      /\ server' = [server EXCEPT !.versions =
                      Append(@, [work |-> e.work, by |-> "here"])]
  BY <1>2, Here, NothingFails, ConstantsAre
     DEF Upload, Call, CallFails, Known, Calm, OrderedInv
<1>4. /\ server'.envelope = server.envelope /\ Latest' = Latest + 1
      /\ server'.versions[Latest + 1].work = e.work
  <2>1. [work |-> e.work, by |-> "here"] \in Version
    BY <1>2 DEF Version, Job
  <2>2. /\ server.versions \in Seq(Version) /\ Latest = Len(server.versions)
        /\ server \in Server
    BY Here, TopIs DEF Known, OrderedInv, Latest
  <2>3. /\ server'.versions =
             Append(server.versions, [work |-> e.work, by |-> "here"])
        /\ server'.envelope = server.envelope
    BY <1>3, <2>2 DEF Server
  <2>4. /\ Len(server'.versions) = Latest + 1
        /\ server'.versions[Latest + 1] = [work |-> e.work, by |-> "here"]
    BY <2>1, <2>2, <2>3, AppendProperties
  <2> QED  BY <2>3, <2>4 DEF Latest
<1>5. Current' = e.work
  BY <1>4 DEF Current
<1>6. j.op = e.op /\ j.work = e.work /\ j.left = e.left /\ j.at = "refresh"
  BY <1>2 DEF Job
<1> HIDE DEF j
<1>7. job'[t] = j
  BY <1>1, <1>3, TaskStep DEF Known, OrderedInv, Ordered
<1>8. Puts(queue)' = Puts(queue) /\ user' = user
  BY <1>1 DEF Puts
<1>9. user.whole => e.work = user.saves
  BY <1>2 DEF Complete
<1>10. (user.whole => Complete)'
  <2>1. user.whole => /\ cache.blob.buf = user.saves
                      /\ \/ server.envelope = user.saves /\ Puts(queue) = {}
                         \/ \E f \in Puts(queue) : f.work = user.saves
    BY <1>2 DEF Complete
  <2> QED  BY <1>1, <1>4, <1>5, <1>8, <1>9, <2>1 DEF Complete
<1>11. Delivered' \/ t \in Drains
  BY <1>2, <1>5, <1>8, <1>9 DEF Delivered
<1>12. StaleAt(t, job[t])'
  BY <1>6, <1>7 DEF StaleAt
<1>13. CASE t = "editor"
  <2>1. EditorAt(e) /\ e.op = "save" /\ ~user.whole /\ server.envelope = e.work
    BY <1>1, <1>13, DelivererKnows
  <2>2. EditorAt(job[t])'
    BY <1>1, <1>2, <1>4, <1>5, <1>6, <1>7, <1>8, <2>1 DEF EditorAt
  <2> QED  BY <1>1, <1>3, <1>6, <1>10, <1>11, <1>12, <1>13, <2>2, DeliveryIsCalm
<1>14. CASE t # "editor"
  <2>1. ReplayAt(t, e)
    BY <1>1, <1>14, DelivererKnows
  <2>2. t = "choice" => Delivered'
    BY <1>11, OfflineAssumption
  <2>3. ReplayAt(t, job[t])'
    BY <1>1, <1>2, <1>5, <1>6, <1>7, <1>8, <1>9, <2>1, <2>2 DEF ReplayAt
  <2> QED  BY <1>1, <1>3, <1>6, <1>10, <1>11, <1>12, <1>14, <2>3, DeliveryIsCalm
<1> QED  BY <1>13, <1>14
(* A step of a delivery that leaves the vault as it is.                    *)
LEMMA DeliveryWalks ==
  ASSUME Known, NEW t \in Tasks, ~At(t, "idle"),
         job[t].at \in {"refresh", "note"}, NEW j, Goto(t, j),
         j.at \in {"note", "tag"}, j.op = job[t].op, j.work = job[t].work,
         j.left = job[t].left,
         UNCHANGED <<elsewhere, page, online, server, queue, user>>,
         cache'.blob = cache.blob
  PROVE  CalmInv'
<1> DEFINE e == job[t]
<1>1. /\ e.at \in {"upload", "refresh", "note", "tag"} /\ online
      /\ (user.whole => Complete) /\ (Delivered \/ t \in Drains)
      /\ e.op \in {"save", "drain", "local"}
  BY DelivererKnows
<1>2. job'[t] = j
  BY TaskStep DEF Known, OrderedInv, Ordered
<1>3. /\ Latest' = Latest /\ Current' = Current /\ Puts(queue)' = Puts(queue)
      /\ \A f : Good(f) <=> Good(f)'
  BY DEF Latest, Current, Puts, Good
<1>4. (user.whole => Complete)' /\ (Delivered' \/ t \in Drains)
  BY <1>1, <1>3 DEF Complete, Delivered
<1>5. StaleAt(t, job[t])'
  BY <1>2 DEF StaleAt
<1>6. CASE t = "editor"
  <2>1. EditorAt(e)
    BY <1>1, <1>6, DelivererKnows
  <2>2. EditorAt(job[t])'
    BY <1>1, <1>2, <1>3, <2>1 DEF EditorAt
  <2> QED  BY <1>1, <1>4, <1>5, <1>6, <2>2, DeliveryIsCalm
<1>7. CASE t # "editor"
  <2>1. ReplayAt(t, e)
    BY <1>1, <1>7, DelivererKnows
  <2>2. t = "choice" => Delivered'
    BY <1>4, OfflineAssumption
  <2>3. ReplayAt(t, job[t])'
    BY <1>1, <1>2, <1>3, <2>1, <2>2 DEF ReplayAt
  <2> QED  BY <1>1, <1>4, <1>5, <1>7, <2>3, DeliveryIsCalm
<1> QED  BY <1>6, <1>7

(* What a save does once it went through changes nothing any more.         *)
LEMMA Confirming ==
  ASSUME Known, ~At("editor", "idle"), job["editor"].at \in {"confirm", "noteConfirm"},
         NEW j, Goto("editor", j), j.op \in {"none", "save"}, j.at \in {"idle", "noteConfirm"},
         UNCHANGED <<elsewhere, page, online, server, queue, user>>,
         cache'.blob = cache.blob
  PROVE  CalmInv'
<1> DEFINE e == job["editor"]
<1>1. /\ e.op = "save" /\ (online => Delivered) /\ (user.whole => Complete)
      /\ cache.blob.version = Latest \/ StaleAt("editor", e)
      /\ \A f \in queue : f.work <= user.saves
  BY EditorKnows DEF Loading
<1>2. job'["editor"] = j
  BY EditorKnows, TaskStep DEF Known, OrderedInv, Ordered
<1>3. /\ Latest' = Latest /\ Current' = Current /\ Puts(queue)' = Puts(queue)
      /\ \A f : Good(f) <=> Good(f)'
  BY DEF Latest, Current, Puts, Good
<1>4. (user.whole => Complete)' /\ (online => Delivered)'
  BY <1>1, <1>3 DEF Complete, Delivered
<1>5. (cache.blob.version = Latest \/ StaleAt("editor", job["editor"]))'
  BY <1>1, <1>3 DEF StaleAt
<1>6. job'["editor"].at # "idle" => EditorAt(job["editor"])'
  BY <1>2 DEF EditorAt
<1> QED  BY <1>1, <1>4, <1>5, <1>6, EditorIsCalm
(* Only a save goes on after its last answer from the server.              *)
LEMMA ConfirmsAlone ==
  ASSUME Known, NEW t \in Tasks, job[t].at \in {"confirm", "noteConfirm", "noteOpen"}
  PROVE  t = "editor" /\ ~At(t, "idle")
<1>1. ~At(t, "idle")
  BY DEF At
<1>2. RoleOK(t, job[t], user.saves)
  BY <1>1, WorksAlone DEF Known
<1> QED  BY <1>1, <1>2 DEF RoleOK, Resolving, ReplayPcs, Handling

LEMMA RefreshIsCalm ==
  ASSUME Known, NEW t \in Tasks, Refresh(t)  PROVE CalmInv'
<1> DEFINE e == job[t]
           j == [e EXCEPT !.detail = Answer,
                          !.at = IF @ = "refresh" THEN "note" ELSE "noteConfirm"]
<1>1. /\ e.at \in {"refresh", "confirm"} /\ ~At(t, "idle")
      /\ UNCHANGED <<elsewhere, online, server, cache, queue, page, user>>
  BY DEF Refresh, At, world
<1>2. e \in Job
  BY TopIs DEF Known, OrderedInv
<1>3. /\ j.op = e.op /\ j.work = e.work /\ j.left = e.left
      /\ j.at = IF e.at = "refresh" THEN "note" ELSE "noteConfirm"
  BY <1>2 DEF Job
<1> HIDE DEF j
<1>4. CASE e.at = "refresh"
  <2>1. online
    BY <1>1, <1>4, DelivererKnows
  <2>2. Goto(t, j)
    BY <2>1, NothingFails DEF Refresh, CallFails, Known, j
  <2> QED  BY <1>1, <1>3, <1>4, <2>2, DeliveryWalks
<1>5. CASE e.at = "confirm"
  <2>1. t = "editor" /\ e.op = "save"
    BY <1>1, <1>5, ConfirmsAlone, EditorKnows DEF Loading
  <2>2. Rejected(e) = Idle /\ Idle.at = "idle" /\ Idle.op = "none"
    BY <2>1, IdleIsAJob DEF Rejected
  <2>3. CASE Goto(t, j)
    BY <1>1, <1>3, <1>5, <2>1, <2>3, Confirming
  <2>4. CASE Fail(t)
    BY <1>1, <1>5, <2>1, <2>2, <2>4, Confirming DEF Fail
  <2> QED  BY <2>3, <2>4 DEF Refresh, j
<1> QED  BY <1>1, <1>4, <1>5

LEMMA NoteIsCalm ==
  ASSUME Known, NEW t \in Tasks, Note(t)  PROVE CalmInv'
<1> DEFINE e == job[t]
<1>1. /\ e.at \in {"note", "noteConfirm", "noteOpen"} /\ ~At(t, "idle")
      /\ UNCHANGED <<elsewhere, online, server, queue, page, user>>
      /\ cache' = [cache EXCEPT !.meta = e.detail]
      /\ Goto(t, IF At(t, "noteConfirm") THEN Idle
                 ELSE [e EXCEPT !.at = IF @ = "note" THEN "tag" ELSE "fetch"])
  BY NothingFails DEF Note, At, world, WriteCache, Known
<1>2. e \in Job
  BY TopIs DEF Known, OrderedInv
<1>3. cache'.blob = cache.blob
  BY <1>1, Here DEF Known, OrderedInv, WorldOK, Cache
<1> DEFINE j == [e EXCEPT !.at = IF @ = "note" THEN "tag" ELSE "fetch"]
<1>4. /\ j.op = e.op /\ j.work = e.work /\ j.left = e.left
      /\ j.at = IF e.at = "note" THEN "tag" ELSE "fetch"
  BY <1>2 DEF Job
<1>5. e.at # "noteConfirm" => Goto(t, j)
  BY <1>1 DEF At
<1> HIDE DEF j
<1>6. CASE e.at = "note"
  BY <1>1, <1>3, <1>4, <1>5, <1>6, DeliveryWalks
<1>7. CASE e.at = "noteConfirm"
  <2>1. t = "editor" /\ Goto(t, Idle) /\ Idle.at = "idle" /\ Idle.op = "none"
    BY <1>1, <1>7, ConfirmsAlone, IdleIsAJob DEF At
  <2> QED  BY <1>1, <1>3, <1>7, <2>1, Confirming
<1>8. CASE e.at = "noteOpen"
  <2>1. t = "editor"
    BY <1>8, ConfirmsAlone
  <2>2. /\ ~At("editor", "idle") /\ e.at \in Loading /\ e.op = "load" /\ EditorAt(e)
        /\ user.seen = None /\ (online => Delivered) /\ (user.whole => Complete)
        /\ cache.blob.version = Latest \/ StaleAt("editor", e)
        /\ \A f \in queue : f.work <= user.saves
    BY <1>1, <1>8, <2>1, EditorKnows DEF Loading
  <2>3. Goto("editor", j) /\ job'["editor"] = j
    BY <1>1, <1>5, <1>8, <2>1, <2>2, TaskStep DEF Known, OrderedInv, Ordered
  <2>4. /\ Latest' = Latest /\ Current' = Current /\ Puts(queue)' = Puts(queue)
        /\ \A f : Good(f) <=> Good(f)'
    BY <1>1 DEF Latest, Current, Puts, Good
  <2>5. (user.whole => Complete)' /\ (online => Delivered)'
    BY <1>1, <1>3, <2>2, <2>4 DEF Complete, Delivered
  <2>6. EditorAt(job["editor"])'
    BY <1>1, <1>4, <1>8, <2>1, <2>2, <2>3 DEF EditorAt
  <2>7. (cache.blob.version = Latest \/ StaleAt("editor", job["editor"]))'
    BY <1>1, <1>3, <1>4, <1>8, <2>1, <2>2, <2>3, <2>4 DEF StaleAt
  <2> QED  BY <1>1, <2>2, <2>3, <2>5, <2>6, <2>7, EditorIsCalm
<1> QED  BY <1>1, <1>6, <1>7, <1>8

LEMMA TagIsCalm ==
  ASSUME Known, NEW t \in Tasks, Tag(t)  PROVE CalmInv'
<1> DEFINE e == job[t]
           b == [buf |-> e.work, version |-> e.detail.version, seen |-> e.seen]
           j == [e EXCEPT !.at = IF t = "editor" THEN "confirm" ELSE "dequeue"]
<1>1. /\ e.at = "tag" /\ ~At(t, "idle") /\ Goto(t, j)
      /\ e.at \in {"upload", "refresh", "note", "tag"}
      /\ UNCHANGED <<elsewhere, online, server, queue, page>>
      /\ cache' = [cache EXCEPT !.blob = b]
      /\ IF t = "editor" THEN Taken(e)
         ELSE user' = IF t = "choice" /\ user.seen # None
                      THEN [user EXCEPT !.seen = e.seen] ELSE user
  BY NothingFails DEF Tag, At, world, WriteCache, Known
<1>2. /\ e \in Job /\ online /\ e.detail.version = Latest /\ cache.blob.buf = e.work
      /\ (user.whole => Complete) /\ (Delivered \/ t \in Drains)
      /\ e.op \in {"save", "drain", "local"}
  BY <1>1, DelivererKnows DEF SpanAt
<1>3. cache'.blob = b
  BY <1>1, Here DEF Known, OrderedInv, WorldOK, Cache
<1>4. cache'.blob.buf = e.work /\ cache'.blob.version = Latest
  BY <1>2, <1>3
<1>5. /\ j.op = e.op /\ j.work = e.work /\ j.left = e.left
      /\ j.at = IF t = "editor" THEN "confirm" ELSE "dequeue"
  BY <1>2 DEF Job
<1> HIDE DEF b, j
<1>6. job'[t] = j
  BY <1>1, TaskStep DEF Known, OrderedInv, Ordered
<1>7. /\ Latest' = Latest /\ Current' = Current /\ Puts(queue)' = Puts(queue)
      /\ \A f : Good(f) <=> Good(f)'
  BY <1>1 DEF Latest, Current, Puts, Good
<1>8. user'.saves = user.saves /\ (t # "editor" => user'.whole = user.whole)
  <2>1. CASE t = "editor"
    BY <1>1, <2>1, UserIs DEF Taken, User, Known
  <2>2. CASE t = "choice" /\ user.seen # None
    BY <1>1, <2>2, UserIs DEF User, Known
  <2>3. CASE t # "editor" /\ ~(t = "choice" /\ user.seen # None)
    BY <1>1, <2>3
  <2> QED  BY <2>1, <2>2, <2>3
<1>9. CASE t = "editor"
  <2>1. /\ EditorAt(e) /\ e.work = user.saves /\ server.envelope = user.saves
        /\ Delivered
    BY <1>1, <1>2, <1>9, DelivererKnows, OfflineAssumption
  <2>2. Current = user.saves
    BY <1>1, <2>1 DEF EditorAt
  <2>3. Complete' /\ Delivered'
    BY <1>1, <1>4, <1>7, <1>8, <2>1, <2>2 DEF Complete, Delivered
  <2>4. EditorAt(job[t])'
    BY <1>2, <1>5, <1>6, <1>9 DEF EditorAt
  <2> QED  BY <1>1, <1>4, <1>5, <1>7, <1>8, <1>9, <2>3, <2>4, DeliveryIsCalm
<1>10. CASE t # "editor"
  <2>1. ReplayAt(t, e) /\ First(e.left).op # "updateVault"
    BY <1>1, <1>10, DelivererKnows
  <2>2. Delivered' \/ t \in Drains
    BY <1>2, <1>7, <1>8, <1>10 DEF Delivered
  <2>3. (user.whole => Complete)'
    BY <1>1, <1>2, <1>4, <1>7, <1>8, <1>10 DEF Complete
  <2>4. t = "choice" => Delivered'
    BY <2>2, OfflineAssumption
  <2>5. ReplayAt(t, job[t])'
    BY <1>1, <1>2, <1>5, <1>6, <1>7, <1>8, <1>10, <2>1, <2>4 DEF ReplayAt
  <2> QED  BY <1>1, <1>4, <1>5, <1>7, <1>8, <1>10, <2>2, <2>3, <2>5, DeliveryIsCalm
<1> QED  BY <1>9, <1>10
-----------------------------------------------------------------------------
(* Where nothing is under way, or a drain has just been called. *)

LEMMA StartChoiceIsCalm ==
  ASSUME Known, NEW op \in {"local", "server"}, StartChoice(op)  PROVE CalmInv'
<1> DEFINE j == [Idle EXCEPT !.op = op, !.at = "snapshot"]
<1>1. /\ Quiet /\ online /\ Goto("choice", j)
      /\ "choice" \in Tasks /\ "choice" \notin Drains
      /\ UNCHANGED <<elsewhere, online, server, cache, queue, page>>
      /\ user' = IF op = "server" THEN [user EXCEPT !.kept = None] ELSE user
  BY NoOverlap, OfflineAssumption
     DEF StartChoice, Turn, Known, OrderedInv, world, Tasks
<1>2. j.op = op /\ j.at = "snapshot"
  BY DEF Idle
<1>3. /\ user'.saves = user.saves /\ user'.whole = user.whole
      /\ user'.seen = user.seen /\ user'.unlocked = user.unlocked
  BY <1>1, UserIs DEF User, Known
<1> HIDE DEF j
<1>4. job'["choice"] = j
  BY <1>1, TaskBegins DEF Known, OrderedInv
<1>5. /\ Latest' = Latest /\ Delivered' /\ (user.whole => Complete)'
  BY <1>1, <1>3, SameVault, CalmQuiet
<1>6. ReplayAt("choice", job["choice"])'
  BY <1>1, <1>2, <1>4, <1>5 DEF ReplayAt
<1>7. CalmAt("choice", job["choice"])'
  BY <1>1, <1>3, <1>5, <1>6, CalmQuiet DEF CalmAt, StaleAt
<1> QED  BY <1>1, <1>7, CalmBegin

(* What a drain that was just called, or nobody, knows.                    *)
LEMMA AnewIsCalm ==
  ASSUME Known, NEW jobs \in [Tasks -> Job], \A u \in Tasks : jobs[u].at = "idle",
         \/ job' = jobs /\ ~online'
         \/ job' \in Drained(jobs, FALSE) /\ online',
         elsewhere'.halfway = None, ~page'.draining,
         UNCHANGED <<server, cache, queue>>, user'.saves = user.saves,
         user'.whole = user.whole,
         \/ (cache.blob.version = Latest)'
         \/ user'.seen = None /\ ~user'.unlocked
  PROVE  CalmInv'
<1>1. /\ Latest' = Latest /\ (user.whole => Complete)'
      /\ (\A e \in queue : e.work <= user.saves)'
  BY SameVault, CalmWorld
<1>2. \A d \in Drains : d \in Tasks /\ d # "editor" /\ d # "choice"
  BY OfflineAssumption DEF Tasks
<1>3. CASE job' = jobs /\ ~online'
  <2>1. "editor" \in Tasks /\ \A u \in Tasks : job'[u].at = "idle"
    BY <1>3 DEF Tasks
  <2>2. CalmAt("editor", job["editor"])'
    BY <1>1, <1>3, <2>1 DEF CalmAt, StaleAt
  <2> QED  BY <2>1, <2>2, CalmAfter
<1>4. CASE job' \in Drained(jobs, FALSE) /\ online'
  <2>1. scenario \in Scenarios
    BY Here DEF Known, OrderedInv, WorldOK
  <2>2. PICK d \in Drains :
          /\ \A u \in Tasks \ {d} : job'[u].at = "idle"
          /\ job'[d].at = "snapshot"
    BY <1>4, <2>1, DrainBegins
  <2>3. ReplayAt(d, job[d])'
    BY <1>2, <1>4, <2>2 DEF ReplayAt
  <2>4. CalmAt(d, job[d])'
    BY <1>1, <1>2, <2>2, <2>3 DEF CalmAt, StaleAt
  <2> QED  BY <1>2, <2>2, <2>4, CalmAfter
<1> QED  BY <1>3, <1>4

LEMMA ConnectionIsCalm ==
  ASSUME Known, Retry \/ GoOnline  PROVE CalmInv'
<1>1. /\ Quiet /\ job' \in Drained(job, page.draining) /\ online'
      /\ UNCHANGED <<elsewhere, server, cache, queue, page, user>>
  BY NoOverlap DEF Retry, GoOnline, Known, OrderedInv, world
<1>2. /\ job \in [Tasks -> Job] /\ \A u \in Tasks : job[u].at = "idle"
      /\ elsewhere.halfway = None /\ page.draining = FALSE
  BY <1>1, TopIs, QuietIs, CalmQuiet, Here
     DEF Known, OrderedInv, WorldOK, Page
<1>3. (cache.blob.version = Latest)' \/ (user'.seen = None /\ ~user'.unlocked)
  BY <1>1, CalmQuiet DEF Latest
<1> QED  BY <1>1, <1>2, <1>3, AnewIsCalm

LEMMA GoOfflineIsCalm ==
  ASSUME Known, GoOffline  PROVE CalmInv'
<1>1. /\ online' = FALSE /\ Quiet
      /\ UNCHANGED <<elsewhere, server, cache, queue, page, job, user>>
  BY NothingFails DEF GoOffline, world, Known
<1>2. /\ job \in [Tasks -> Job] /\ \A u \in Tasks : job[u].at = "idle"
      /\ elsewhere.halfway = None /\ ~page.draining
  BY <1>1, TopIs, QuietIs, CalmQuiet DEF Known, OrderedInv
<1>3. (cache.blob.version = Latest)' \/ (user'.seen = None /\ ~user'.unlocked)
  BY <1>1, CalmQuiet DEF Latest
<1> QED  BY <1>1, <1>2, <1>3, AnewIsCalm

LEMMA ReloadIsCalm ==
  ASSUME Known, Reload  PROVE CalmInv'
<1> DEFINE jobs == [t \in Tasks |-> Idle]
<1>1. /\ UNCHANGED <<elsewhere, online, server, cache, queue>>
      /\ ~page'.draining
      /\ user' = [user EXCEPT !.seen = None, !.unlocked = FALSE]
      /\ IF online THEN job' \in Drained(jobs, FALSE) ELSE job' = jobs
  BY DEF Reload, world
<1>2. jobs \in [Tasks -> Job] /\ \A u \in Tasks : jobs[u].at = "idle"
  BY IdleIsAJob
<1>3. /\ user'.seen = None /\ ~user'.unlocked /\ user'.saves = user.saves
      /\ user'.whole = user.whole
  BY <1>1, UserIs DEF User, Known
<1>4. elsewhere.halfway = None
  BY CalmWorld
<1> HIDE DEF jobs
<1> QED  BY <1>1, <1>2, <1>3, <1>4, AnewIsCalm

(* The other session does not save in a calm behaviour.                    *)
LEMMA ElsewhereIsCalm ==
  ASSUME Known, ElsewherePut \/ ElsewhereUpload, Calm'  PROVE FALSE
<1>1. elsewhere.halfway = None /\ elsewhere.saves = 0 /\ elsewhere'.saves = 0
  BY CalmWorld DEF Known, Calm
<1>2. ElsewherePut => elsewhere'.saves = 1
  BY <1>1 DEF ElsewherePut
<1> QED  BY <1>1, <1>2 DEF ElsewhereUpload
-----------------------------------------------------------------------------
LEMMA InitIsCalm == Init => CalmInv
<1> SUFFICES ASSUME Init, Calm  PROVE CalmInv
  BY DEF CalmInv
<1>1. \A t \in Tasks : job[t] = Idle /\ job[t].at = "idle"
  BY IdleIsAJob DEF Init
<1>2. /\ queue = {} /\ ~page.draining /\ user.saves = 0 /\ user.whole
      /\ elsewhere.halfway = None /\ server.envelope = 0 /\ Latest = 1
      /\ Current = 0
  BY DEF Init, Latest, Current
<1>3. cache.blob = [buf |-> 0, version |-> 1, seen |-> 1]
  BY NothingFails DEF Init
<1>4. Complete /\ Delivered
  BY <1>2, <1>3 DEF Complete, Delivered, Puts
<1> QED  BY <1>1, <1>2, <1>3, <1>4 DEF CalmInv, CalmAt

(* What makes a behaviour calm can only be lost.                           *)
LEMMA CalmBefore ==
  ASSUME OfflineInv, OfflineInv', [Next]_vars, Calm'  PROVE Calm
<1>1. /\ user \in User /\ server \in Server /\ server.versions \in Seq(Version)
      /\ elsewhere.saves \in Nat /\ Latest \in Nat /\ Latest = Len(server.versions)
      /\ \A t \in Tasks : job[t] \in Job
      /\ Latest' = Len(server'.versions)
  BY Here, TopIs, ConstantsAre, OfflineAssumption DEF WorldOK, Other, Latest
<1>2. scenario' = scenario
  BY DEF Next, vars, Editor, StartLoad, Open, Fetch, Label, Store, StartSave, Put,
         ReadBase, Keep, Enqueue, Count, Drain, Check, Attempt, Reconsider, Finish,
         Replay, Snapshot, SendPut, ReadCached, Dequeue, Report, Deliver, Upload,
         Refresh, Note, Tag, StartChoice, Retry, Environment, GoOffline, GoOnline,
         Reload, ElsewherePut, ElsewhereUpload, world
<1>3. user'.dropped = user.dropped \/ user'.dropped
  <2>1. CASE user' = user
    BY <2>1
  <2>2. CASE StartLoad \/ StartSave \/ Reload
    BY <1>1, <2>2 DEF StartLoad, StartSave, Reload, User
  <2>3. CASE Fetch \/ Store \/ Count
    BY <1>1, <2>3 DEF Fetch, Store, Count, Opened, Taken, User
  <2>4. CASE (\E t \in Tasks : Tag(t)) \/ \E op \in {"local", "server"} : StartChoice(op)
    BY <1>1, <2>4 DEF Tag, Taken, StartChoice, User
  <2>5. CASE \E t \in Drains : Reconsider(t)
    BY <1>1, <2>5 DEF Reconsider, User
  <2> QED  BY <2>1, <2>2, <2>3, <2>4, <2>5
           DEF Next, vars, Editor, Open, Label, Put, ReadBase, Keep, Enqueue, Drain,
               Check, Attempt, Finish, Replay, Snapshot, SendPut, ReadCached, Dequeue,
               Report, Deliver, Upload, Refresh, Note, Retry, Environment, GoOffline,
               GoOnline, ElsewherePut, ElsewhereUpload
<1>4. elsewhere'.saves >= elsewhere.saves
  <2>1. CASE elsewhere' = elsewhere
    BY <1>1, <2>1
  <2>2. CASE ElsewherePut
    BY <1>1, <2>2 DEF ElsewherePut
  <2>3. CASE ElsewhereUpload
    BY <1>1, <2>3, Here DEF ElsewhereUpload, WorldOK, Other
  <2> QED  BY <2>1, <2>2, <2>3
           DEF Next, vars, Editor, StartLoad, Open, Fetch, Label, Store, StartSave, Put,
               ReadBase, Keep, Enqueue, Count, Drain, Check, Attempt, Reconsider,
               Finish, Replay, Snapshot, SendPut, ReadCached, Dequeue, Report, Deliver,
               Upload, Refresh, Note, Tag, StartChoice, Retry, Environment, GoOffline,
               GoOnline, Reload, world
<1>5. Latest' >= Latest
  <2>1. CASE server' = server
    BY <1>1, <2>1
  <2>2. ASSUME NEW w, server' = [server EXCEPT !.envelope = w]  PROVE Latest' >= Latest
    BY <1>1, <2>2 DEF Server
  <2>3. ASSUME NEW v \in Version, server' = [server EXCEPT !.versions = Append(@, v)]
        PROVE  Latest' >= Latest
    BY <1>1, <2>3, AppendProperties DEF Server
  <2>4. CASE Put \/ ElsewherePut \/ \E t \in Replays : SendPut(t)
    BY <2>1, <2>2, <2>4 DEF Put, ElsewherePut, SendPut, Call
  <2>5. CASE \E t \in Tasks : Upload(t)
    <3>1. PICK t \in Tasks : Upload(t)
      BY <2>5
    <3>2. [work |-> job[t].work, by |-> "here"] \in Version
      BY <1>1, <3>1 DEF Job, Version
    <3> QED  BY <2>1, <2>3, <3>1, <3>2 DEF Upload, Call
  <2>6. CASE ElsewhereUpload
    <3>1. [work |-> elsewhere.halfway, by |-> "elsewhere"] \in Version
      BY <2>6, Here DEF ElsewhereUpload, WorldOK, Other, Version
    <3> QED  BY <2>3, <2>6, <3>1 DEF ElsewhereUpload
  <2> QED  BY <2>1, <2>4, <2>5, <2>6, ReplaysAre
           DEF Next, vars, Editor, StartLoad, Open, Fetch, Label, Store, StartSave,
               ReadBase, Keep, Enqueue, Count, Drain, Check, Attempt, Reconsider,
               Finish, Replay, Snapshot, ReadCached, Dequeue, Report, Deliver,
               Refresh, Note, Tag, StartChoice, Retry, Environment, GoOffline,
               GoOnline, Reload
<1>6. Latest < MaxVersions /\ elsewhere.saves = 0
  <2>1. Latest' < MaxVersions /\ elsewhere'.saves = 0 /\ MaxVersions \in Nat
        /\ Latest' \in Nat
    BY ConstantsAre DEF Calm, OfflineInv, ServerOK, Latest
  <2> QED  BY <1>1, <1>4, <1>5, <2>1
<1> QED  BY <1>2, <1>3, <1>6 DEF Calm, Orderly, Faults

LEMMA NextIsCalm ==
  OfflineInv /\ OrderlyInv /\ CalmInv /\ [Next]_vars /\ OfflineInv' => CalmInv'
<1> SUFFICES ASSUME OfflineInv, OrderlyInv, CalmInv, [Next]_vars, OfflineInv', Calm'
             PROVE  CalmInv'
  BY DEF CalmInv
<1>1. Known
  <2>1. Calm
    BY CalmBefore
  <2> QED  BY <2>1 DEF Known, OrderedInv, OrderlyInv, Ordered, Calm
<1>2. CASE UNCHANGED vars
  BY <1>1, <1>2
     DEF vars, Known, CalmInv, CalmAt, EditorAt, ReplayAt, StaleAt, Calm, Orderly,
         Faults, Latest, Delivered, Complete, Puts, Current, Good
<1>3. CASE Editor
  BY <1>1, <1>3, StartLoadIsCalm, OpenIsCalm, FetchIsCalm, LabelIsCalm, StoreIsCalm,
     StartSaveIsCalm, PutIsCalm, ReadBaseIsCalm, KeepIsCalm, EnqueueIsCalm,
     CountIsCalm DEF Editor
<1>4. CASE \E t \in Drains : Drain(t)
  BY <1>1, <1>4, CheckIsCalm, NoAttempts, FinishIsCalm DEF Drain
<1>5. CASE \E t \in Drains \cup {"choice"} : Replay(t)
  BY <1>1, <1>5, ReplaysAre, SnapshotIsCalm, SendPutIsCalm, ReadCachedIsCalm,
     DequeueIsCalm, ReportIsCalm DEF Replay
<1>6. CASE \E t \in Tasks : Deliver(t)
  BY <1>1, <1>6, UploadIsCalm, RefreshIsCalm, NoteIsCalm, TagIsCalm DEF Deliver
<1>7. CASE \E op \in {"local", "server"} : StartChoice(op)
  BY <1>1, <1>7, StartChoiceIsCalm
<1>8. CASE Retry \/ Environment
  BY <1>1, <1>8, ConnectionIsCalm, GoOfflineIsCalm, ReloadIsCalm, ElsewhereIsCalm
     DEF Environment
<1> QED  BY <1>2, <1>3, <1>4, <1>5, <1>6, <1>7, <1>8 DEF Next

(* Once a save went through and nothing is left to send, the envelope on   *)
(* the server is that of the current bytes: whatever the queue held of     *)
(* earlier saves, the calls of the last one were sent after them, and the  *)
(* upload sent the bytes that the cache held by then (drainSyncQueue,      *)
(* resolveConflict and uploadBlob of storage/offline.ts).                  *)
THEOREM SettledVaultsOpen == Spec => []SettledVaultOpens
<1>1. Init => CalmInv
  BY InitIsCalm
<1>2. OfflineInv /\ OrderlyInv /\ CalmInv /\ [Next]_vars /\ OfflineInv' => CalmInv'
  BY NextIsCalm
<1>3. OfflineInv /\ OrderlyInv /\ CalmInv => SettledVaultOpens
  <2> SUFFICES ASSUME OfflineInv, OrderlyInv, CalmInv, Orderly,
                      Faults \cap {"net", "lost_reply"} = {}, Settled,
                      Latest < MaxVersions
               PROVE  server.envelope = server.versions[Latest].work
    BY DEF SettledVaultOpens
  <2>1. Known
    BY DEF Known, Calm, OrderedInv, OrderlyInv, Ordered, Settled
  <2>2. Complete /\ queue = {}
    BY <2>1, CalmQuiet DEF Settled
  <2> QED  BY <2>2 DEF Complete, Puts, Current
<1> QED  BY <1>1, <1>2, <1>3, OrderlyInvariant, PTL DEF Spec
=============================================================================
