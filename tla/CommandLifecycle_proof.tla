----------------------- MODULE CommandLifecycle_proof -----------------------
(***************************************************************************)
(* For any units, rows, plans and numbers of commands: every admitted      *)
(* command is in one place (in the channel, open, or answered once); none  *)
(* is answered before its device jobs; and gains that no handover held     *)
(* reach a unit in the order of their commands.  Each result follows the   *)
(* helpers of a handler, one lemma for each: they conserve what a command  *)
(* is owed (Conserves), keep what it waits for (Watched), and give a unit  *)
(* at most one new gain, of the command that is handled (Fed).             *)
(***************************************************************************)
EXTENDS CommandLifecycle, FiniteSetTheorems, TLAPS

Fields == {"requests", "told", "pending", "jobs", "nextJob", "intents", "held",
           "units", "retired", "selected", "locked", "open", "handover", "known",
           "recording", "session", "frozen", "queue", "host", "tapes"}

Outcomes == {"applied", "rejected", "cancelled", "scene"}

\* The controller has its fields, and tells commands that exist.
Shape(s) ==
    /\ DOMAIN s = Fields
    /\ DOMAIN s.requests \subseteq Ids
    /\ s.told \in [Ids -> Seq(Outcomes)]

\* Places of a command in the controller: open, and its answers.
Owed(s, id) == (IF id \in DOMAIN s.requests THEN 1 ELSE 0) + Len(s.told[id])

\* Nothing is opened, and what leaves is answered once.
Conserves(s, t) ==
    /\ Shape(t)
    /\ DOMAIN t.requests \subseteq DOMAIN s.requests
    /\ \A id \in Ids : Owed(t, id) = Owed(s, id)

-----------------------------------------------------------------------------

LEMMA Stays == ASSUME NEW s, Shape(s) PROVE Conserves(s, s)
  BY DEF Conserves

LEMMA Chain ==
    ASSUME NEW s, NEW t, NEW u, Conserves(s, t), Conserves(t, u)
    PROVE  Conserves(s, u)
  BY DEF Conserves

LEMMA Shaped == ASSUME NEW s, NEW t, Conserves(s, t) PROVE Shape(t)
  BY DEF Conserves

\* A step that leaves who is open and the answers alone.
LEMMA Untouched ==
    ASSUME NEW s, NEW t, Shape(s), DOMAIN t = Fields,
           DOMAIN t.requests = DOMAIN s.requests, t.told = s.told
    PROVE  Conserves(s, t)
  BY DEF Conserves, Shape, Owed

LEMMA FinishingEach ==
    ASSUME NEW s, Shape(s), NEW ids, NEW outcome,
           \A id \in ids \cap DOMAIN s.requests : outcome[id] \in Outcomes
    PROVE  Conserves(s, FinishEach(s, ids, outcome))
<1> DEFINE open == ids \cap DOMAIN s.requests
           t == FinishEach(s, ids, outcome)
<1>1. CASE open = {}
  BY <1>1, Stays DEF FinishEach
<1>2. CASE open # {}
  <2>1. /\ DOMAIN t = Fields
        /\ t.requests = Restrict(s.requests, DOMAIN s.requests \ open)
        /\ t.told = Over([id \in open |-> Append(s.told[id], outcome[id])], s.told)
    BY <1>2 DEF FinishEach, Shape, Fields
  <2>2. DOMAIN t.requests = DOMAIN s.requests \ open
    BY <2>1 DEF Restrict
  <2>3. /\ open \subseteq Ids
        /\ \A id \in open : /\ Append(s.told[id], outcome[id]) \in Seq(Outcomes)
                            /\ Len(Append(s.told[id], outcome[id])) = Len(s.told[id]) + 1
    <3>1. open \subseteq Ids
      BY DEF Shape
    <3>2. ASSUME NEW id \in open
          PROVE  /\ Append(s.told[id], outcome[id]) \in Seq(Outcomes)
                 /\ Len(Append(s.told[id], outcome[id])) = Len(s.told[id]) + 1
      <4>1. s.told[id] \in Seq(Outcomes) /\ outcome[id] \in Outcomes
        BY <3>1 DEF Shape
      <4> QED BY <4>1
    <3> QED BY <3>1, <3>2
  <2>4. /\ t.told = [id \in Ids |-> IF id \in open THEN Append(s.told[id], outcome[id])
                                                   ELSE s.told[id]]
    BY <2>1, <2>3 DEF Shape, Over
  <2>5. t.told \in [Ids -> Seq(Outcomes)]
    BY <2>3, <2>4 DEF Shape
  <2>6. ASSUME NEW id \in Ids PROVE Owed(t, id) = Owed(s, id)
    <3>1. Len(s.told[id]) \in Nat
      BY DEF Shape
    <3>2. CASE id \in open
      <4>1. id \in DOMAIN s.requests /\ id \notin DOMAIN t.requests
        BY <3>2, <2>2
      <4>2. Len(t.told[id]) = Len(s.told[id]) + 1
        BY <3>2, <2>3, <2>4
      <4> QED BY <3>1, <4>1, <4>2 DEF Owed
    <3>3. CASE id \notin open
      BY <3>1, <3>3, <2>2, <2>4 DEF Owed
    <3> QED BY <3>2, <3>3
  <2> QED BY <2>1, <2>2, <2>5, <2>6 DEF Conserves, Shape
<1> QED BY <1>1, <1>2

LEMMA FinishingAll ==
    ASSUME NEW s, Shape(s), NEW ids, NEW outcome \in Outcomes
    PROVE  Conserves(s, FinishAll(s, ids, outcome))
<1> DEFINE told == [id \in ids |-> outcome]
<1>1. \A id \in ids \cap DOMAIN s.requests : told[id] \in Outcomes
  OBVIOUS
<1> HIDE DEF told
<1>2. Conserves(s, FinishEach(s, ids, told))
  BY <1>1, FinishingEach
<1> QED BY <1>2 DEF told, FinishAll

LEMMA FinishingOne ==
    ASSUME NEW s, Shape(s), NEW id, NEW outcome \in Outcomes
    PROVE  Conserves(s, Finish(s, id, outcome))
  BY FinishingAll DEF Finish

LEMMA OutcomeKnown == ASSUME NEW r PROVE Outcome(r) \in Outcomes
  BY DEF Outcome, Outcomes

LEMMA FinishingIfReady ==
    ASSUME NEW s, Shape(s), NEW id
    PROVE  Conserves(s, FinishIfReady(s, id))
  BY FinishingOne, OutcomeKnown, Stays DEF FinishIfReady

LEMMA FinishingReady ==
    ASSUME NEW s, Shape(s), NEW ids
    PROVE  Conserves(s, FinishReady(s, ids))
<1> DEFINE ready == {id \in ids : Ready(s, id)}
           told == [id \in ready |-> Outcome(s.requests[id])]
<1>1. \A id \in ready \cap DOMAIN s.requests : told[id] \in Outcomes
  BY OutcomeKnown
<1>2. FinishReady(s, ids) = FinishEach(s, ready, told)
  BY DEF FinishReady
<1> HIDE DEF ready, told
<1> QED BY <1>1, <1>2, FinishingEach

LEMMA Failing ==
    ASSUME NEW s, Shape(s), NEW id, NEW cancelled
    PROVE  Conserves(s, Failure(s, id, cancelled))
<1> DEFINE t == Failure(s, id, cancelled)
<1>1. CASE id \notin DOMAIN s.requests
  BY <1>1, Stays DEF Failure
<1>2. CASE id \in DOMAIN s.requests
  <2>1. DOMAIN t = Fields /\ DOMAIN t.requests = DOMAIN s.requests /\ t.told = s.told
    BY <1>2 DEF Failure, Shape, Fields
  <2> QED BY <2>1, Untouched
<1> QED BY <1>1, <1>2

LEMMA Awaiting ==
    ASSUME NEW s, Shape(s), NEW id, NEW waiting
    PROVE  Conserves(s, Waiting(s, id, waiting))
<1> DEFINE t == Waiting(s, id, waiting)
<1>1. CASE id \notin DOMAIN s.requests
  BY <1>1, Stays DEF Waiting
<1>2. CASE id \in DOMAIN s.requests
  <2>1. DOMAIN t = Fields /\ DOMAIN t.requests = DOMAIN s.requests /\ t.told = s.told
    BY <1>2 DEF Waiting, Shape, Fields
  <2> QED BY <2>1, Untouched
<1> QED BY <1>1, <1>2

\* A step that leaves who is open and the answers alone, and then a helper.
LEMMA Then ==
    ASSUME NEW s, NEW t, NEW u, Shape(s), DOMAIN t = Fields,
           DOMAIN t.requests = DOMAIN s.requests, t.told = s.told,
           Shape(t) => Conserves(t, u)
    PROVE  Conserves(s, u)
  BY Untouched, Shaped, Chain

LEMMA CancellingPending ==
    ASSUME NEW s, Shape(s), NEW keys
    PROVE  Conserves(s, CancelPending(s, keys))
<1> DEFINE gone == DOMAIN s.pending \cap keys
           t == [s EXCEPT !.pending = Restrict(@, DOMAIN @ \ gone)]
           ids == {s.pending[k] : k \in gone}
<1>1. DOMAIN t = Fields /\ t.requests = s.requests /\ t.told = s.told
  BY DEF Shape, Fields
<1>2. CancelPending(s, keys) = FinishAll(t, ids, "cancelled")
  BY DEF CancelPending
<1> HIDE DEF t, ids
<1>3. Shape(t) => Conserves(t, FinishAll(t, ids, "cancelled"))
  BY FinishingAll DEF Outcomes
<1> QED BY <1>1, <1>2, <1>3, Then

LEMMA Deferring ==
    ASSUME NEW s, Shape(s), NEW key, NEW id
    PROVE  Conserves(s, Defer(s, key, id))
<1> DEFINE t == Waiting(s, id, TRUE)
           u == [t EXCEPT !.pending = Put(key, id, @),
                          !.intents = IF key \in Units THEN Put(<<key, "gain">>, id, @)
                                      ELSE @]
<1>1. Conserves(s, t) /\ Shape(t)
  BY Awaiting, Shaped
<1>2. Defer(s, key, id) = IF key \in DOMAIN s.pending THEN Finish(u, s.pending[key], "cancelled")
                          ELSE u
  BY DEF Defer
<1> HIDE DEF t
<1>3. DOMAIN u = Fields /\ u.requests = t.requests /\ u.told = t.told
  BY <1>1 DEF Shape, Fields
<1> HIDE DEF u
<1>4. Conserves(t, u) /\ Shape(u)
  BY <1>1, <1>3, Untouched, Shaped
<1>5. Conserves(u, Finish(u, s.pending[key], "cancelled"))
  BY <1>4, FinishingOne DEF Outcomes
<1> QED BY <1>1, <1>2, <1>4, <1>5, Chain

-----------------------------------------------------------------------------
(* Dispatch and handovers.                                                 *)

LEMMA QueueingDevice ==
    ASSUME NEW s, Shape(s), NEW id, NEW u, NEW sets, NEW taking
    PROVE  Conserves(s, QueueDevice(s, id, u, sets, taking))
<1> DEFINE t == QueueDevice(s, id, u, sets, taking)
           held == "mute" \in sets /\ u \in s.open /\ s.handover # "none"
           given == [s EXCEPT
            !.nextJob = @ + 1,
            !.jobs = Put(s.nextJob, [owner |-> id, unit |-> u, sets |-> sets,
                                     held |-> held], @),
            !.queue[u] = IF held THEN @ ELSE Append(@, s.nextJob),
            !.requests[id].remaining = @ \cup {s.nextJob},
            !.intents = Over([k \in {<<u, f>> : f \in sets} |-> id], @)]
<1>1. t = Failure(s, id, FALSE) \/ t = given
  BY DEF QueueDevice
<1>2. DOMAIN given = Fields /\ DOMAIN given.requests = DOMAIN s.requests /\ given.told = s.told
  BY DEF Shape, Fields
<1> HIDE DEF t, given
<1> QED BY <1>1, <1>2, Failing, Untouched DEF t

LEMMA QueueingCapture ==
    ASSUME NEW s, Shape(s), NEW id
    PROVE  Conserves(s, QueueCapture(s, id))
<1> DEFINE t == [s EXCEPT !.held = {id}]
           ids == s.held \ {id, 0}
<1>1. DOMAIN t = Fields /\ t.requests = s.requests /\ t.told = s.told
  BY DEF Shape, Fields
<1>2. \/ QueueCapture(s, id) = FinishAll(t, ids, "cancelled")
      \/ QueueCapture(s, id) = s
      \/ QueueCapture(s, id) = Failure(s, id, FALSE)
  BY DEF QueueCapture
<1> HIDE DEF t, ids
<1>3. Shape(t) => Conserves(t, FinishAll(t, ids, "cancelled"))
  BY FinishingAll DEF Outcomes
<1> QED BY <1>1, <1>2, <1>3, Then, Stays, Failing

LEMMA Committing ==
    ASSUME NEW s, Shape(s), NEW open
    PROVE  Conserves(s, Commit(s, open))
<1> DEFINE t == Commit(s, open)
<1>1. DOMAIN t = Fields /\ t.requests = s.requests /\ t.told = s.told
  BY DEF Commit, Shape, Fields
<1> QED BY <1>1, Untouched

LEMMA Mirroring ==
    ASSUME NEW s, Shape(s), NEW id, NEW us, NEW taking
    PROVE  Conserves(s, Mirror(s, id, us, taking))
  BY QueueingDevice, Stays DEF Mirror

LEMMA SyncingMutes ==
    ASSUME NEW s, Shape(s), NEW before, NEW id, NEW excluded, NEW taking
    PROVE  Conserves(s, SyncMutes(s, before, id, excluded, taking))
<1> DEFINE changed == (before \ s.open) \cup (s.open \ before)
           units == (changed \cap Units) \ excluded
           t == Mirror(s, id, units \ s.open, taking)
           done == Mirror(t, id, units \cap s.open, taking)
<1>1. Conserves(s, t) /\ Shape(t)
  BY Mirroring, Shaped
<1>2. \/ SyncMutes(s, before, id, excluded, taking) = done
      \/ SyncMutes(s, before, id, excluded, taking) = QueueCapture(done, id)
  BY DEF SyncMutes
<1> HIDE DEF t
<1>3. Conserves(s, done) /\ Shape(done)
  BY <1>1, Mirroring, Shaped, Chain
<1> HIDE DEF done
<1> QED BY <1>2, <1>3, QueueingCapture, Chain

LEMMA SettlingJobs ==
    ASSUME NEW s, Shape(s), NEW order, NEW taking
    PROVE  Conserves(s, SettleJobs(s, order, taking))
<1> DEFINE cancelled == {k \in Held(s) : Superseded(s, s.jobs[k])}
           going  == {k \in Free(s) : s.jobs[k].unit \in taking}
           gone   == cancelled \cup (Free(s) \ going)
           owners(ks) == {s.jobs[k].owner : k \in ks}
           blamed == owners(gone) \cap DOMAIN s.requests
           t == [s EXCEPT
                !.jobs = Over([k \in going |-> [s.jobs[k] EXCEPT !.held = FALSE]],
                              Restrict(@, DOMAIN @ \ gone)),
                !.queue = [u \in Units |-> @[u] \o order[u]],
                !.requests = Over([id \in blamed |->
                   [s.requests[id] EXCEPT !.remaining = @ \ gone, !.failed = TRUE,
                                          !.cancelled = @ \/ id \in owners(cancelled)]], @)]
<1>1. SettleJobs(s, order, taking) = IF Held(s) = {} THEN s ELSE FinishReady(t, owners(gone))
  BY DEF SettleJobs
<1>2. blamed \subseteq DOMAIN s.requests
  OBVIOUS
<1> HIDE DEF blamed, gone, going, cancelled
<1>3. /\ DOMAIN t = Fields
      /\ DOMAIN t.requests = blamed \cup DOMAIN s.requests
      /\ t.told = s.told
  BY DEF Shape, Fields, Over
<1> HIDE DEF t
<1>4. Shape(t) => Conserves(t, FinishReady(t, owners(gone)))
  BY FinishingReady
<1>5. DOMAIN t.requests = DOMAIN s.requests
  BY <1>2, <1>3
<1>6. Conserves(s, FinishReady(t, owners(gone)))
  BY <1>3, <1>4, <1>5, Then
<1> QED BY <1>1, <1>6, Stays

LEMMA SettlingCapture ==
    ASSUME NEW s, Shape(s)
    PROVE  Conserves(s, SettleCapture(s))
<1> DEFINE id == CHOOSE x \in s.held : TRUE
           t == [s EXCEPT !.held = {}]
           refused == Failure(t, id, TRUE)
           queued == QueueCapture(t, id)
<1>1. \/ SettleCapture(s) = s
      \/ SettleCapture(s) = FinishIfReady(refused, id)
      \/ SettleCapture(s) = FinishIfReady(queued, id)
  BY DEF SettleCapture
<1>2. DOMAIN t = Fields /\ t.requests = s.requests /\ t.told = s.told
  BY DEF Shape, Fields
<1> HIDE DEF t, id
<1>3. Conserves(s, t) /\ Shape(t)
  BY <1>2, Untouched, Shaped
<1>4. Conserves(s, refused) /\ Shape(refused)
  BY <1>3, Failing, Chain, Shaped
<1>5. Conserves(s, queued) /\ Shape(queued)
  BY <1>3, QueueingCapture, Chain, Shaped
<1> HIDE DEF refused, queued
<1> QED BY <1>1, <1>4, <1>5, FinishingIfReady, Chain, Stays

LEMMA Judging ==
    ASSUME NEW s, Shape(s), NEW t \in Judged(s)
    PROVE  t = s \/ \E verdict : t = [s EXCEPT !.handover = verdict]
  BY DEF Judged

LEMMA Advancing ==
    ASSUME NEW s, Shape(s), NEW t \in Judged(s), NEW order, NEW taking
    PROVE  Conserves(s, Advance(t, order, taking)) /\ Shape(Advance(t, order, taking))
<1> DEFINE u == SettleJobs(t, order, taking)
<1>1. Advance(t, order, taking) = IF t.frozen THEN t ELSE SettleCapture(u)
  BY DEF Advance
<1>2. DOMAIN t = Fields /\ t.requests = s.requests /\ t.told = s.told
  BY Judging DEF Shape, Fields
<1>3. Conserves(s, t) /\ Shape(t)
  BY <1>2, Untouched, Shaped
<1>4. Conserves(s, u) /\ Shape(u)
  BY <1>3, SettlingJobs, Chain, Shaped
<1> HIDE DEF u
<1>5. Conserves(s, Advance(t, order, taking))
  BY <1>1, <1>3, <1>4, SettlingCapture, Chain
<1> QED BY <1>5, Shaped

LEMMA EndingCalibration ==
    ASSUME NEW s, Shape(s), NEW outcome \in Outcomes
    PROVE  Conserves(s, EndCalibration(s, outcome))
<1> DEFINE t == [s EXCEPT !.session = 0, !.recording = 0]
<1>1. EndCalibration(s, outcome) = IF s.session = 0 THEN s ELSE Finish(t, s.recording, outcome)
  BY DEF EndCalibration
<1>2. DOMAIN t = Fields /\ t.requests = s.requests /\ t.told = s.told
  BY DEF Shape, Fields
<1> HIDE DEF t
<1> QED BY <1>1, <1>2, Then, FinishingOne, Stays

LEMMA SettingGain ==
    ASSUME NEW s, Shape(s), NEW id, NEW u
    PROVE  Conserves(s, SetsGain(s, id, u))
<1> DEFINE t == CancelPending(s, {u})
<1>1. Conserves(s, t) /\ Shape(t)
  BY CancellingPending, Shaped
<1>2. \/ SetsGain(s, id, u) = Failure(s, id, FALSE)
      \/ SetsGain(s, id, u) = QueueDevice(t, id, u, {"gain"}, up)
  BY DEF SetsGain
<1> HIDE DEF t
<1>3. Conserves(s, QueueDevice(t, id, u, {"gain"}, up))
  <2>1. Conserves(t, QueueDevice(t, id, u, {"gain"}, up))
    BY <1>1, QueueingDevice
  <2> QED BY <1>1, <2>1, Chain
<1>4. Conserves(s, Failure(s, id, FALSE))
  BY Failing
<1> QED BY <1>2, <1>3, <1>4

LEMMA LockingGain ==
    ASSUME NEW s, Shape(s)
    PROVE  Conserves(s, LockGain(s))
<1> DEFINE t == [s EXCEPT !.locked = TRUE]
<1>1. DOMAIN t = Fields /\ t.requests = s.requests /\ t.told = s.told
  BY DEF Shape, Fields
<1>2. LockGain(s) = CancelPending(t, s.selected)
  BY DEF LockGain
<1> HIDE DEF t
<1> QED BY <1>1, <1>2, CancellingPending, Then

-----------------------------------------------------------------------------
(* Events and shutdown.                                                    *)

LEMMA ObservingUnit ==
    ASSUME NEW s, Shape(s), NEW u, NEW muted
    PROVE  Conserves(s, ObserveUnit(s, u, muted))
<1> DEFINE t == [s EXCEPT !.units = @ \cup {u},
                          !.selected = IF @ = {} THEN {u} ELSE @]
           open == IF muted THEN s.open \ {u} ELSE Opening(s, u)
           v == Commit(t, open)
           w == SyncMutes(v, s.open, 0, {u}, {})
<1>1. \/ ObserveUnit(s, u, muted) = s
      \/ ObserveUnit(s, u, muted) = t
      \/ ObserveUnit(s, u, muted) = w
  BY DEF ObserveUnit
<1>2. DOMAIN t = Fields /\ t.requests = s.requests /\ t.told = s.told
  BY DEF Shape, Fields
<1> HIDE DEF t
<1>3. Conserves(s, t) /\ Shape(t)
  BY <1>2, Untouched, Shaped
<1>4. Conserves(s, v) /\ Shape(v)
  BY <1>3, Committing, Chain, Shaped
<1> HIDE DEF v
<1>5. Conserves(s, w)
  BY <1>4, SyncingMutes, Chain
<1> HIDE DEF w
<1> QED BY <1>1, <1>3, <1>5, Stays

LEMMA FinishingJob ==
    ASSUME NEW s, Shape(s), NEW k, NEW result, NEW muted
    PROVE  Conserves(s, Finished(s, k, result, muted))
<1> DEFINE job == s.jobs[k]
           t == [s EXCEPT !.jobs = Restrict(@, DOMAIN @ \ {k})]
           v == IF result = "ok"
                THEN IF job.unit \in t.units THEN ObserveUnit(t, job.unit, muted) ELSE t
                ELSE Failure(t, job.owner, result = "cancelled")
           w == IF job.owner \in DOMAIN v.requests
                THEN [v EXCEPT !.requests[job.owner].remaining = @ \ {k}] ELSE v
<1>1. \/ Finished(s, k, result, muted) = s
      \/ Finished(s, k, result, muted) = FinishIfReady(w, job.owner)
  BY DEF Finished
<1>2. DOMAIN t = Fields /\ t.requests = s.requests /\ t.told = s.told
  BY DEF Shape, Fields
<1> HIDE DEF t, job
<1>3. Conserves(s, t) /\ Shape(t)
  BY <1>2, Untouched, Shaped
<1>4. Conserves(s, v) /\ Shape(v)
  BY <1>3, ObservingUnit, Failing, Chain, Shaped
<1> HIDE DEF v
<1>5. DOMAIN w = Fields /\ DOMAIN w.requests = DOMAIN v.requests /\ w.told = v.told
  BY <1>4 DEF Shape, Fields
<1> HIDE DEF w
<1>6. Conserves(s, w) /\ Shape(w)
  BY <1>4, <1>5, Untouched, Chain, Shaped
<1> QED BY <1>1, <1>6, FinishingIfReady, Chain, Stays

LEMMA RetiringUnit ==
    ASSUME NEW s, Shape(s), NEW u
    PROVE  Conserves(s, UnitRetired(s, u))
<1> DEFINE r == [s EXCEPT !.retired = @ \cup {u}, !.units = @ \ {u}]
           t == CancelPending(r, {u})
           v == UnitRetired(s, u)
<1>1. DOMAIN r = Fields /\ r.requests = s.requests /\ r.told = s.told
  BY DEF Shape, Fields
<1>2. v = [t EXCEPT !.intents = RestrictDomain(@, LAMBDA k : k[1] # u),
                    !.selected = IF @ = {u} /\ t.units # {}
                                 THEN {CHOOSE x \in t.units : TRUE} ELSE @ \ {u}]
  BY DEF UnitRetired
<1> HIDE DEF r, v
<1>3. Conserves(s, t) /\ Shape(t)
  BY <1>1, CancellingPending, Then, Shaped
<1> HIDE DEF t
<1>4. DOMAIN v = Fields /\ v.requests = t.requests /\ v.told = t.told
  BY <1>2, <1>3 DEF Shape, Fields
<1>5. Conserves(s, v)
  BY <1>3, <1>4, Untouched, Chain
<1> QED BY <1>5 DEF v

LEMMA CompletingCalibration ==
    ASSUME NEW s, Shape(s), NEW e
    PROVE  Conserves(s, CalibrationComplete(s, e))
<1> DEFINE t == [s EXCEPT !.recording = 0]
           v == Waiting(t, s.recording, FALSE)
<1>1. \/ CalibrationComplete(s, e) = s
      \/ CalibrationComplete(s, e) = EndCalibration(s, "rejected")
      \/ CalibrationComplete(s, e) = EndCalibration(s, "cancelled")
      \/ CalibrationComplete(s, e) = FinishIfReady(v, s.recording)
  BY DEF CalibrationComplete
<1>2. DOMAIN t = Fields /\ t.requests = s.requests /\ t.told = s.told
  BY DEF Shape, Fields
<1> HIDE DEF t
<1>3. Conserves(s, v) /\ Shape(v)
  BY <1>2, Awaiting, Then, Shaped
<1> HIDE DEF v
<1>4. Conserves(s, FinishIfReady(v, s.recording))
  BY <1>3, FinishingIfReady, Chain
<1> QED BY <1>1, <1>4, EndingCalibration, Stays DEF Outcomes

LEMMA ObservingGraph ==
    ASSUME NEW s, Shape(s), NEW known, NEW open
    PROVE  Conserves(s, ObserveGraph(s, known, open))
<1> DEFINE t == [s EXCEPT !.known = known]
           v == IF s.frozen \/ ~known \/ open = s.open THEN t ELSE Commit(t, open)
<1>1. ObserveGraph(s, known, open) = IF known \/ s.frozen THEN v ELSE EndCalibration(v, "rejected")
  BY DEF ObserveGraph
<1>2. DOMAIN t = Fields /\ t.requests = s.requests /\ t.told = s.told
  BY DEF Shape, Fields
<1> HIDE DEF t
<1>3. Conserves(s, t) /\ Shape(t)
  BY <1>2, Untouched, Shaped
<1>4. Conserves(s, v) /\ Shape(v)
  BY <1>3, Committing, Chain, Shaped
<1> HIDE DEF v
<1>5. Conserves(s, EndCalibration(v, "rejected"))
  BY <1>4, EndingCalibration, Chain DEF Outcomes
<1> QED BY <1>1, <1>4, <1>5

LEMMA Freezing ==
    ASSUME NEW s, Shape(s)
    PROVE  Conserves(s, Frozen(s))
<1> DEFINE r == [s EXCEPT !.frozen = TRUE, !.held = {}, !.handover = "none"]
           t == CancelPending(r, DOMAIN s.pending)
<1>1. Frozen(s) = IF s.frozen THEN s ELSE EndCalibration(t, "cancelled")
  BY DEF Frozen
<1>2. DOMAIN r = Fields /\ r.requests = s.requests /\ r.told = s.told
  BY DEF Shape, Fields
<1> HIDE DEF r
<1>3. Conserves(s, t) /\ Shape(t)
  BY <1>2, CancellingPending, Then, Shaped
<1> HIDE DEF t
<1>4. Conserves(s, EndCalibration(t, "cancelled"))
  BY <1>3, EndingCalibration, Chain DEF Outcomes
<1> QED BY <1>1, <1>4, Stays

LEMMA FinishingTheRest ==
    ASSUME NEW s, Shape(s), NEW outcome \in Outcomes
    PROVE  Conserves(s, Finish(Unfinished(s), closer.id, outcome))
<1> DEFINE scenes == {id \in DOMAIN s.requests \ {closer.id} : s.requests[id].scene}
           t == FinishAll(s, DOMAIN s.requests \ (scenes \cup {closer.id}), "cancelled")
           v == FinishAll(t, scenes, "scene")
<1>1. Conserves(s, t) /\ Shape(t)
  BY FinishingAll, Shaped DEF Outcomes
<1>2. Unfinished(s) = v
  BY DEF Unfinished
<1> HIDE DEF t, scenes
<1>3. Conserves(s, v) /\ Shape(v)
  BY <1>1, FinishingAll, Shaped, Chain DEF Outcomes
<1> QED BY <1>2, <1>3, FinishingOne, Chain

-----------------------------------------------------------------------------
(* The invariant, and what a step must do to keep it.                      *)

Messages == [id : Ids, kind : Kinds]

InChannel(id) == \E i \in DOMAIN channel : channel[i].id = id

Place(id) == (IF InChannel(id) THEN 1 ELSE 0) + Owed(c, id)

\* A number is in the channel once, and the commands that have a place are the
\* admitted ones.
Inv ==
    /\ admission.next \in 1..MaxCommands + 1
    /\ admission = [next |-> admission.next, accepting |-> admission.accepting,
                    stopped |-> admission.stopped]
    /\ plan \in [units : SUBSET Units, menu : SUBSET Kinds,
                 commands : 0..MaxCommands, hands : BOOLEAN, faults : Nat]
    /\ channel \in Seq(Messages)
    /\ \A i, j \in DOMAIN channel : channel[i].id = channel[j].id => i = j
    /\ Shape(c)
    /\ \A id \in Ids : Place(id) = IF id \in Admitted THEN 1 ELSE 0

LEMMA OwedIsNat == ASSUME NEW s, Shape(s), NEW id \in Ids PROVE Owed(s, id) \in Nat
<1>1. Len(s.told[id]) \in Nat
  BY DEF Shape
<1>2. Owed(s, id) = 1 + Len(s.told[id]) \/ Owed(s, id) = 0 + Len(s.told[id])
  BY DEF Owed
<1> QED BY <1>1, <1>2

LEMMA InvMeansOnePlace == Inv => OnePlace
<1> SUFFICES ASSUME Inv, NEW id \in Ids
             PROVE  (IF InChannel(id) THEN 1 ELSE 0)
                    + (IF id \in DOMAIN c.requests THEN 1 ELSE 0) + Len(c.told[id])
                    = IF id \in Admitted THEN 1 ELSE 0
  BY DEF OnePlace, InChannel
<1>1. Len(c.told[id]) \in Nat
  BY DEF Inv, Shape
<1>2. Place(id) = IF id \in Admitted THEN 1 ELSE 0
  BY DEF Inv
<1>3. PICK one \in Nat : one = IF InChannel(id) THEN 1 ELSE 0
  OBVIOUS
<1>4. PICK two \in Nat : two = IF id \in DOMAIN c.requests THEN 1 ELSE 0
  OBVIOUS
<1>5. PICK answers \in Nat : answers = Len(c.told[id])
  BY <1>1
<1>6. Owed(c, id) = two + answers
  BY <1>4, <1>5 DEF Owed
<1>7. Place(id) = one + (two + answers)
  BY <1>3, <1>6 DEF Place
<1>8. one + two + answers = IF id \in Admitted THEN 1 ELSE 0
  BY <1>2, <1>7
<1> QED BY <1>3, <1>4, <1>5, <1>8

\* The head of the channel is a command that is neither open nor answered; it
\* opens and the rest of the channel has every other command where it was.
LEMMA Beginning ==
    ASSUME Inv, channel # <<>>
    PROVE  /\ Id \in Ids
           /\ Head(channel) = channel[1] /\ 1 \in DOMAIN channel
           /\ Shape(Begun)
           /\ Owed(Begun, Id) = Owed(c, Id) + 1
           /\ \A id \in Ids \ {Id} : Owed(Begun, id) = Owed(c, id)
<1>1. /\ channel[1] \in Messages
      /\ 1 \in DOMAIN channel /\ Head(channel) = channel[1]
  <2>1. channel \in Seq(Messages) /\ channel # <<>>
    BY DEF Inv
  <2> QED BY <2>1
<1>2. Id \in Ids /\ Id = channel[1].id
  BY <1>1 DEF Id, Messages
<1>3. InChannel(Id)
  BY <1>1, <1>2 DEF InChannel
<1>4. Place(Id) \in {0, 1} /\ Owed(c, Id) \in Nat
  BY <1>2, OwedIsNat DEF Inv
<1>5. Owed(c, Id) = 0
  BY <1>3, <1>4 DEF Place
<1>6. Len(c.told[Id]) \in Nat
  BY <1>2 DEF Inv, Shape
<1>7. Id \notin DOMAIN c.requests
  <2> SUFFICES ASSUME Id \in DOMAIN c.requests PROVE FALSE
    OBVIOUS
  <2>1. Owed(c, Id) = 1 + Len(c.told[Id])
    BY DEF Owed
  <2> QED BY <1>5, <1>6, <2>1
<1>8. /\ DOMAIN Begun = Fields
      /\ DOMAIN Begun.requests = DOMAIN c.requests \cup {Id}
      /\ Begun.told = c.told
  BY DEF Begun, Opened, Put, Inv, Shape, Fields
<1>9. Shape(Begun)
  BY <1>2, <1>8 DEF Inv, Shape
<1>10. Owed(Begun, Id) = Owed(c, Id) + 1
  BY <1>6, <1>7, <1>8 DEF Owed
<1>11. ASSUME NEW id \in Ids \ {Id} PROVE Owed(Begun, id) = Owed(c, id)
  BY <1>8 DEF Owed
<1> QED BY <1>1, <1>2, <1>9, <1>10, <1>11

Steady ==
    /\ admission'.next = admission.next
    /\ admission' = [next |-> admission'.next, accepting |-> admission'.accepting,
                     stopped |-> admission'.stopped]
    /\ plan' \in [units : SUBSET Units, menu : SUBSET Kinds,
                  commands : 0..MaxCommands, hands : BOOLEAN, faults : Nat]

\* The head leaves the channel, and nobody else does.
LEMMA Departing ==
    ASSUME Inv, channel # <<>>, channel' = Tail(channel)
    PROVE  /\ channel' \in Seq(Messages)
           /\ \A i, j \in DOMAIN channel' : channel'[i].id = channel'[j].id => i = j
           /\ InChannel(Id)
           /\ \A id \in Ids : InChannel(id)' <=> InChannel(id) /\ id # Id
<1>1. Head(channel) = channel[1] /\ 1 \in DOMAIN channel
  BY Beginning
<1>2. /\ channel' \in Seq(Messages)
      /\ DOMAIN channel' = 1..Len(channel) - 1
      /\ Len(channel) \in Nat
      /\ DOMAIN channel = 1..Len(channel)
      /\ \A i \in DOMAIN channel' : channel'[i] = channel[i + 1]
  BY DEF Inv
<1>3. \A i, j \in DOMAIN channel' : channel'[i].id = channel'[j].id => i = j
  <2> SUFFICES ASSUME NEW i \in DOMAIN channel', NEW j \in DOMAIN channel',
                      channel'[i].id = channel'[j].id
               PROVE  i = j
    OBVIOUS
  <2>1. i + 1 \in DOMAIN channel /\ j + 1 \in DOMAIN channel
    BY <1>2
  <2>2. i + 1 = j + 1
    BY <1>2, <2>1 DEF Inv
  <2> QED BY <1>2, <2>2
<1>4. InChannel(Id)
  BY <1>1 DEF InChannel, Id
<1>5. ASSUME NEW id \in Ids, id = Id PROVE ~InChannel(id)'
  <2> SUFFICES ASSUME NEW i \in DOMAIN channel', channel'[i].id = id PROVE FALSE
    BY DEF InChannel
  <2>1. i + 1 \in DOMAIN channel /\ channel[i + 1].id = channel[1].id /\ i + 1 # 1
    BY <1>1, <1>2, <1>5 DEF Id
  <2> QED BY <2>1, <1>1 DEF Inv
<1>6. ASSUME NEW id \in Ids, id # Id PROVE InChannel(id)' <=> InChannel(id)
  <2>1. InChannel(id) => InChannel(id)'
    <3> SUFFICES ASSUME NEW i \in DOMAIN channel, channel[i].id = id PROVE InChannel(id)'
      BY DEF InChannel
    <3>1. i # 1
      BY <1>1, <1>6 DEF Id
    <3>2. i - 1 \in DOMAIN channel' /\ (i - 1) + 1 = i
      BY <1>2, <3>1
    <3>3. channel'[i - 1].id = id
      BY <1>2, <3>2
    <3> QED BY <3>2, <3>3 DEF InChannel
  <2>2. InChannel(id)' => InChannel(id)
    <3> SUFFICES ASSUME NEW i \in DOMAIN channel', channel'[i].id = id PROVE InChannel(id)
      BY DEF InChannel
    <3>1. i + 1 \in DOMAIN channel /\ channel[i + 1].id = id
      BY <1>2
    <3> QED BY <3>1 DEF InChannel
  <2> QED BY <2>1, <2>2
<1> QED BY <1>2, <1>3, <1>4, <1>5, <1>6

LEMMA Served ==
    ASSUME Inv, Steady, channel # <<>>, channel' = Tail(channel), Conserves(Begun, c')
    PROVE  Inv'
<1>1. /\ Id \in Ids
      /\ Owed(Begun, Id) = Owed(c, Id) + 1
      /\ \A id \in Ids \ {Id} : Owed(Begun, id) = Owed(c, id)
  BY Beginning
<1>2. ASSUME NEW id \in Ids PROVE Place(id)' = Place(id)
  <2>1. Owed(c', id) = Owed(Begun, id)
    BY DEF Conserves
  <2>2. Owed(c, id) \in Nat
    BY OwedIsNat DEF Inv
  <2>3. CASE id = Id
    BY <1>1, <2>1, <2>2, <2>3, Departing DEF Place
  <2>4. CASE id # Id
    BY <1>1, <2>1, <2>2, <2>4, Departing DEF Place
  <2> QED BY <2>3, <2>4
<1>3. Shape(c')
  BY DEF Conserves
<1> QED BY <1>2, <1>3, Departing DEF Inv, Steady, Admitted

LEMMA Quiet ==
    ASSUME Inv, Steady, channel' = channel, Conserves(c, c')
    PROVE  Inv'
<1>1. ASSUME NEW id \in Ids PROVE Place(id)' = Place(id)
  BY DEF Conserves, Place, InChannel
<1>2. Shape(c')
  BY DEF Conserves
<1> QED BY <1>1, <1>2 DEF Inv, Steady, Admitted

\* A handler ends, perhaps by finishing what it handled.
LEMMA Applying ==
    ASSUME NEW b, NEW s, Shape(b), Conserves(b, s), NEW id, Applies(s, id)
    PROVE  Conserves(b, c')
<1>1. PICK r \in Judged(s) : \E order \in Orders(r, up) :
         c' = FinishIfReady(Advance(r, order, up), id)
  BY DEF Applies, Becomes
<1>2. \A order : Conserves(s, Advance(r, order, up)) /\ Shape(Advance(r, order, up))
  BY Shaped, Advancing
<1> QED BY <1>1, <1>2, FinishingIfReady, Chain

LEMMA Absorbing ==
    ASSUME NEW s, Shape(c), Conserves(c, s), Absorbs(s)
    PROVE  Conserves(c, c')
<1>1. PICK r \in Judged(s) : \E order \in Orders(r, up) : c' = Advance(r, order, up)
  BY DEF Absorbs, Becomes
<1>2. Shape(s)
  BY Shaped
<1>3. Conserves(s, c')
  BY <1>1, <1>2, Advancing
<1> QED BY <1>3, Chain

LEMMA Steadily ==
    ASSUME Inv, UNCHANGED admission, UNCHANGED plan \/ Fault
    PROVE  Steady
<1>1. plan' \in [units : SUBSET Units, menu : SUBSET Kinds,
                 commands : 0..MaxCommands, hands : BOOLEAN, faults : Nat]
  <2>1. CASE UNCHANGED plan
    BY <2>1 DEF Inv
  <2>2. CASE Fault
    <3>1. plan' = [plan EXCEPT !.faults = plan.faults - 1] /\ plan.faults > 0
      BY <2>2 DEF Fault
    <3>2. plan.faults \in Nat
      BY DEF Inv
    <3>3. plan.faults - 1 \in Nat
      BY <3>1, <3>2
    <3> QED BY <3>1, <3>3 DEF Inv
  <2> QED BY <2>1, <2>2
<1> QED BY <1>1 DEF Steady, Inv

\* What every command finds.
LEMMA Commanded ==
    ASSUME Inv, channel # <<>>
    PROVE  Shape(Begun) /\ Conserves(Begun, Begun) /\ Conserves(Begun, Rejected)
  BY Beginning, Stays, Failing DEF Rejected

LEMMA Executing ==
    ASSUME Inv, NEW kind, Takes(kind), Saves \/ Fault, NEW s, Conserves(Begun, s), Applies(s, Id)
    PROVE  Inv'
<1>1. channel # <<>> /\ channel' = Tail(channel) /\ UNCHANGED admission
  BY DEF Takes
<1>2. Conserves(Begun, c')
  BY <1>1, Commanded, Applying
<1>3. Steady
  BY <1>1, Steadily DEF Saves
<1> QED BY <1>1, <1>2, <1>3, Served

LEMMA Observes ==
    ASSUME Inv, Observing, NEW s, Conserves(c, s), Absorbs(s)
    PROVE  Inv'
<1>1. Shape(c)
  BY DEF Inv
<1>2. Conserves(c, c')
  BY <1>1, Absorbing
<1>3. Steady /\ channel' = channel
  BY Steadily DEF Observing
<1> QED BY <1>2, <1>3, Quiet

\* A worker takes what it was given: neither requests nor answers change.
LEMMA WorkerSteps ==
    ASSUME Inv, Working, UNCHANGED plan \/ Fault, DOMAIN c' = Fields,
           c'.requests = c.requests, c'.told = c.told
    PROVE  Inv'
<1>1. Shape(c)
  BY DEF Inv
<1>2. Conserves(c, c')
  BY <1>1, Untouched
<1>3. Steady /\ channel' = channel
  BY Steadily DEF Working
<1> QED BY <1>2, <1>3, Quiet

-----------------------------------------------------------------------------
(* The actions.                                                            *)

LEMMA DragKeeps == ASSUME Inv, NEW u, Drag(u) PROVE Inv'
<1> DEFINE s == IF GainRefused(Begun, u) THEN Rejected ELSE Defer(Begun, u, Id)
<1>1. Takes("drag") /\ Saves /\ Applies(s, Id) /\ channel # <<>>
  BY DEF Drag, Takes
<1>2. Conserves(Begun, s)
  BY <1>1, Commanded, Deferring
<1> HIDE DEF s
<1> QED BY <1>1, <1>2, Executing

LEMMA SetGainKeeps == ASSUME Inv, NEW u, SetGain(u) PROVE Inv'
<1> DEFINE s == SetsGain(Begun, Id, u)
<1>1. Takes("gain") /\ Saves /\ Applies(s, Id) /\ channel # <<>>
  BY DEF SetGain, Takes
<1>2. Conserves(Begun, s)
  BY <1>1, Commanded, SettingGain
<1> HIDE DEF s
<1> QED BY <1>1, <1>2, Executing

LEMMA DragFxKeeps == ASSUME Inv, DragFx PROVE Inv'
<1> DEFINE s == Defer(Begun, Fx, Id)
<1>1. Takes("fx") /\ Saves /\ Applies(s, Id) /\ channel # <<>>
  BY DEF DragFx, Takes
<1>2. Conserves(Begun, s)
  BY <1>1, Commanded, Deferring
<1> HIDE DEF s
<1> QED BY <1>1, <1>2, Executing

LEMMA EditFxKeeps == ASSUME Inv, EditFx PROVE Inv'
<1> DEFINE s == CancelPending(Begun, {Fx})
           t == Failure(s, Id, FALSE)
<1>1. Takes("edit") /\ channel # <<>>
      /\ ((Saves /\ Applies(s, Id)) \/ (Fault /\ Applies(t, Id)))
  BY DEF EditFx, Takes
<1>2. Conserves(Begun, s)
  BY <1>1, Commanded, CancellingPending
<1> HIDE DEF s
<1>3. Conserves(Begun, t)
  BY <1>2, Shaped, Failing, Chain
<1> HIDE DEF t
<1> QED BY <1>1, <1>2, <1>3, Executing

LEMMA SetRowKeeps == ASSUME Inv, NEW row, SetRow(row) PROVE Inv'
<1> DEFINE open == IF row \in c.open THEN c.open \ {row} ELSE Opening(c, row)
           t == Commit(Begun, open)
           s == SyncMutes(t, c.open, Id, {}, up)
<1>1. Takes("row") /\ channel # <<>>
      /\ ((Saves /\ Applies(s, Id)) \/ (Fault /\ Applies(Rejected, Id)))
  BY DEF SetRow, Takes
<1> HIDE DEF open
<1>2. Conserves(Begun, t) /\ Shape(t)
  BY <1>1, Commanded, Committing, Shaped
<1> HIDE DEF t
<1>3. Conserves(Begun, s)
  BY <1>2, SyncingMutes, Chain
<1> HIDE DEF s
<1> QED BY <1>1, <1>3, Commanded, Executing

LEMMA ApplySceneKeeps ==
    ASSUME Inv, NEW u, NEW row, NEW named, ApplyScene(u, row, named) PROVE Inv'
<1> DEFINE begun == [Begun EXCEPT !.requests[Id].scene = TRUE]
           open  == Opening(c, row)
           v     == Commit(begun, open)
           s     == CancelPending(v, {u})
           t     == SyncMutes(s, c.open, Id, {u}, up)
           sets  == {f \in Settings :
                       IF f = "gain" THEN ~(c.locked /\ u \in c.selected)
                       ELSE named \/ (u \in c.open) # (u \in open)}
           away  == SyncMutes(v, c.open, Id, {}, up)
           queued == QueueDevice(t, Id, u, sets, up)
           all   == IF u \notin c.units THEN away ELSE IF sets = {} THEN t ELSE queued
<1>1. Takes("scene") /\ Saves /\ channel # <<>> /\ Applies(all, Id)
  BY DEF ApplyScene, Takes
<1>2. Shape(Begun)
  BY <1>1, Commanded
<1>3. DOMAIN begun = Fields /\ DOMAIN begun.requests = DOMAIN Begun.requests
      /\ begun.told = Begun.told
  BY <1>2 DEF Shape, Fields
<1> HIDE DEF begun, open, sets
<1>4. Conserves(Begun, begun) /\ Shape(begun)
  BY <1>2, <1>3, Untouched, Shaped
<1>5. Conserves(Begun, v) /\ Shape(v)
  BY <1>4, Committing, Chain, Shaped
<1> HIDE DEF v
<1>6. Conserves(Begun, s) /\ Shape(s)
  BY <1>5, CancellingPending, Chain, Shaped
<1> HIDE DEF s
<1>7. Conserves(Begun, t) /\ Shape(t)
  BY <1>6, SyncingMutes, Chain, Shaped
<1> HIDE DEF t
<1>8. Conserves(Begun, away)
  BY <1>5, SyncingMutes, Chain
<1> HIDE DEF away
<1>9. Conserves(Begun, queued)
  BY <1>7, QueueingDevice, Chain
<1> HIDE DEF queued
<1>10. Conserves(Begun, all)
  BY <1>7, <1>8, <1>9
<1> HIDE DEF all
<1> QED BY <1>1, <1>10, Executing

LEMMA AskHostKeeps == ASSUME Inv, AskHost PROVE Inv'
<1> DEFINE t == Waiting(Begun, Id, TRUE)
           s == [t EXCEPT !.host = Append(@, Id)]
<1>1. Takes("host") /\ Saves /\ Applies(s, Id) /\ channel # <<>>
  BY DEF AskHost, Takes
<1>2. Conserves(Begun, t) /\ Shape(t)
  BY <1>1, Commanded, Awaiting, Shaped
<1> HIDE DEF t
<1>3. DOMAIN s = Fields /\ s.requests = t.requests /\ s.told = t.told
  BY <1>2 DEF Shape, Fields
<1> HIDE DEF s
<1>4. Conserves(Begun, s)
  BY <1>2, <1>3, Untouched, Chain
<1> QED BY <1>1, <1>4, Executing

LEMMA StartCalibrationKeeps == ASSUME Inv, StartCalibration PROVE Inv'
<1> DEFINE s == EndCalibration(Begun, "cancelled")
           t == [s EXCEPT !.session = Id]
           v == IF c.known THEN t ELSE Failure(s, Id, FALSE)
<1>1. Takes("start") /\ Saves /\ Applies(v, Id) /\ channel # <<>>
  BY DEF StartCalibration, Takes
<1>2. Conserves(Begun, s) /\ Shape(s)
  BY <1>1, Commanded, EndingCalibration, Shaped DEF Outcomes
<1> HIDE DEF s
<1>3. DOMAIN t = Fields /\ t.requests = s.requests /\ t.told = s.told
  BY <1>2 DEF Shape, Fields
<1> HIDE DEF t
<1>4. Conserves(Begun, t)
  BY <1>2, <1>3, Untouched, Chain
<1>5. Conserves(Begun, v)
  BY <1>2, <1>4, Failing, Chain
<1> HIDE DEF v
<1> QED BY <1>1, <1>5, Executing

LEMMA RecordKeeps == ASSUME Inv, Record PROVE Inv'
<1> DEFINE t == Waiting(Begun, Id, TRUE)
           s == [t EXCEPT !.recording = Id, !.tapes = Append(@, c.session)]
           e == EndCalibration(Begun, "rejected")
           f == Failure(e, Id, FALSE)
           v == IF c.session # 0 /\ ~c.known THEN f
                ELSE IF c.session = 0 \/ c.recording # 0 THEN Rejected ELSE s
<1>1. Takes("record") /\ Saves /\ Applies(v, Id) /\ channel # <<>>
  BY DEF Record, Takes
<1>2. Conserves(Begun, t) /\ Shape(t)
  BY <1>1, Commanded, Awaiting, Shaped
<1> HIDE DEF t
<1>3. DOMAIN s = Fields /\ s.requests = t.requests /\ s.told = t.told
  BY <1>2 DEF Shape, Fields
<1> HIDE DEF s
<1>4. Conserves(Begun, s)
  BY <1>2, <1>3, Untouched, Chain
<1>5. Conserves(Begun, e) /\ Shape(e)
  BY <1>1, Commanded, EndingCalibration, Shaped DEF Outcomes
<1> HIDE DEF e
<1>6. Conserves(Begun, f)
  BY <1>5, Failing, Chain
<1> HIDE DEF f
<1>7. Conserves(Begun, v)
  BY <1>1, <1>4, <1>6, Commanded
<1> HIDE DEF v
<1> QED BY <1>1, <1>7, Executing

LEMMA CancelCalibrationKeeps == ASSUME Inv, CancelCalibration PROVE Inv'
<1> DEFINE s == IF c.session = 0 THEN Rejected ELSE EndCalibration(Begun, "cancelled")
<1>1. Takes("cancel") /\ Saves /\ Applies(s, Id) /\ channel # <<>>
  BY DEF CancelCalibration, Takes
<1>2. Conserves(Begun, s)
  BY <1>1, Commanded, EndingCalibration DEF Outcomes
<1> HIDE DEF s
<1> QED BY <1>1, <1>2, Executing

LEMMA SelectUnitKeeps == ASSUME Inv, NEW u, SelectUnit(u) PROVE Inv'
<1> DEFINE t == CancelPending(Begun, Units)
           v == [t EXCEPT !.selected = {u}]
           s == IF u \in c.units THEN v ELSE Rejected
<1>1. Takes("select") /\ Saves /\ Applies(s, Id) /\ channel # <<>>
  BY DEF SelectUnit, Takes
<1>2. Conserves(Begun, t) /\ Shape(t)
  BY <1>1, Commanded, CancellingPending, Shaped
<1> HIDE DEF t
<1>3. DOMAIN v = Fields /\ v.requests = t.requests /\ v.told = t.told
  BY <1>2 DEF Shape, Fields
<1> HIDE DEF v
<1>4. Conserves(Begun, v)
  BY <1>2, <1>3, Untouched, Chain
<1>5. Conserves(Begun, s)
  BY <1>1, <1>4, Commanded
<1> HIDE DEF s
<1> QED BY <1>1, <1>5, Executing

LEMMA SetGainLockKeeps == ASSUME Inv, SetGainLock PROVE Inv'
<1> DEFINE t == [Begun EXCEPT !.locked = FALSE]
           s == IF c.locked THEN t ELSE LockGain(Begun)
<1>1. Takes("lock") /\ channel # <<>>
      /\ ((Saves /\ Applies(s, Id)) \/ (Fault /\ Applies(Rejected, Id)))
  BY DEF SetGainLock, Takes
<1>2. Shape(Begun) /\ Conserves(Begun, Rejected)
  BY <1>1, Commanded
<1>3. DOMAIN t = Fields /\ t.requests = Begun.requests /\ t.told = Begun.told
  BY <1>2 DEF Shape, Fields
<1> HIDE DEF t
<1>4. Conserves(Begun, s)
  BY <1>2, <1>3, Untouched, LockingGain
<1> HIDE DEF s
<1> QED BY <1>1, <1>2, <1>4, Executing

LEMMA DueKeeps == ASSUME Inv, NEW key, Due(key) PROVE Inv'
<1> DEFINE id == c.pending[key]
           r == [c EXCEPT !.pending = Restrict(@, DOMAIN @ \ {key})]
           s == Waiting(r, id, FALSE)
           g == SetsGain(s, id, key)
           f == Failure(s, id, FALSE)
<1>1. /\ UNCHANGED <<admission, channel>>
      /\ Saves \/ Fault
      /\ Applies(g, id) \/ Applies(s, id) \/ Applies(f, id)
  BY DEF Due
<1>2. Shape(c)
  BY DEF Inv
<1>3. DOMAIN r = Fields /\ r.requests = c.requests /\ r.told = c.told
  BY <1>2 DEF Shape, Fields
<1> HIDE DEF r, id
<1>4. Conserves(c, s) /\ Shape(s)
  BY <1>2, <1>3, Awaiting, Then, Shaped
<1> HIDE DEF s
<1>5. Conserves(c, g)
  BY <1>4, SettingGain, Chain
<1> HIDE DEF g
<1>6. Conserves(c, f)
  BY <1>4, Failing, Chain
<1> HIDE DEF f
<1>7. Conserves(c, c')
  BY <1>1, <1>2, <1>4, <1>5, <1>6, Applying
<1>8. Steady
  BY <1>1, Steadily DEF Saves
<1> QED BY <1>1, <1>7, <1>8, Quiet

LEMMA RefuseKeeps == ASSUME Inv, Refuse PROVE Inv'
<1>1. /\ channel # <<>> /\ channel' = Tail(channel)
      /\ UNCHANGED <<admission, plan>>
      /\ c' = Finish(Begun, Id, "cancelled")
  BY DEF Refuse, Becomes
<1>2. Conserves(Begun, c')
  BY <1>1, Commanded, FinishingOne DEF Outcomes
<1> QED BY <1>1, <1>2, Steadily, Served

LEMMA HandleDeviceKeeps == ASSUME Inv, HandleDevice PROVE Inv'
<1> DEFINE e == Head(devq)
<1>1. Observing
  BY DEF HandleDevice
<1>2. PICK muted \in MayShow(e.unit) :
         Absorbs(CASE e.kind = "unit"     -> ObserveUnit(c, e.unit, muted)
                   [] e.kind = "finished" -> Finished(c, e.job, e.result, muted)
                   [] OTHER               -> UnitRetired(c, e.unit))
  BY DEF HandleDevice
<1> HIDE DEF e
<1>3. Shape(c)
  BY DEF Inv
<1>4. CASE e.kind = "unit"
  <2>1. Absorbs(ObserveUnit(c, e.unit, muted))
    BY <1>2, <1>4
  <2> QED BY <1>1, <1>3, <2>1, ObservingUnit, Observes
<1>5. CASE e.kind = "finished"
  <2>1. Absorbs(Finished(c, e.job, e.result, muted))
    BY <1>2, <1>5
  <2> QED BY <1>1, <1>3, <2>1, FinishingJob, Observes
<1>6. CASE e.kind # "unit" /\ e.kind # "finished"
  <2>1. Absorbs(UnitRetired(c, e.unit))
    BY <1>2, <1>6
  <2> QED BY <1>1, <1>3, <2>1, RetiringUnit, Observes
<1> QED BY <1>4, <1>5, <1>6

LEMMA HandleHostKeeps == ASSUME Inv, HandleHost PROVE Inv'
<1> DEFINE e == Head(hostq)
           s == IF e.result = "ok" THEN c ELSE Failure(c, e.id, e.result = "cancelled")
           t == Waiting(s, e.id, FALSE)
           v == FinishIfReady(t, e.id)
<1>1. Observing /\ Absorbs(v)
  BY DEF HandleHost
<1> HIDE DEF e
<1>2. Shape(c)
  BY DEF Inv
<1>3. Conserves(c, s) /\ Shape(s)
  BY <1>2, Stays, Failing, Shaped
<1> HIDE DEF s
<1>4. Conserves(c, t) /\ Shape(t)
  BY <1>3, Awaiting, Chain, Shaped
<1> HIDE DEF t
<1>5. Conserves(c, v)
  BY <1>4, FinishingIfReady, Chain
<1> HIDE DEF v
<1> QED BY <1>1, <1>5, Observes

LEMMA HandleCalibrationKeeps == ASSUME Inv, HandleCalibration PROVE Inv'
<1>1. Observing /\ Absorbs(CalibrationComplete(c, Head(calq))) /\ Shape(c)
  BY DEF HandleCalibration, Inv
<1> QED BY <1>1, CompletingCalibration, Observes

LEMMA HandleGraphKeeps == ASSUME Inv, HandleGraph PROVE Inv'
<1>1. PICK known, open : Absorbs(ObserveGraph(c, known, open))
  BY DEF HandleGraph
<1>2. Observing /\ Shape(c)
  BY DEF HandleGraph, Inv
<1> QED BY <1>1, <1>2, ObservingGraph, Observes

LEMMA WorkersKeep ==
    ASSUME Inv, \/ \E u \in Units : Polls(u) \/ Completes(u) \/ Retires(u)
                \/ HostAnswers \/ Records
    PROVE  Inv'
<1>1. Shape(c)
  BY DEF Inv
<1>2. ASSUME NEW u \in Units, Polls(u) PROVE Inv'
  <2>1. Working /\ UNCHANGED <<c, plan>>
    BY <1>2 DEF Polls
  <2> QED BY <1>1, <2>1, WorkerSteps DEF Shape
<1>3. ASSUME NEW u \in Units, Completes(u) PROVE Inv'
  <2>1. Working /\ UNCHANGED plan /\ c' = [c EXCEPT !.queue[u] = Tail(@)]
    BY <1>3 DEF Completes
  <2>2. DOMAIN c' = Fields /\ c'.requests = c.requests /\ c'.told = c.told
    BY <1>1, <2>1 DEF Shape, Fields
  <2> QED BY <2>1, <2>2, WorkerSteps
<1>4. ASSUME NEW u \in Units, Retires(u) PROVE Inv'
  <2>1. Working /\ Fault /\ c' = [c EXCEPT !.queue[u] = <<>>]
    BY <1>4 DEF Retires
  <2>2. DOMAIN c' = Fields /\ c'.requests = c.requests /\ c'.told = c.told
    BY <1>1, <2>1 DEF Shape, Fields
  <2> QED BY <2>1, <2>2, WorkerSteps
<1>5. CASE HostAnswers
  <2>1. Working /\ UNCHANGED plan /\ c' = [c EXCEPT !.host = Tail(@)]
    BY <1>5 DEF HostAnswers
  <2>2. DOMAIN c' = Fields /\ c'.requests = c.requests /\ c'.told = c.told
    BY <1>1, <2>1 DEF Shape, Fields
  <2> QED BY <2>1, <2>2, WorkerSteps
<1>6. CASE Records
  <2>1. Working /\ UNCHANGED plan /\ c' = [c EXCEPT !.tapes = Tail(@)]
    BY <1>6 DEF Records
  <2>2. DOMAIN c' = Fields /\ c'.requests = c.requests /\ c'.told = c.told
    BY <1>1, <2>1 DEF Shape, Fields
  <2> QED BY <2>1, <2>2, WorkerSteps
<1> QED BY <1>2, <1>3, <1>4, <1>5, <1>6

\* Starting, freezing and stopping change what is admitted, never what was.
LEMMA ClosesAdmission ==
    ASSUME Inv, NEW accepting, NEW stopped,
           admission' = [admission EXCEPT !.accepting = accepting, !.stopped = stopped],
           UNCHANGED plan \/ Fault
    PROVE  Steady
<1>1. admission = [next |-> admission.next, accepting |-> admission.accepting,
                   stopped |-> admission.stopped]
  BY DEF Inv
<1>2. admission' = [next |-> admission.next, accepting |-> accepting, stopped |-> stopped]
  BY <1>1
<1>3. plan' \in [units : SUBSET Units, menu : SUBSET Kinds,
                 commands : 0..MaxCommands, hands : BOOLEAN, faults : Nat]
  <2>1. CASE UNCHANGED plan
    BY <2>1 DEF Inv
  <2>2. CASE Fault
    <3>1. plan' = [plan EXCEPT !.faults = plan.faults - 1] /\ plan.faults > 0
      BY <2>2 DEF Fault
    <3>2. plan.faults \in Nat
      BY DEF Inv
    <3>3. plan.faults - 1 \in Nat
      BY <3>1, <3>2
    <3> QED BY <3>1, <3>3 DEF Inv
  <2> QED BY <2>1, <2>2
<1> QED BY <1>2, <1>3 DEF Steady

LEMMA StartsKeep == ASSUME Inv, StartUp \/ FailStart \/ CloseAdmission PROVE Inv'
<1>1. Shape(c) /\ Conserves(c, c)
  BY Stays DEF Inv
<1>2. CASE StartUp
  <2>1. UNCHANGED <<admission, channel, c, plan>>
    BY <1>2 DEF StartUp
  <2> QED BY <1>1, <2>1, Steadily, Quiet
<1>3. CASE FailStart
  <2>1. /\ UNCHANGED <<channel, c>> /\ Fault
        /\ admission' = [admission EXCEPT !.accepting = FALSE, !.stopped = TRUE]
    BY <1>3 DEF FailStart
  <2>2. Steady
    BY <2>1, ClosesAdmission
  <2> QED BY <1>1, <2>1, <2>2, Quiet
<1>4. CASE CloseAdmission
  <2>1. /\ UNCHANGED <<channel, c, plan>>
        /\ admission' = [admission EXCEPT !.accepting = FALSE, !.stopped = TRUE]
    BY <1>4 DEF CloseAdmission, Closed
  <2>2. Steady
    BY <2>1, ClosesAdmission
  <2> QED BY <1>1, <2>1, <2>2, Quiet
<1> QED BY <1>2, <1>3, <1>4

LEMMA BeginShutdownKeeps == ASSUME Inv, BeginShutdown PROVE Inv'
<1>1. /\ channel # <<>> /\ channel' = Tail(channel) /\ UNCHANGED plan
      /\ admission' = [admission EXCEPT !.accepting = FALSE]
      /\ c' = Frozen(Begun)
  BY DEF BeginShutdown
<1>2. admission' = [admission EXCEPT !.accepting = FALSE, !.stopped = admission.stopped]
  <2>1. admission = [next |-> admission.next, accepting |-> admission.accepting,
                     stopped |-> admission.stopped]
    BY DEF Inv
  <2> QED BY <1>1, <2>1
<1>3. Steady
  BY <1>1, <1>2, ClosesAdmission
<1>4. Conserves(Begun, c')
  BY <1>1, Commanded, Freezing
<1> QED BY <1>1, <1>3, <1>4, Served

LEMMA RefuseRemovalKeeps == ASSUME Inv, RefuseRemoval PROVE Inv'
<1>1. /\ channel # <<>> /\ channel' = Tail(channel)
      /\ UNCHANGED <<admission, plan>> /\ Applies(Rejected, Id)
  BY DEF RefuseRemoval
<1>2. Conserves(Begun, c')
  BY <1>1, Commanded, Applying
<1> QED BY <1>1, <1>2, Steadily, Served

LEMMA StopWorkersKeeps == ASSUME Inv, StopWorkers PROVE Inv'
<1>1. /\ UNCHANGED <<admission, channel>> /\ (UNCHANGED plan \/ Fault)
      /\ c' = [c EXCEPT !.queue = [u \in Units |-> <<>>], !.host = <<>>, !.tapes = <<>>]
  BY DEF StopWorkers, Saves
<1>2. Shape(c)
  BY DEF Inv
<1>3. DOMAIN c' = Fields /\ c'.requests = c.requests /\ c'.told = c.told
  BY <1>1, <1>2 DEF Shape, Fields
<1>4. Conserves(c, c')
  BY <1>2, <1>3, Untouched
<1> QED BY <1>1, <1>4, Steadily, Quiet

LEMMA ShutdownEndsKeep == ASSUME Inv, ShutdownFails \/ ShutdownDone PROVE Inv'
<1>1. /\ UNCHANGED <<admission, channel>> /\ (UNCHANGED plan \/ Fault)
      /\ \E outcome \in Outcomes : c' = Finish(Unfinished(c), closer.id, outcome)
  <2>1. CASE ShutdownFails
    BY <2>1 DEF ShutdownFails, Saves, Fault, Outcomes
  <2>2. CASE ShutdownDone
    BY <2>2 DEF ShutdownDone, Outcomes
  <2> QED BY <2>1, <2>2
<1>2. Conserves(c, c')
  BY <1>1, FinishingTheRest DEF Inv
<1> QED BY <1>1, <1>2, Steadily, Quiet

-----------------------------------------------------------------------------
(* Admission and the sweep at the end.                                     *)

LEMMA SubmitKeeps == ASSUME Inv, NEW kind \in plan.menu, Submit(kind) PROVE Inv'
<1> DEFINE new == [id |-> admission.next, kind |-> kind]
<1>1. /\ admission.next <= plan.commands
      /\ channel' = Append(channel, new)
      /\ admission' = [admission EXCEPT !.next = admission.next + 1]
      /\ UNCHANGED <<c, plan>>
  BY DEF Submit
<1>2. kind \in Kinds /\ plan.commands \in 0..MaxCommands
  BY DEF Inv
<1>3. MaxCommands \in Nat
  BY PlansAreBounded
<1>4. admission.next \in Ids /\ admission.next + 1 \in 1..MaxCommands + 1
  BY <1>1, <1>2, <1>3 DEF Inv, Ids
<1>5. new \in Messages
  BY <1>2, <1>4 DEF Messages
<1>6. /\ channel' \in Seq(Messages)
      /\ Len(channel) \in Nat
      /\ DOMAIN channel = 1..Len(channel)
      /\ DOMAIN channel' = 1..Len(channel) + 1
      /\ channel'[Len(channel) + 1] = new
      /\ \A i \in DOMAIN channel : channel'[i] = channel[i]
  <2>1. channel \in Seq(Messages)
    BY DEF Inv
  <2> HIDE DEF new
  <2> QED BY <1>1, <1>5, <2>1
<1>7. /\ admission'.next = admission.next + 1
      /\ admission' = [next |-> admission'.next, accepting |-> admission'.accepting,
                       stopped |-> admission'.stopped]
  <2>1. admission = [next |-> admission.next, accepting |-> admission.accepting,
                     stopped |-> admission.stopped]
    BY DEF Inv
  <2>2. admission' = [next |-> admission.next + 1, accepting |-> admission.accepting,
                      stopped |-> admission.stopped]
    BY <1>1, <2>1
  <2> QED BY <2>2
<1>8. ~InChannel(admission.next) /\ Owed(c, admission.next) = 0
  <2>1. admission.next \notin Admitted
    BY <1>4 DEF Admitted, Ids
  <2>2. Place(admission.next) = 0
    BY <1>4, <2>1 DEF Inv
  <2>3. Owed(c, admission.next) \in Nat
    BY <1>4, OwedIsNat DEF Inv
  <2> QED BY <2>2, <2>3 DEF Place
<1>9. \A i \in DOMAIN channel : channel[i].id # admission.next
  BY <1>8 DEF InChannel
<1>10. \A i, j \in DOMAIN channel' : channel'[i].id = channel'[j].id => i = j
  <2> SUFFICES ASSUME NEW i \in DOMAIN channel', NEW j \in DOMAIN channel',
                      channel'[i].id = channel'[j].id
               PROVE  i = j
    OBVIOUS
  <2>1. new.id = admission.next
    OBVIOUS
  <2> HIDE DEF new
  <2>2. CASE i \in DOMAIN channel /\ j \in DOMAIN channel
    BY <1>6, <2>2 DEF Inv
  <2>3. CASE i \in DOMAIN channel /\ j = Len(channel) + 1
    BY <1>6, <1>9, <2>1, <2>3
  <2>4. CASE i = Len(channel) + 1 /\ j \in DOMAIN channel
    BY <1>6, <1>9, <2>1, <2>4
  <2>5. CASE i = Len(channel) + 1 /\ j = Len(channel) + 1
    BY <2>5
  <2> QED BY <1>6, <2>2, <2>3, <2>4, <2>5
<1>11. ASSUME NEW id \in Ids PROVE Place(id)' = IF id \in Admitted' THEN 1 ELSE 0
  <2>1. Admitted' = 1..admission.next
    BY <1>4, <1>7 DEF Admitted, Ids
  <2>2. new.id = admission.next
    OBVIOUS
  <2> HIDE DEF new
  <2>3. CASE id = admission.next
    <3>1. InChannel(id)'
      <4>1. Len(channel) + 1 \in DOMAIN channel'
        BY <1>6
      <4> QED BY <1>6, <2>2, <2>3, <4>1 DEF InChannel
    <3>2. Place(id)' = 1
      BY <1>1, <1>8, <2>3, <3>1 DEF Place
    <3>3. id \in Admitted'
      BY <1>4, <2>1, <2>3 DEF Ids
    <3> QED BY <3>2, <3>3
  <2>4. CASE id # admission.next
    <3>1. InChannel(id)' => InChannel(id)
      <4> SUFFICES ASSUME NEW i \in DOMAIN channel', channel'[i].id = id PROVE InChannel(id)
        BY DEF InChannel
      <4>1. i \in DOMAIN channel
        BY <1>6, <2>2, <2>4
      <4> QED BY <1>6, <4>1 DEF InChannel
    <3>2. InChannel(id) => InChannel(id)'
      <4> SUFFICES ASSUME NEW i \in DOMAIN channel, channel[i].id = id PROVE InChannel(id)'
        BY DEF InChannel
      <4>1. i \in DOMAIN channel' /\ channel'[i].id = id
        BY <1>6
      <4> QED BY <4>1 DEF InChannel
    <3>3. Place(id)' = Place(id)
      BY <1>1, <3>1, <3>2 DEF Place
    <3>4. id \in Admitted' <=> id \in Admitted
      <4>1. PICK n \in Nat : n = admission.next
        BY <1>3, <1>4 DEF Ids
      <4>2. id \in Nat /\ Admitted = 1..n - 1 /\ Admitted' = 1..n
        BY <1>3, <2>1, <4>1 DEF Ids, Admitted
      <4> QED BY <2>4, <4>1, <4>2
    <3> QED BY <3>3, <3>4 DEF Inv
  <2> QED BY <2>3, <2>4
<1>12. Shape(c)' /\ plan' = plan
  BY <1>1 DEF Inv
<1> QED BY <1>4, <1>6, <1>7, <1>10, <1>11, <1>12 DEF Inv

LEMMA SweepKeeps == ASSUME Inv, Sweep PROVE Inv'
<1> DEFINE outcome == IF at = "sweeping" THEN "cancelled" ELSE "rejected"
           ids == {channel[i].id : i \in DOMAIN channel}
<1>1. /\ c' = [c EXCEPT !.told = [id \in Ids |-> IF id \in ids THEN Append(c.told[id], outcome)
                                                   ELSE c.told[id]]]
      /\ channel' = <<>> /\ UNCHANGED <<admission, plan>>
  BY DEF Sweep
<1>2. outcome \in Outcomes
  BY DEF Outcomes
<1>3. \A id : id \in ids <=> InChannel(id)
  BY DEF InChannel
<1> HIDE DEF outcome, ids
<1>4. Shape(c)
  BY DEF Inv
<1>5. /\ DOMAIN c' = Fields /\ c'.requests = c.requests
      /\ c'.told = [id \in Ids |-> IF id \in ids THEN Append(c.told[id], outcome)
                                   ELSE c.told[id]]
  BY <1>1, <1>4 DEF Shape, Fields
<1>6. ASSUME NEW id \in Ids
      PROVE  /\ c'.told[id] \in Seq(Outcomes)
             /\ Place(id)' = Place(id)
  <2>1. c.told[id] \in Seq(Outcomes)
    BY <1>4 DEF Shape
  <2>2. ~InChannel(id)'
    BY <1>1 DEF InChannel
  <2>3. Place(id)' = Owed(c', id) /\ Owed(c', id) \in Nat /\ Owed(c, id) \in Nat
        => Place(id)' = Place(id)
    <3>1. CASE id \in ids
      <4>1. c'.told[id] = Append(c.told[id], outcome)
        BY <1>5, <3>1
      <4>2. Len(c'.told[id]) = Len(c.told[id]) + 1 /\ Len(c.told[id]) \in Nat
        BY <1>2, <2>1, <4>1
      <4>3. Owed(c', id) = Owed(c, id) + 1
        <5>1. PICK n \in Nat : n = Len(c.told[id])
          BY <4>2
        <5>2. PICK open \in Nat : open = IF id \in DOMAIN c.requests THEN 1 ELSE 0
          OBVIOUS
        <5>3. Owed(c, id) = open + n
          BY <5>1, <5>2 DEF Owed
        <5>4. Len(c'.told[id]) = n + 1
          BY <4>2, <5>1
        <5>5. Owed(c', id) = open + (n + 1)
          BY <1>5, <5>2, <5>4 DEF Owed
        <5> QED BY <5>3, <5>5
      <4>4. Place(id) = 1 + Owed(c, id)
        BY <1>3, <3>1 DEF Place
      <4> QED BY <4>3, <4>4
    <3>2. CASE id \notin ids
      <4>1. c'.told[id] = c.told[id]
        BY <1>5, <3>2
      <4>2. Owed(c', id) = Owed(c, id)
        BY <1>5, <4>1 DEF Owed
      <4>3. Place(id) = 0 + Owed(c, id)
        BY <1>3, <3>2 DEF Place
      <4> QED BY <4>2, <4>3
    <3> QED BY <3>1, <3>2
  <2>4. c'.told[id] \in Seq(Outcomes)
    BY <1>2, <1>5, <2>1
  <2>5. Owed(c, id) \in Nat
    BY <1>4, OwedIsNat
  <2>6. Owed(c', id) \in Nat
    <3>1. Len(c'.told[id]) \in Nat
      BY <2>4
    <3>2. Owed(c', id) = 1 + Len(c'.told[id]) \/ Owed(c', id) = 0 + Len(c'.told[id])
      BY DEF Owed
    <3> QED BY <3>1, <3>2
  <2>7. Place(id)' = Owed(c', id)
    <3>1. Place(id)' = 0 + Owed(c', id)
      BY <2>2 DEF Place
    <3> QED BY <2>6, <3>1
  <2> QED BY <2>3, <2>4, <2>5, <2>6, <2>7
<1>7. Shape(c')
  <2>1. c'.told \in [Ids -> Seq(Outcomes)]
    BY <1>5, <1>6
  <2> QED BY <1>4, <1>5, <2>1 DEF Shape
<1>8. channel' \in Seq(Messages) /\ \A i, j \in DOMAIN channel' : i = j
  BY <1>1
<1> QED BY <1>1, <1>6, <1>7, <1>8 DEF Inv, Admitted

-----------------------------------------------------------------------------

LEMMA InitInv == Init => Inv
<1> SUFFICES ASSUME Init PROVE Inv
  OBVIOUS
<1>1. MaxCommands \in Nat
  BY PlansAreBounded
<1>2. /\ admission.next = 1
      /\ admission = [next |-> admission.next, accepting |-> admission.accepting,
                      stopped |-> admission.stopped]
      /\ channel = <<>>
  BY DEF Init
<1>3. plan \in [units : SUBSET Units, menu : SUBSET Kinds,
                commands : 0..MaxCommands, hands : BOOLEAN, faults : Nat]
  BY PlansAreBounded DEF Init
<1>4. DOMAIN c = Fields /\ c.requests = <<>> /\ c.told = [id \in Ids |-> <<>>]
  BY DEF Init, Fields
<1>5. DOMAIN c.requests = {}
  BY <1>4
<1>6. Shape(c)
  BY <1>4, <1>5 DEF Shape
<1>7. ASSUME NEW id \in Ids PROVE Place(id) = 0 /\ id \notin Admitted
  <2>1. Len(c.told[id]) = 0
    BY <1>4
  <2>2. Owed(c, id) = 0
    BY <1>5, <2>1 DEF Owed
  <2>3. ~InChannel(id)
    BY <1>2 DEF InChannel
  <2> QED BY <1>2, <2>2, <2>3 DEF Place, Admitted
<1>8. channel \in Seq(Messages) /\ \A i, j \in DOMAIN channel : i = j
  BY <1>2
<1> QED BY <1>1, <1>2, <1>3, <1>6, <1>7, <1>8 DEF Inv

LEMMA NextInv == Inv /\ [Next]_vars => Inv'
<1> SUFFICES ASSUME Inv, [Next]_vars PROVE Inv'
  OBVIOUS
<1>1. CASE UNCHANGED vars
  <2>1. Conserves(c, c)
    BY Stays DEF Inv
  <2> QED BY <1>1, <2>1, Steadily, Quiet DEF vars
<1>2. ASSUME Inv, Execute PROVE Inv'
  BY <1>2, DragKeeps, SetGainKeeps, SelectUnitKeeps, SetRowKeeps, ApplySceneKeeps,
     DragFxKeeps, EditFxKeeps, AskHostKeeps, SetGainLockKeeps, StartCalibrationKeeps,
     RecordKeeps, CancelCalibrationKeeps, RefuseKeeps, RefuseRemovalKeeps,
     BeginShutdownKeeps DEF Execute
<1>3. ASSUME Inv, Closing PROVE Inv'
  BY <1>3, StopWorkersKeeps, ShutdownEndsKeep, StartsKeep, SweepKeeps DEF Closing
<1>4. ASSUME Inv, Next PROVE Inv'
  BY <1>2, <1>3, <1>4, SubmitKeeps, DueKeeps, HandleDeviceKeeps, HandleHostKeeps,
     HandleCalibrationKeeps, HandleGraphKeeps, WorkersKeep, StartsKeep DEF Next
<1> QED BY <1>1, <1>4

\* Every admitted command is in the channel, or open, or answered exactly once,
\* whatever the units, the rows, the plans, and the order of events.
THEOREM EveryCommandInOnePlace == Spec => []OnePlace
<1>1. Spec => []Inv
  BY InitInv, NextInv, PTL DEF Spec
<1> QED BY <1>1, InvMeansOnePlace, PTL

-----------------------------------------------------------------------------
(* What a command waits for.  A job of an open command is in the set of    *)
(* jobs that remain to it; a command whose edit or recording is not sent   *)
(* has no job.  Handlers are followed with w: the commands held and the    *)
(* answers given before, and the commands taken from the channel; me is    *)
(* the command that is handled, 0 once its own work is dispatched.         *)

RequestFields == {"scene", "waiting", "remaining", "failed", "cancelled"}
JobFields == {"owner", "unit", "sets", "held"}

Owns(s, id) == \E k \in DOMAIN s.jobs : s.jobs[k].owner = id

Unsent(s, id) == (\E k \in DOMAIN s.pending : s.pending[k] = id) \/ s.recording = id

Tracked(s) ==
    /\ \A id \in DOMAIN s.requests : DOMAIN s.requests[id] = RequestFields
    /\ \A k \in DOMAIN s.jobs :
          /\ DOMAIN s.jobs[k] = JobFields
          /\ s.jobs[k].owner \in DOMAIN s.requests
               => k \in s.requests[s.jobs[k].owner].remaining

Apart(s) ==
    /\ \A k \in DOMAIN s.pending : s.pending[k] \in Ids /\ s.pending[k] # s.recording
    /\ \A k, l \in DOMAIN s.pending : s.pending[k] = s.pending[l] => k = l

Watched(s, me, w) ==
    /\ Shape(s) /\ Tracked(s) /\ Apart(s)
    /\ \A id \in Ids : Unsent(s, id) => id # me /\ ~Owns(s, id) /\ id \in w.taken
    /\ \A id \in Ids : Owns(s, id) => id \in w.taken
    /\ \A id \in Ids : s.told[id] # w.told[id] => id # me /\ (id \in w.held \/ ~Owns(s, id))

LEMMA WatchedShape == ASSUME NEW s, NEW me, NEW w, Watched(s, me, w) PROVE Shape(s)
  BY DEF Watched

LEMMA Dispatched ==
    ASSUME NEW s, NEW me, NEW w, Watched(s, me, w) PROVE Watched(s, 0, w)
<1>1. \A id \in Ids : id # 0
  BY DEF Ids
<1> QED BY <1>1 DEF Watched

\* A step that leaves jobs, unsent work and answers alone.
LEMMA Inheriting ==
    ASSUME NEW s, NEW t, NEW me, NEW w, Watched(s, me, w), DOMAIN t = Fields,
           t.jobs = s.jobs, t.pending = s.pending, t.recording = s.recording,
           t.told = s.told, DOMAIN t.requests = DOMAIN s.requests,
           \A id \in DOMAIN t.requests :
              /\ DOMAIN t.requests[id] = RequestFields
              /\ t.requests[id].remaining = s.requests[id].remaining
    PROVE  Watched(t, me, w)
<1>1. Shape(t)
  BY DEF Watched, Shape
<1>2. Tracked(t)
  BY DEF Watched, Tracked
<1>3. Apart(t)
  BY DEF Watched, Apart
<1>4. \A id : (Unsent(t, id) <=> Unsent(s, id)) /\ (Owns(t, id) <=> Owns(s, id))
  BY DEF Unsent, Owns
<1> QED BY <1>1, <1>2, <1>3, <1>4 DEF Watched

\* The same, of a step that leaves the requests alone too.
LEMMA Sparing ==
    ASSUME NEW s, NEW t, NEW me, NEW w, Watched(s, me, w), DOMAIN t = Fields,
           t.jobs = s.jobs, t.pending = s.pending, t.recording = s.recording,
           t.told = s.told, t.requests = s.requests
    PROVE  Watched(t, me, w)
<1>1. \A id \in DOMAIN t.requests :
         /\ DOMAIN t.requests[id] = RequestFields
         /\ t.requests[id].remaining = s.requests[id].remaining
  BY DEF Watched, Tracked
<1>2. DOMAIN t.requests = DOMAIN s.requests
  OBVIOUS
<1> QED BY <1>1, <1>2, Inheriting

LEMMA TellingEach ==
    ASSUME NEW s, NEW me, NEW w, Watched(s, me, w), NEW ids, NEW outcome,
           \A id \in ids \cap DOMAIN s.requests :
              outcome[id] \in Outcomes /\ id # me /\ (id \in w.held \/ ~Owns(s, id))
    PROVE  /\ Watched(FinishEach(s, ids, outcome), me, w)
           /\ FinishEach(s, ids, outcome).held = s.held
<1> DEFINE open == ids \cap DOMAIN s.requests
           t == FinishEach(s, ids, outcome)
<1>0. Shape(s)
  BY DEF Watched
<1>1. CASE open = {}
  BY <1>1 DEF FinishEach
<1>2. CASE open # {}
  <2>1. /\ DOMAIN t = Fields
        /\ t.requests = Restrict(s.requests, DOMAIN s.requests \ open)
        /\ t.told = Over([id \in open |-> Append(s.told[id], outcome[id])], s.told)
        /\ t.jobs = s.jobs /\ t.pending = s.pending /\ t.recording = s.recording
        /\ t.held = s.held
    BY <1>0, <1>2 DEF FinishEach, Shape, Fields
  <2>2. Shape(t)
    BY <1>0, FinishingEach, Shaped
  <2>3. /\ DOMAIN t.requests = DOMAIN s.requests \ open
        /\ \A id \in DOMAIN t.requests : t.requests[id] = s.requests[id]
    BY <2>1 DEF Restrict
  <2>4. \A id \in Ids \ open : t.told[id] = s.told[id]
    BY <1>0, <2>1 DEF Over, Shape
  <2> HIDE DEF t
  <2>5. Tracked(t)
    BY <2>1, <2>3 DEF Watched, Tracked
  <2>6. Apart(t)
    BY <2>1 DEF Watched, Apart
  <2>7. \A id : (Unsent(t, id) <=> Unsent(s, id)) /\ (Owns(t, id) <=> Owns(s, id))
    BY <2>1 DEF Unsent, Owns
  <2>8. ASSUME NEW id \in Ids, t.told[id] # w.told[id]
        PROVE  id # me /\ (id \in w.held \/ ~Owns(t, id))
    <3>1. CASE id \in open
      BY <2>7, <3>1
    <3>2. CASE id \notin open
      BY <2>4, <2>7, <2>8, <3>2 DEF Watched
    <3> QED BY <3>1, <3>2
  <2> QED BY <2>1, <2>2, <2>5, <2>6, <2>7, <2>8 DEF Watched, t
<1> QED BY <1>1, <1>2

LEMMA TellingAll ==
    ASSUME NEW s, NEW me, NEW w, Watched(s, me, w), NEW ids, NEW outcome \in Outcomes,
           \A id \in ids \cap DOMAIN s.requests : id # me /\ (id \in w.held \/ ~Owns(s, id))
    PROVE  /\ Watched(FinishAll(s, ids, outcome), me, w)
           /\ FinishAll(s, ids, outcome).held = s.held
<1> DEFINE told == [id \in ids |-> outcome]
<1>1. \A id \in ids \cap DOMAIN s.requests : told[id] \in Outcomes
  OBVIOUS
<1> HIDE DEF told
<1>2. /\ Watched(FinishEach(s, ids, told), me, w)
      /\ FinishEach(s, ids, told).held = s.held
  BY <1>1, TellingEach
<1> QED BY <1>2 DEF told, FinishAll

LEMMA TellingOne ==
    ASSUME NEW s, NEW me, NEW w, Watched(s, me, w), NEW id, NEW outcome \in Outcomes,
           id \in DOMAIN s.requests => id # me /\ (id \in w.held \/ ~Owns(s, id))
    PROVE  /\ Watched(Finish(s, id, outcome), me, w)
           /\ Finish(s, id, outcome).held = s.held
  BY TellingAll DEF Finish

\* Who is ready has no job left.
LEMMA ReadyOwnsNothing ==
    ASSUME NEW s, Tracked(s), NEW id, Ready(s, id) PROVE ~Owns(s, id)
  BY DEF Ready, Owns, Tracked

LEMMA TellingIfReady ==
    ASSUME NEW s, NEW w, Watched(s, 0, w), NEW id
    PROVE  Watched(FinishIfReady(s, id), 0, w)
<1>1. CASE Ready(s, id)
  <2>1. ~Owns(s, id) /\ id \in Ids /\ id # 0
    BY <1>1, ReadyOwnsNothing DEF Watched, Ready, Shape, Ids
  <2> QED BY <1>1, <2>1, TellingOne, OutcomeKnown DEF FinishIfReady
<1> QED BY <1>1 DEF FinishIfReady

LEMMA TellingReady ==
    ASSUME NEW s, NEW w, Watched(s, 0, w), NEW ids
    PROVE  Watched(FinishReady(s, ids), 0, w)
<1> DEFINE ready == {id \in ids : Ready(s, id)}
           told == [id \in ready |-> Outcome(s.requests[id])]
<1>1. \A id \in ready \cap DOMAIN s.requests :
         told[id] \in Outcomes /\ id # 0 /\ ~Owns(s, id)
  BY OutcomeKnown, ReadyOwnsNothing DEF Watched, Shape, Ids
<1>2. FinishReady(s, ids) = FinishEach(s, ready, told)
  BY DEF FinishReady
<1> HIDE DEF ready, told
<1> QED BY <1>1, <1>2, TellingEach

-----------------------------------------------------------------------------
(* Helpers, followed with w.                                               *)

LEMMA FailureWatched ==
    ASSUME NEW s, NEW me, NEW w, Watched(s, me, w), NEW id, NEW cancelled
    PROVE  /\ Watched(Failure(s, id, cancelled), me, w)
           /\ Failure(s, id, cancelled).held = s.held
<1> DEFINE t == Failure(s, id, cancelled)
<1>0. Shape(s) /\ Tracked(s)
  BY DEF Watched
<1>1. CASE id \notin DOMAIN s.requests
  BY <1>1 DEF Failure
<1>2. CASE id \in DOMAIN s.requests
  <2>1. /\ DOMAIN t = Fields /\ DOMAIN t.requests = DOMAIN s.requests /\ t.told = s.told
        /\ t.jobs = s.jobs /\ t.pending = s.pending /\ t.recording = s.recording
        /\ t.held = s.held
    BY <1>0, <1>2 DEF Failure, Shape, Fields
  <2>2. ASSUME NEW x \in DOMAIN t.requests
        PROVE  /\ DOMAIN t.requests[x] = RequestFields
               /\ t.requests[x].remaining = s.requests[x].remaining
    <3>1. x \in DOMAIN s.requests /\ DOMAIN s.requests[x] = RequestFields
      BY <1>0, <2>1 DEF Tracked
    <3> QED BY <1>0, <1>2, <3>1 DEF Failure, Shape, Fields, RequestFields
  <2> HIDE DEF t
  <2>3. Watched(t, me, w)
    BY <2>1, <2>2, Inheriting
  <2> QED BY <2>1, <2>3 DEF t
<1> QED BY <1>1, <1>2

LEMMA WaitingWatched ==
    ASSUME NEW s, NEW me, NEW w, Watched(s, me, w), NEW id, NEW waiting
    PROVE  /\ Watched(Waiting(s, id, waiting), me, w)
           /\ Waiting(s, id, waiting).held = s.held
<1> DEFINE t == Waiting(s, id, waiting)
<1>0. Shape(s) /\ Tracked(s)
  BY DEF Watched
<1>1. CASE id \notin DOMAIN s.requests
  BY <1>1 DEF Waiting
<1>2. CASE id \in DOMAIN s.requests
  <2>1. /\ DOMAIN t = Fields /\ DOMAIN t.requests = DOMAIN s.requests /\ t.told = s.told
        /\ t.jobs = s.jobs /\ t.pending = s.pending /\ t.recording = s.recording
        /\ t.held = s.held
    BY <1>0, <1>2 DEF Waiting, Shape, Fields
  <2>2. ASSUME NEW x \in DOMAIN t.requests
        PROVE  /\ DOMAIN t.requests[x] = RequestFields
               /\ t.requests[x].remaining = s.requests[x].remaining
    <3>1. x \in DOMAIN s.requests /\ DOMAIN s.requests[x] = RequestFields
      BY <1>0, <2>1 DEF Tracked
    <3> QED BY <1>0, <1>2, <3>1 DEF Waiting, Shape, Fields, RequestFields
  <2> HIDE DEF t
  <2>3. Watched(t, me, w)
    BY <2>1, <2>2, Inheriting
  <2> QED BY <2>1, <2>3 DEF t
<1> QED BY <1>1, <1>2

\* Fewer edits and recordings are unsent, and nothing else is touched.
LEMMA Dropping ==
    ASSUME NEW s, NEW t, NEW me, NEW w, Watched(s, me, w), DOMAIN t = Fields,
           t.jobs = s.jobs, t.told = s.told, t.requests = s.requests,
           t.recording \in {s.recording, 0},
           DOMAIN t.pending \subseteq DOMAIN s.pending,
           \A k \in DOMAIN t.pending : t.pending[k] = s.pending[k]
    PROVE  Watched(t, me, w)
<1>1. /\ DOMAIN t.pending \subseteq DOMAIN s.pending
      /\ \A k \in DOMAIN t.pending : t.pending[k] = s.pending[k]
  OBVIOUS
<1>2. Shape(t)
  BY DEF Watched, Shape
<1>3. Tracked(t)
  BY DEF Watched, Tracked
<1>4. \A id \in Ids : id # 0
  BY DEF Ids
<1>5. Apart(t)
  BY <1>1, <1>4 DEF Watched, Apart
<1>6. \A id : Owns(t, id) <=> Owns(s, id)
  BY DEF Owns
<1>7. \A id \in Ids : Unsent(t, id) => Unsent(s, id)
  BY <1>1, <1>4 DEF Unsent
<1> QED BY <1>2, <1>3, <1>5, <1>6, <1>7 DEF Watched

LEMMA CancelPendingWatched ==
    ASSUME NEW s, NEW me, NEW w, Watched(s, me, w), NEW keys
    PROVE  /\ Watched(CancelPending(s, keys), me, w)
           /\ CancelPending(s, keys).held = s.held
<1> DEFINE gone == DOMAIN s.pending \cap keys
           t == [s EXCEPT !.pending = Restrict(@, DOMAIN @ \ gone)]
           ids == {s.pending[k] : k \in gone}
<1>0. Shape(s)
  BY DEF Watched
<1>1. /\ DOMAIN t = Fields /\ t.requests = s.requests /\ t.told = s.told
      /\ t.jobs = s.jobs /\ t.recording = s.recording /\ t.held = s.held
      /\ DOMAIN t.pending \subseteq DOMAIN s.pending
      /\ \A k \in DOMAIN t.pending : t.pending[k] = s.pending[k]
  BY <1>0 DEF Shape, Fields, Restrict
<1>2. CancelPending(s, keys) = FinishAll(t, ids, "cancelled")
  BY DEF CancelPending
<1>3. \A id \in ids : Unsent(s, id)
  BY DEF Unsent
<1> HIDE DEF t, ids, gone
<1>4. Watched(t, me, w)
  BY <1>1, Dropping
<1>5. \A id \in ids \cap DOMAIN t.requests : id # me /\ ~Owns(t, id)
  <2>1. \A id : Owns(t, id) <=> Owns(s, id)
    BY <1>1 DEF Owns
  <2> QED BY <1>0, <1>1, <1>3, <2>1 DEF Watched, Shape
<1> QED BY <1>1, <1>2, <1>4, <1>5, TellingAll DEF Outcomes

\* The edit that is deferred has no job, and is the last work of its command.
LEMMA DeferWatched ==
    ASSUME NEW s, NEW me \in Ids, NEW w, Watched(s, me, w), me \in w.taken,
           ~Owns(s, me), NEW key
    PROVE  Watched(Defer(s, key, me), 0, w)
<1> DEFINE t == Waiting(s, me, TRUE)
           u == [t EXCEPT !.pending = Put(key, me, @),
                          !.intents = IF key \in Units THEN Put(<<key, "gain">>, me, @)
                                      ELSE @]
<1>0. Watched(t, me, w) /\ Shape(t) /\ t.pending = s.pending /\ ~Owns(t, me)
  <2>1. Watched(t, me, w)
    BY WaitingWatched
  <2>2. t.pending = s.pending /\ t.jobs = s.jobs
    BY DEF Waiting, Watched, Shape, Fields
  <2> QED BY <2>1, <2>2, WatchedShape DEF Owns
<1>1. Defer(s, key, me) = IF key \in DOMAIN s.pending THEN Finish(u, s.pending[key], "cancelled")
                          ELSE u
  BY DEF Defer
<1> HIDE DEF t
<1>2. /\ DOMAIN u = Fields /\ u.requests = t.requests /\ u.told = t.told
      /\ u.jobs = t.jobs /\ u.recording = t.recording
      /\ DOMAIN u.pending = DOMAIN t.pending \cup {key}
      /\ u.pending[key] = me
      /\ \A k \in DOMAIN t.pending \ {key} : u.pending[k] = t.pending[k]
  BY <1>0 DEF Shape, Fields, Put
<1> HIDE DEF u
<1>3. me # 0 /\ \A id \in Ids : id # 0
  BY DEF Ids
<1>4. ~Unsent(t, me)
  BY <1>0 DEF Watched
<1>5. \A id \in Ids : Unsent(u, id) => Unsent(t, id) \/ id = me
  BY <1>2 DEF Unsent
<1>6. \A id : Owns(u, id) <=> Owns(t, id)
  BY <1>2 DEF Owns
<1>7. Watched(u, 0, w)
  <2>1. Shape(u)
    BY <1>0, <1>2 DEF Shape
  <2>2. Tracked(u)
    BY <1>0, <1>2 DEF Watched, Tracked
  <2>3. Apart(u)
    BY <1>0, <1>2, <1>4 DEF Watched, Apart, Unsent
  <2> QED BY <1>0, <1>2, <1>3, <1>5, <1>6, <2>1, <2>2, <2>3 DEF Watched
<1>8. CASE key \in DOMAIN s.pending
  <2>1. Unsent(t, s.pending[key]) /\ s.pending[key] \in Ids
    BY <1>0, <1>8 DEF Unsent, Watched, Apart
  <2>2. ~Owns(u, s.pending[key]) /\ s.pending[key] # 0
    BY <1>0, <1>3, <1>6, <2>1 DEF Watched
  <2>3. Watched(Finish(u, s.pending[key], "cancelled"), 0, w)
    BY <1>7, <2>2, TellingOne DEF Outcomes
  <2> QED BY <1>1, <1>8, <2>3
<1> QED BY <1>1, <1>7, <1>8

LEMMA QueueDeviceWatched ==
    ASSUME NEW s, NEW me, NEW w, Watched(s, me, w), me \in w.taken,
           NEW u, NEW sets, NEW taking
    PROVE  /\ Watched(QueueDevice(s, me, u, sets, taking), me, w)
           /\ QueueDevice(s, me, u, sets, taking).held = s.held
<1> DEFINE q == QueueDevice(s, me, u, sets, taking)
           held == "mute" \in sets /\ u \in s.open /\ s.handover # "none"
           job == [owner |-> me, unit |-> u, sets |-> sets, held |-> held]
           t == [s EXCEPT
            !.nextJob = @ + 1,
            !.jobs = Put(s.nextJob, job, @),
            !.queue[u] = IF held THEN @ ELSE Append(@, s.nextJob),
            !.requests[me].remaining = @ \cup {s.nextJob},
            !.intents = Over([k \in {<<u, f>> : f \in sets} |-> me], @)]
<1>0. Shape(s) /\ Tracked(s)
  BY DEF Watched
<1>1. q = Failure(s, me, FALSE) \/ q = t
  BY DEF QueueDevice
<1>2. /\ DOMAIN t = Fields /\ DOMAIN t.requests = DOMAIN s.requests /\ t.told = s.told
      /\ t.pending = s.pending /\ t.recording = s.recording /\ t.held = s.held
      /\ t.jobs = Put(s.nextJob, job, s.jobs)
  BY <1>0 DEF Shape, Fields
<1>3. DOMAIN job = JobFields /\ job.owner = me
  BY DEF JobFields
<1>4. ASSUME NEW x \in DOMAIN s.requests
      PROVE  /\ DOMAIN t.requests[x] = RequestFields
             /\ s.requests[x].remaining \subseteq t.requests[x].remaining
             /\ x = me => s.nextJob \in t.requests[x].remaining
  <2>1. DOMAIN s.requests[x] = RequestFields
    BY <1>0 DEF Tracked
  <2> HIDE DEF job, held
  <2>2. x # me => t.requests[x] = s.requests[x]
    BY <1>0 DEF Shape, Fields
  <2>3. x = me => t.requests[x] = [s.requests[x] EXCEPT
                                     !.remaining = s.requests[x].remaining \cup {s.nextJob}]
    BY <1>0 DEF Shape, Fields
  <2> HIDE DEF t
  <2>4. CASE x = me
    <3>1. t.requests[x].remaining = s.requests[x].remaining \cup {s.nextJob}
      BY <2>1, <2>3, <2>4 DEF RequestFields
    <3> QED BY <2>1, <2>3, <2>4, <3>1
  <2> QED BY <2>1, <2>2, <2>4
<1> HIDE DEF t, job, held
<1>5. /\ DOMAIN t.jobs = DOMAIN s.jobs \cup {s.nextJob}
      /\ t.jobs[s.nextJob] = job
      /\ \A k \in DOMAIN s.jobs \ {s.nextJob} : t.jobs[k] = s.jobs[k]
  BY <1>2 DEF Put
<1>6. Watched(t, me, w)
  <2>1. Shape(t)
    BY <1>0, <1>2 DEF Shape
  <2>2. Tracked(t)
    <3>1. ASSUME NEW k \in DOMAIN t.jobs
          PROVE  /\ DOMAIN t.jobs[k] = JobFields
                 /\ t.jobs[k].owner \in DOMAIN t.requests
                      => k \in t.requests[t.jobs[k].owner].remaining
      <4>1. CASE k = s.nextJob
        BY <1>2, <1>3, <1>4, <1>5, <4>1
      <4>2. CASE k # s.nextJob
        BY <1>0, <1>2, <1>4, <1>5, <4>2 DEF Tracked
      <4> QED BY <4>1, <4>2
    <3> QED BY <1>2, <1>4, <3>1 DEF Tracked
  <2>3. Apart(t)
    BY <1>2 DEF Watched, Apart
  <2>4. \A id : Unsent(t, id) <=> Unsent(s, id)
    BY <1>2 DEF Unsent
  <2>5. \A id : Owns(t, id) => Owns(s, id) \/ id = me
    BY <1>3, <1>5 DEF Owns
  <2> QED BY <1>2, <2>1, <2>2, <2>3, <2>4, <2>5 DEF Watched
<1>7. /\ Watched(Failure(s, me, FALSE), me, w)
      /\ Failure(s, me, FALSE).held = s.held
  BY FailureWatched
<1>8. Watched(q, me, w) /\ q.held = s.held
  <2> HIDE DEF q
  <2> QED BY <1>1, <1>2, <1>6, <1>7
<1> QED BY <1>8

LEMMA QueueCaptureWatched ==
    ASSUME NEW s, NEW me, NEW w, Watched(s, me, w), NEW id,
           \A x \in s.held \ {id, 0} : x \in w.held /\ x # me
    PROVE  Watched(QueueCapture(s, id), me, w)
<1> DEFINE t == [s EXCEPT !.held = {id}]
           ids == s.held \ {id, 0}
<1>0. Shape(s)
  BY DEF Watched
<1>1. /\ DOMAIN t = Fields /\ t.requests = s.requests /\ t.told = s.told
      /\ t.jobs = s.jobs /\ t.pending = s.pending /\ t.recording = s.recording
  BY <1>0 DEF Shape, Fields
<1>2. \/ QueueCapture(s, id) = FinishAll(t, ids, "cancelled")
      \/ QueueCapture(s, id) = s
      \/ QueueCapture(s, id) = Failure(s, id, FALSE)
  BY DEF QueueCapture
<1>3. \A x \in ids : x \in w.held /\ x # me
  OBVIOUS
<1> HIDE DEF t, ids
<1>4. Watched(t, me, w)
  BY <1>1, Sparing
<1>5. Watched(FinishAll(t, ids, "cancelled"), me, w)
  BY <1>3, <1>4, TellingAll DEF Outcomes
<1>6. Watched(Failure(s, id, FALSE), me, w)
  BY FailureWatched
<1> QED BY <1>2, <1>5, <1>6

LEMMA CommitWatched ==
    ASSUME NEW s, NEW me, NEW w, Watched(s, me, w), NEW open
    PROVE  /\ Watched(Commit(s, open), me, w)
           /\ Commit(s, open).held = s.held
<1> DEFINE t == Commit(s, open)
<1>0. Shape(s)
  BY DEF Watched
<1>1. /\ DOMAIN t = Fields /\ t.requests = s.requests /\ t.told = s.told
      /\ t.jobs = s.jobs /\ t.pending = s.pending /\ t.recording = s.recording
      /\ t.held = s.held
  BY <1>0 DEF Commit, Shape, Fields
<1> HIDE DEF t
<1>2. Watched(t, me, w)
  BY <1>1, Sparing
<1> QED BY <1>1, <1>2 DEF t

LEMMA MirrorWatched ==
    ASSUME NEW s, NEW me, NEW w, Watched(s, me, w), me = 0 \/ me \in w.taken,
           NEW us, NEW taking
    PROVE  /\ Watched(Mirror(s, me, us, taking), me, w)
           /\ Mirror(s, me, us, taking).held = s.held
  BY QueueDeviceWatched DEF Mirror

LEMMA SyncMutesWatched ==
    ASSUME NEW s, NEW me, NEW w, Watched(s, me, w), me = 0 \/ me \in w.taken,
           s.held \subseteq w.held \cup {me, 0},
           NEW before, NEW excluded, NEW taking
    PROVE  Watched(SyncMutes(s, before, me, excluded, taking), me, w)
<1> DEFINE changed == (before \ s.open) \cup (s.open \ before)
           units == (changed \cap Units) \ excluded
           t == Mirror(s, me, units \ s.open, taking)
           done == Mirror(t, me, units \cap s.open, taking)
<1>1. Watched(t, me, w) /\ t.held = s.held
  BY MirrorWatched
<1>2. \/ SyncMutes(s, before, me, excluded, taking) = done
      \/ SyncMutes(s, before, me, excluded, taking) = QueueCapture(done, me)
  BY DEF SyncMutes
<1> HIDE DEF t
<1>3. Watched(done, me, w) /\ done.held = s.held
  BY <1>1, MirrorWatched
<1> HIDE DEF done
<1>4. Watched(QueueCapture(done, me), me, w)
  BY <1>3, QueueCaptureWatched
<1> QED BY <1>2, <1>3, <1>4

LEMMA SettleJobsWatched ==
    ASSUME NEW s, NEW w, Watched(s, 0, w), NEW order, NEW taking
    PROVE  Watched(SettleJobs(s, order, taking), 0, w)
<1> DEFINE cancelled == {k \in Held(s) : Superseded(s, s.jobs[k])}
           going  == {k \in Free(s) : s.jobs[k].unit \in taking}
           gone   == cancelled \cup (Free(s) \ going)
           owners(ks) == {s.jobs[k].owner : k \in ks}
           blamed == owners(gone) \cap DOMAIN s.requests
           t == [s EXCEPT
                !.jobs = Over([k \in going |-> [s.jobs[k] EXCEPT !.held = FALSE]],
                              Restrict(@, DOMAIN @ \ gone)),
                !.queue = [u \in Units |-> @[u] \o order[u]],
                !.requests = Over([id \in blamed |->
                   [s.requests[id] EXCEPT !.remaining = @ \ gone, !.failed = TRUE,
                                          !.cancelled = @ \/ id \in owners(cancelled)]], @)]
           blames(id) == [s.requests[id] EXCEPT !.remaining = @ \ gone, !.failed = TRUE,
                                          !.cancelled = @ \/ id \in owners(cancelled)]
<1>0. Shape(s) /\ Tracked(s)
  BY DEF Watched
<1>1. SettleJobs(s, order, taking) = IF Held(s) = {} THEN s ELSE FinishReady(t, owners(gone))
  BY DEF SettleJobs
<1>2. /\ blamed \subseteq DOMAIN s.requests
      /\ going \subseteq DOMAIN s.jobs
      /\ going \cap gone = {}
  BY DEF Free, Held
<1>3. /\ DOMAIN t = Fields /\ t.told = s.told
      /\ t.pending = s.pending /\ t.recording = s.recording
      /\ t.jobs = Over([k \in going |-> [s.jobs[k] EXCEPT !.held = FALSE]],
                       Restrict(s.jobs, DOMAIN s.jobs \ gone))
      /\ t.requests = Over([id \in blamed |-> blames(id)], s.requests)
  <2> HIDE DEF blamed, gone, going, cancelled
  <2> QED BY <1>0 DEF Shape, Fields
<1>4. ASSUME NEW id \in DOMAIN s.requests
      PROVE  DOMAIN blames(id) = RequestFields
             /\ blames(id).remaining = s.requests[id].remaining \ gone
  <2> HIDE DEF blamed, gone, going, cancelled
  <2>1. DOMAIN s.requests[id] = RequestFields
    BY <1>0 DEF Tracked
  <2> QED BY <2>1 DEF RequestFields
<1> HIDE DEF blamed, gone, going, cancelled, t, blames
<1>5. /\ DOMAIN t.requests = DOMAIN s.requests
      /\ \A id \in DOMAIN s.requests :
            t.requests[id] = IF id \in blamed THEN blames(id) ELSE s.requests[id]
  BY <1>2, <1>3 DEF Over
<1>6. /\ DOMAIN t.jobs = DOMAIN s.jobs \ gone
      /\ \A k \in DOMAIN t.jobs :
            t.jobs[k] = IF k \in going THEN [s.jobs[k] EXCEPT !.held = FALSE] ELSE s.jobs[k]
  BY <1>2, <1>3 DEF Over, Restrict
<1>7. ASSUME NEW k \in DOMAIN t.jobs
      PROVE  k \in DOMAIN s.jobs /\ k \notin gone
             /\ DOMAIN t.jobs[k] = JobFields /\ t.jobs[k].owner = s.jobs[k].owner
  <2>1. k \in DOMAIN s.jobs /\ k \notin gone /\ DOMAIN s.jobs[k] = JobFields
    BY <1>0, <1>6 DEF Tracked
  <2> QED BY <1>6, <2>1 DEF JobFields
<1>8. Watched(t, 0, w)
  <2>1. Shape(t)
    BY <1>0, <1>3, <1>5 DEF Shape
  <2>2. Tracked(t)
    <3>1. ASSUME NEW id \in DOMAIN t.requests
          PROVE  /\ DOMAIN t.requests[id] = RequestFields
                 /\ s.requests[id].remaining \ gone \subseteq t.requests[id].remaining
      BY <1>0, <1>4, <1>5 DEF Tracked
    <3>2. ASSUME NEW k \in DOMAIN t.jobs, t.jobs[k].owner \in DOMAIN t.requests
          PROVE  k \in t.requests[t.jobs[k].owner].remaining
      <4>1. k \in s.requests[s.jobs[k].owner].remaining
        BY <1>0, <1>5, <1>7, <3>2 DEF Tracked
      <4> QED BY <1>7, <3>1, <3>2, <4>1
    <3> QED BY <1>7, <3>1, <3>2 DEF Tracked
  <2>3. Apart(t)
    BY <1>3 DEF Watched, Apart
  <2>4. \A id : Unsent(t, id) <=> Unsent(s, id)
    BY <1>3 DEF Unsent
  <2>5. \A id : Owns(t, id) => Owns(s, id)
    BY <1>7 DEF Owns
  <2> QED BY <1>3, <2>1, <2>2, <2>3, <2>4, <2>5 DEF Watched
<1>9. Watched(FinishReady(t, owners(gone)), 0, w)
  BY <1>8, TellingReady
<1> QED BY <1>1, <1>9

LEMMA SettleCaptureWatched ==
    ASSUME NEW s, NEW w, Watched(s, 0, w)
    PROVE  Watched(SettleCapture(s), 0, w)
<1> DEFINE id == CHOOSE x \in s.held : TRUE
           t == [s EXCEPT !.held = {}]
           refused == Failure(t, id, TRUE)
           queued == QueueCapture(t, id)
<1>0. Shape(s)
  BY DEF Watched
<1>1. \/ SettleCapture(s) = s
      \/ SettleCapture(s) = FinishIfReady(refused, id)
      \/ SettleCapture(s) = FinishIfReady(queued, id)
  BY DEF SettleCapture
<1>2. /\ DOMAIN t = Fields /\ t.requests = s.requests /\ t.told = s.told
      /\ t.jobs = s.jobs /\ t.pending = s.pending /\ t.recording = s.recording
      /\ t.held = {}
  BY <1>0 DEF Shape, Fields
<1> HIDE DEF t, id
<1>3. Watched(t, 0, w)
  BY <1>2, Sparing
<1>4. Watched(refused, 0, w)
  BY <1>3, FailureWatched
<1>5. Watched(queued, 0, w)
  BY <1>2, <1>3, QueueCaptureWatched
<1> HIDE DEF refused, queued
<1> QED BY <1>1, <1>4, <1>5, TellingIfReady

LEMMA AdvanceWatched ==
    ASSUME NEW s, NEW w, Watched(s, 0, w), NEW t \in Judged(s), NEW order, NEW taking
    PROVE  Watched(Advance(t, order, taking), 0, w)
<1> DEFINE u == SettleJobs(t, order, taking)
<1>1. Advance(t, order, taking) = IF t.frozen THEN t ELSE SettleCapture(u)
  BY DEF Advance
<1>2. Shape(s)
  BY DEF Watched
<1>3. /\ DOMAIN t = Fields /\ t.requests = s.requests /\ t.told = s.told
      /\ t.jobs = s.jobs /\ t.pending = s.pending /\ t.recording = s.recording
  BY <1>2, Judging DEF Shape, Fields
<1>4. Watched(t, 0, w)
  BY <1>3, Sparing
<1>5. Watched(u, 0, w)
  BY <1>4, SettleJobsWatched
<1> HIDE DEF u
<1> QED BY <1>1, <1>4, <1>5, SettleCaptureWatched

LEMMA EndCalibrationWatched ==
    ASSUME NEW s, NEW me, NEW w, Watched(s, me, w), NEW outcome \in Outcomes
    PROVE  /\ Watched(EndCalibration(s, outcome), me, w)
           /\ EndCalibration(s, outcome).held = s.held
<1> DEFINE t == [s EXCEPT !.session = 0, !.recording = 0]
           v == Finish(t, s.recording, outcome)
<1>0. Shape(s)
  BY DEF Watched
<1>1. EndCalibration(s, outcome) = IF s.session = 0 THEN s ELSE v
  BY DEF EndCalibration
<1>2. /\ DOMAIN t = Fields /\ t.requests = s.requests /\ t.told = s.told
      /\ t.jobs = s.jobs /\ t.pending = s.pending /\ t.recording = 0
      /\ t.held = s.held
  BY <1>0 DEF Shape, Fields
<1> HIDE DEF t
<1>3. Watched(t, me, w)
  BY <1>2, Dropping
<1>4. s.recording \in DOMAIN t.requests => s.recording # me /\ ~Owns(t, s.recording)
  <2>1. \A x : Owns(t, x) <=> Owns(s, x)
    BY <1>2 DEF Owns
  <2>2. Unsent(s, s.recording)
    BY DEF Unsent
  <2> QED BY <1>0, <1>2, <2>1, <2>2 DEF Watched, Shape
<1>5. Watched(v, me, w) /\ v.held = s.held
  BY <1>2, <1>3, <1>4, TellingOne
<1> HIDE DEF v
<1> QED BY <1>1, <1>5

LEMMA SetsGainWatched ==
    ASSUME NEW s, NEW me, NEW w, Watched(s, me, w), me \in w.taken, NEW u
    PROVE  Watched(SetsGain(s, me, u), me, w)
<1> DEFINE t == CancelPending(s, {u})
<1>1. Watched(t, me, w)
  BY CancelPendingWatched
<1>2. \/ SetsGain(s, me, u) = Failure(s, me, FALSE)
      \/ SetsGain(s, me, u) = QueueDevice(t, me, u, {"gain"}, up)
  BY DEF SetsGain
<1> HIDE DEF t
<1>3. Watched(QueueDevice(t, me, u, {"gain"}, up), me, w)
  BY <1>1, QueueDeviceWatched
<1>4. Watched(Failure(s, me, FALSE), me, w)
  BY FailureWatched
<1> QED BY <1>2, <1>3, <1>4

LEMMA LockGainWatched ==
    ASSUME NEW s, NEW me, NEW w, Watched(s, me, w)
    PROVE  Watched(LockGain(s), me, w)
<1> DEFINE t == [s EXCEPT !.locked = TRUE]
<1>0. Shape(s)
  BY DEF Watched
<1>1. /\ DOMAIN t = Fields /\ t.requests = s.requests /\ t.told = s.told
      /\ t.jobs = s.jobs /\ t.pending = s.pending /\ t.recording = s.recording
  BY <1>0 DEF Shape, Fields
<1>2. LockGain(s) = CancelPending(t, s.selected)
  BY DEF LockGain
<1> HIDE DEF t
<1> QED BY <1>1, <1>2, Sparing, CancelPendingWatched

\* Jobs are not touched by answers, nor by what a unit shows.
LEMMA JobsKept ==
    ASSUME NEW s, Shape(s)
    PROVE  /\ \A ids, outcome : FinishAll(s, ids, outcome).jobs = s.jobs
           /\ \A id, cancelled : Failure(s, id, cancelled).jobs = s.jobs
<1>1. \A ids, outcome : FinishEach(s, ids, outcome).jobs = s.jobs
  BY DEF FinishEach, Shape, Fields
<1>2. \A ids, outcome : FinishAll(s, ids, outcome).jobs = s.jobs
  BY <1>1 DEF FinishAll
<1>3. \A id, cancelled : Failure(s, id, cancelled).jobs = s.jobs
  BY DEF Failure, Shape, Fields
<1> QED BY <1>2, <1>3

LEMMA ObserveUnitJobs ==
    ASSUME NEW s, Shape(s), NEW u, NEW muted
    PROVE  ObserveUnit(s, u, muted).jobs = s.jobs
<1> DEFINE t == [s EXCEPT !.units = @ \cup {u},
                          !.selected = IF @ = {} THEN {u} ELSE @]
           open == IF muted THEN s.open \ {u} ELSE Opening(s, u)
           v == Commit(t, open)
           x == SyncMutes(v, s.open, 0, {u}, {})
           y == [v EXCEPT !.held = {0}]
           ids == v.held \ {0, 0}
           q == FinishAll(y, ids, "cancelled")
<1>1. \/ ObserveUnit(s, u, muted) = s
      \/ ObserveUnit(s, u, muted) = t
      \/ ObserveUnit(s, u, muted) = x
  BY DEF ObserveUnit
<1>2. DOMAIN t = Fields /\ t.requests = s.requests /\ t.told = s.told /\ t.jobs = s.jobs
  BY DEF Shape, Fields
<1> HIDE DEF t, open
<1>3. Shape(t)
  BY <1>2, Untouched, Shaped
<1>4. Shape(v) /\ v.jobs = s.jobs
  <2>1. Shape(v)
    BY <1>3, Committing, Shaped
  <2>2. v.jobs = t.jobs
    BY <1>3 DEF Commit, Shape, Fields
  <2> QED BY <1>2, <2>1, <2>2
<1> HIDE DEF v
<1>5. x \in {v, QueueCapture(v, 0)}
  BY DEF SyncMutes, Mirror
<1>6. QueueCapture(v, 0) \in {q, v, Failure(v, 0, FALSE)}
  BY DEF QueueCapture
<1>7. DOMAIN y = Fields /\ y.requests = v.requests /\ y.told = v.told /\ y.jobs = v.jobs
  BY <1>4 DEF Shape, Fields
<1> HIDE DEF x, y
<1>8. Shape(y)
  BY <1>4, <1>7, Untouched, Shaped
<1>9. q.jobs = s.jobs /\ Failure(v, 0, FALSE).jobs = s.jobs
  <2> HIDE DEF ids
  <2>1. q.jobs = y.jobs
    BY <1>8, JobsKept
  <2>2. Failure(v, 0, FALSE).jobs = v.jobs
    BY <1>4, JobsKept
  <2> QED BY <1>4, <1>7, <2>1, <2>2
<1> HIDE DEF q
<1> QED BY <1>1, <1>2, <1>4, <1>5, <1>6, <1>9

LEMMA ObserveUnitWatched ==
    ASSUME NEW s, NEW w, Watched(s, 0, w), s.held \subseteq w.held \cup {0},
           NEW u, NEW muted
    PROVE  Watched(ObserveUnit(s, u, muted), 0, w)
<1> DEFINE t == [s EXCEPT !.units = @ \cup {u},
                          !.selected = IF @ = {} THEN {u} ELSE @]
           open == IF muted THEN s.open \ {u} ELSE Opening(s, u)
           v == Commit(t, open)
           x == SyncMutes(v, s.open, 0, {u}, {})
<1>0. Shape(s)
  BY DEF Watched
<1>1. \/ ObserveUnit(s, u, muted) = s
      \/ ObserveUnit(s, u, muted) = t
      \/ ObserveUnit(s, u, muted) = x
  BY DEF ObserveUnit
<1>2. /\ DOMAIN t = Fields /\ t.requests = s.requests /\ t.told = s.told
      /\ t.jobs = s.jobs /\ t.pending = s.pending /\ t.recording = s.recording
      /\ t.held = s.held
  BY <1>0 DEF Shape, Fields
<1> HIDE DEF t, open
<1>3. Watched(t, 0, w)
  BY <1>2, Sparing
<1>4. Watched(v, 0, w) /\ v.held = s.held
  BY <1>2, <1>3, CommitWatched
<1> HIDE DEF v
<1>5. Watched(x, 0, w)
  BY <1>4, SyncMutesWatched
<1> HIDE DEF x
<1> QED BY <1>1, <1>3, <1>5

LEMMA FinishedWatched ==
    ASSUME NEW s, NEW w, Watched(s, 0, w), s.held \subseteq w.held \cup {0},
           NEW k, NEW result, NEW muted
    PROVE  Watched(Finished(s, k, result, muted), 0, w)
<1> DEFINE job == s.jobs[k]
           t == [s EXCEPT !.jobs = Restrict(@, DOMAIN @ \ {k})]
           v == IF result = "ok"
                THEN IF job.unit \in t.units THEN ObserveUnit(t, job.unit, muted) ELSE t
                ELSE Failure(t, job.owner, result = "cancelled")
           x == IF job.owner \in DOMAIN v.requests
                THEN [v EXCEPT !.requests[job.owner].remaining = @ \ {k}] ELSE v
<1>0. Shape(s) /\ Tracked(s)
  BY DEF Watched
<1>1. \/ Finished(s, k, result, muted) = s
      \/ Finished(s, k, result, muted) = FinishIfReady(x, job.owner)
  BY DEF Finished
<1>2. /\ DOMAIN t = Fields /\ t.requests = s.requests /\ t.told = s.told
      /\ t.pending = s.pending /\ t.recording = s.recording /\ t.held = s.held
      /\ DOMAIN t.jobs = DOMAIN s.jobs \ {k}
      /\ \A l \in DOMAIN t.jobs : t.jobs[l] = s.jobs[l]
  BY <1>0 DEF Shape, Fields, Restrict
<1> HIDE DEF t, job
<1>3. Watched(t, 0, w)
  <2>1. Shape(t)
    BY <1>0, <1>2 DEF Shape
  <2>2. Tracked(t)
    BY <1>0, <1>2 DEF Tracked
  <2>3. Apart(t)
    BY <1>2 DEF Watched, Apart
  <2>4. \A id : Unsent(t, id) <=> Unsent(s, id)
    BY <1>2 DEF Unsent
  <2>5. \A id : Owns(t, id) => Owns(s, id)
    BY <1>2 DEF Owns
  <2> QED BY <1>2, <2>1, <2>2, <2>3, <2>4, <2>5 DEF Watched
<1>4. Watched(v, 0, w)
  BY <1>2, <1>3, ObserveUnitWatched, FailureWatched
<1>5. v.jobs = t.jobs
  BY <1>3, WatchedShape, ObserveUnitJobs, JobsKept
<1> HIDE DEF v
<1>6. Shape(v) /\ Tracked(v)
  BY <1>4 DEF Watched
<1>7. Watched(x, 0, w)
  <2>1. CASE job.owner \notin DOMAIN v.requests
    BY <1>4, <2>1
  <2>2. CASE job.owner \in DOMAIN v.requests
    <3>1. /\ DOMAIN x = Fields /\ DOMAIN x.requests = DOMAIN v.requests /\ x.told = v.told
          /\ x.pending = v.pending /\ x.recording = v.recording /\ x.jobs = v.jobs
      BY <1>6, <2>2 DEF Shape, Fields
    <3>2. ASSUME NEW id \in DOMAIN v.requests
          PROVE  /\ DOMAIN x.requests[id] = RequestFields
                 /\ v.requests[id].remaining \ {k} \subseteq x.requests[id].remaining
      <4>1. DOMAIN v.requests[id] = RequestFields
        BY <1>6 DEF Tracked
      <4>2. id # job.owner => x.requests[id] = v.requests[id]
        BY <1>6, <2>2 DEF Shape, Fields
      <4>3. id = job.owner => x.requests[id] = [v.requests[id] EXCEPT
                                 !.remaining = v.requests[id].remaining \ {k}]
        BY <1>6, <2>2 DEF Shape, Fields
      <4> HIDE DEF x
      <4>4. CASE id = job.owner
        <5>1. x.requests[id].remaining = v.requests[id].remaining \ {k}
          BY <4>1, <4>3, <4>4 DEF RequestFields
        <5> QED BY <4>1, <4>3, <4>4, <5>1
      <4> QED BY <4>1, <4>2, <4>4
    <3> HIDE DEF x
    <3>3. Shape(x)
      BY <1>6, <3>1 DEF Shape
    <3>4. Tracked(x)
      <4>1. \A l \in DOMAIN x.jobs : l # k
        BY <1>2, <1>5, <3>1
      <4>2. ASSUME NEW l \in DOMAIN x.jobs
            PROVE  /\ DOMAIN x.jobs[l] = JobFields
                   /\ x.jobs[l].owner \in DOMAIN x.requests
                        => l \in x.requests[x.jobs[l].owner].remaining
        BY <1>6, <3>1, <3>2, <4>1 DEF Tracked
      <4> QED BY <3>1, <3>2, <4>2 DEF Tracked
    <3>5. Apart(x)
      BY <1>4, <3>1 DEF Watched, Apart
    <3>6. \A id : (Unsent(x, id) <=> Unsent(v, id)) /\ (Owns(x, id) <=> Owns(v, id))
      BY <3>1 DEF Unsent, Owns
    <3> QED BY <1>4, <3>1, <3>3, <3>4, <3>5, <3>6 DEF Watched
  <2> QED BY <2>1, <2>2
<1> HIDE DEF x
<1> QED BY <1>1, <1>7, TellingIfReady

LEMMA UnitRetiredWatched ==
    ASSUME NEW s, NEW w, Watched(s, 0, w), NEW u
    PROVE  Watched(UnitRetired(s, u), 0, w)
<1> DEFINE r == [s EXCEPT !.retired = @ \cup {u}, !.units = @ \ {u}]
           t == CancelPending(r, {u})
           v == UnitRetired(s, u)
<1>0. Shape(s)
  BY DEF Watched
<1>1. /\ DOMAIN r = Fields /\ r.requests = s.requests /\ r.told = s.told
      /\ r.jobs = s.jobs /\ r.pending = s.pending /\ r.recording = s.recording
  BY <1>0 DEF Shape, Fields
<1>2. v = [t EXCEPT !.intents = RestrictDomain(@, LAMBDA k : k[1] # u),
                    !.selected = IF @ = {u} /\ t.units # {}
                                 THEN {CHOOSE x \in t.units : TRUE} ELSE @ \ {u}]
  BY DEF UnitRetired
<1> HIDE DEF r, v
<1>3. Watched(t, 0, w) /\ Shape(t)
  BY <1>1, Sparing, CancelPendingWatched, WatchedShape
<1> HIDE DEF t
<1>4. /\ DOMAIN v = Fields /\ v.requests = t.requests /\ v.told = t.told
      /\ v.jobs = t.jobs /\ v.pending = t.pending /\ v.recording = t.recording
  BY <1>2, <1>3 DEF Shape, Fields
<1>5. Watched(v, 0, w)
  BY <1>3, <1>4, Sparing
<1> QED BY <1>5 DEF v

LEMMA CalibrationCompleteWatched ==
    ASSUME NEW s, NEW w, Watched(s, 0, w), NEW e
    PROVE  Watched(CalibrationComplete(s, e), 0, w)
<1> DEFINE t == [s EXCEPT !.recording = 0]
           v == Waiting(t, s.recording, FALSE)
<1>0. Shape(s)
  BY DEF Watched
<1>1. \/ CalibrationComplete(s, e) = s
      \/ CalibrationComplete(s, e) = EndCalibration(s, "rejected")
      \/ CalibrationComplete(s, e) = EndCalibration(s, "cancelled")
      \/ CalibrationComplete(s, e) = FinishIfReady(v, s.recording)
  BY DEF CalibrationComplete
<1>2. /\ DOMAIN t = Fields /\ t.requests = s.requests /\ t.told = s.told
      /\ t.jobs = s.jobs /\ t.pending = s.pending /\ t.recording = 0
  BY <1>0 DEF Shape, Fields
<1> HIDE DEF t
<1>3. Watched(t, 0, w)
  BY <1>2, Dropping
<1>4. Watched(v, 0, w)
  BY <1>3, WaitingWatched
<1> HIDE DEF v
<1> QED BY <1>1, <1>4, TellingIfReady, EndCalibrationWatched DEF Outcomes

LEMMA ObserveGraphWatched ==
    ASSUME NEW s, NEW w, Watched(s, 0, w), NEW known, NEW open
    PROVE  Watched(ObserveGraph(s, known, open), 0, w)
<1> DEFINE t == [s EXCEPT !.known = known]
           v == IF s.frozen \/ ~known \/ open = s.open THEN t ELSE Commit(t, open)
<1>0. Shape(s)
  BY DEF Watched
<1>1. ObserveGraph(s, known, open) = IF known \/ s.frozen THEN v ELSE EndCalibration(v, "rejected")
  BY DEF ObserveGraph
<1>2. /\ DOMAIN t = Fields /\ t.requests = s.requests /\ t.told = s.told
      /\ t.jobs = s.jobs /\ t.pending = s.pending /\ t.recording = s.recording
  BY <1>0 DEF Shape, Fields
<1> HIDE DEF t
<1>3. Watched(t, 0, w)
  BY <1>2, Sparing
<1>4. Watched(v, 0, w)
  BY <1>3, CommitWatched
<1> HIDE DEF v
<1> QED BY <1>1, <1>4, EndCalibrationWatched DEF Outcomes

LEMMA FrozenWatched ==
    ASSUME NEW s, NEW me, NEW w, Watched(s, me, w)
    PROVE  Watched(Frozen(s), me, w)
<1> DEFINE r == [s EXCEPT !.frozen = TRUE, !.held = {}, !.handover = "none"]
           t == CancelPending(r, DOMAIN s.pending)
<1>0. Shape(s)
  BY DEF Watched
<1>1. Frozen(s) = IF s.frozen THEN s ELSE EndCalibration(t, "cancelled")
  BY DEF Frozen
<1>2. /\ DOMAIN r = Fields /\ r.requests = s.requests /\ r.told = s.told
      /\ r.jobs = s.jobs /\ r.pending = s.pending /\ r.recording = s.recording
  BY <1>0 DEF Shape, Fields
<1> HIDE DEF r
<1>3. Watched(t, me, w)
  BY <1>2, Sparing, CancelPendingWatched
<1> HIDE DEF t
<1> QED BY <1>1, <1>3, EndCalibrationWatched DEF Outcomes

-----------------------------------------------------------------------------
(* The invariant of what commands wait for.                                *)

Taken(s) == {id \in Ids : Owed(s, id) # 0}

WInv ==
    /\ Inv /\ Tracked(c) /\ Apart(c)
    /\ \A id \in Ids : Unsent(c, id) => ~Owns(c, id) /\ id \in Taken(c)
    /\ \A id \in Ids : Owns(c, id) => id \in Taken(c)

\* What CompletionWaits says of a step.
WaitsNow ==
    \A id \in Ids \ c.held :
       at = "loop" /\ c'.told[id] # c.told[id] =>
          \A k \in DOMAIN c'.jobs : c'.jobs[k].owner # id

View(s) == [held |-> c.held, told |-> c.told, taken |-> Taken(s)]

LEMMA Looking ==
    ASSUME WInv
    PROVE  /\ Watched(c, 0, View(c))
           /\ c.held \subseteq View(c).held \cup {0}
  BY DEF WInv, Inv, Watched, View, Ids

LEMMA Starting ==
    ASSUME WInv, channel # <<>>
    PROVE  /\ Watched(Begun, Id, View(Begun))
           /\ Id \in Ids /\ Id \in View(Begun).taken
           /\ ~Owns(Begun, Id)
           /\ Begun.held = View(Begun).held
<1>1. /\ Id \in Ids /\ Shape(Begun)
      /\ Owed(Begun, Id) = Owed(c, Id) + 1
      /\ \A id \in Ids \ {Id} : Owed(Begun, id) = Owed(c, id)
      /\ InChannel(Id)
  <2>1. Inv
    BY DEF WInv
  <2>2. Head(channel) = channel[1] /\ 1 \in DOMAIN channel
    BY <2>1, Beginning
  <2>3. InChannel(Id)
    BY <2>2 DEF InChannel, Id
  <2> QED BY <2>1, <2>3, Beginning
<1>2. Shape(c) /\ Owed(c, Id) \in Nat /\ Place(Id) \in {0, 1}
  BY <1>1, OwedIsNat DEF WInv, Inv
<1>3. Owed(c, Id) = 0
  BY <1>1, <1>2 DEF Place
<1>4. /\ DOMAIN Begun = Fields /\ Begun.told = c.told /\ Begun.jobs = c.jobs
      /\ Begun.pending = c.pending /\ Begun.recording = c.recording /\ Begun.held = c.held
      /\ DOMAIN Begun.requests = DOMAIN c.requests \cup {Id}
      /\ Begun.requests[Id] = Fresh
      /\ \A id \in DOMAIN c.requests \ {Id} : Begun.requests[id] = c.requests[id]
  BY <1>2 DEF Begun, Opened, Put, Shape, Fields
<1>5. \A id : (Unsent(Begun, id) <=> Unsent(c, id)) /\ (Owns(Begun, id) <=> Owns(c, id))
  BY <1>4 DEF Unsent, Owns
<1>6. ~Owns(c, Id) /\ ~Unsent(c, Id)
  BY <1>1, <1>3 DEF WInv, Taken
<1>7. Id \in Taken(Begun) /\ \A id \in Taken(c) : id \in Taken(Begun)
  BY <1>1, <1>3 DEF Taken
<1>8. Tracked(Begun)
  <2>1. DOMAIN Fresh = RequestFields
    BY DEF Fresh, RequestFields
  <2>2. \A k \in DOMAIN Begun.jobs : Begun.jobs[k].owner # Id
    BY <1>5, <1>6 DEF Owns
  <2>3. Tracked(c)
    BY DEF WInv
  <2>4. \A id \in DOMAIN Begun.requests : DOMAIN Begun.requests[id] = RequestFields
    BY <1>4, <2>1, <2>3 DEF Tracked
  <2>5. \A k \in DOMAIN Begun.jobs :
           /\ DOMAIN Begun.jobs[k] = JobFields
           /\ Begun.jobs[k].owner \in DOMAIN Begun.requests
                => k \in Begun.requests[Begun.jobs[k].owner].remaining
    BY <1>4, <2>2, <2>3 DEF Tracked
  <2> QED BY <2>4, <2>5 DEF Tracked
<1>9. Apart(Begun)
  BY <1>4 DEF WInv, Apart
<1>10. Watched(Begun, Id, View(Begun))
  BY <1>1, <1>4, <1>5, <1>6, <1>7, <1>8, <1>9 DEF WInv, Watched, View
<1> QED BY <1>1, <1>4, <1>5, <1>6, <1>7, <1>10 DEF View

\* Who was taken from the channel stays out of it, open or answered.
LEMMA TakenStay ==
    ASSUME Inv, Inv', admission'.next = admission.next, NEW id \in Ids, ~InChannel(id)',
           InChannel(id) \/ id \in Taken(c)
    PROVE  id \in Taken(c')
<1>1. Owed(c, id) \in Nat /\ Owed(c', id) \in Nat
  BY OwedIsNat DEF Inv
<1>2. Place(id)' = Place(id)
  BY DEF Inv, Admitted
<1>3. Place(id) # 0
  BY <1>1 DEF Place, Taken
<1>4. Place(id)' = 0 + Owed(c', id)
  BY DEF Place
<1> QED BY <1>1, <1>2, <1>3, <1>4 DEF Taken

LEMMA NotBoth == ASSUME Inv, NEW id \in Taken(c) PROVE ~InChannel(id)
<1>1. Owed(c, id) \in Nat /\ Owed(c, id) # 0 /\ Place(id) \in {0, 1}
  BY OwedIsNat DEF Inv, Taken
<1> QED BY <1>1 DEF Place


\* Handlers end in the invariant again.
LEMMA Lasting ==
    ASSUME WInv, Inv', admission'.next = admission.next,
           \A id \in Ids : InChannel(id)' => InChannel(id),
           NEW w, w.taken = Taken(c), Watched(c', 0, w)
    PROVE  WInv'
<1>1. ASSUME NEW id \in Taken(c) PROVE id \in Taken(c')
  <2>1. Inv /\ id \in Ids
    BY DEF WInv, Taken
  <2>2. ~InChannel(id)'
    BY <2>1, NotBoth
  <2> QED BY <2>1, <2>2, TakenStay
<1> QED BY <1>1 DEF WInv, Watched

LEMMA ConcludesCommand ==
    ASSUME WInv, Inv', channel # <<>>, channel' = Tail(channel),
           admission'.next = admission.next, Watched(c', 0, View(Begun))
    PROVE  WInv' /\ WaitsNow
<1>1. ASSUME NEW id \in Taken(Begun) PROVE id \in Taken(c')
  <2>1. Inv /\ id \in Ids
    BY DEF WInv, Taken
  <2>2. ~InChannel(id)' /\ (InChannel(id) \/ id \in Taken(c))
    <3>1. CASE id = Id
      BY <2>1, <3>1, Departing
    <3>2. CASE id # Id
      <4>1. id \in Taken(c)
        BY <2>1, <3>2, Beginning DEF Taken
      <4> QED BY <2>1, <4>1, Departing, NotBoth
    <3> QED BY <3>1, <3>2
  <2> QED BY <2>1, <2>2, TakenStay
<1>2. WInv'
  BY <1>1 DEF WInv, Watched, View
<1>3. WaitsNow
  BY DEF WaitsNow, Watched, View, Owns
<1> QED BY <1>2, <1>3

LEMMA ConcludesEvent ==
    ASSUME WInv, Inv', channel' = channel, admission'.next = admission.next,
           Watched(c', 0, View(c))
    PROVE  WInv' /\ WaitsNow
<1>1. \A id \in Ids : InChannel(id)' => InChannel(id)
  BY DEF InChannel
<1>2. WInv'
  BY <1>1, Lasting DEF View
<1>3. WaitsNow
  BY DEF WaitsNow, Watched, View, Owns
<1> QED BY <1>2, <1>3

LEMMA AppliesWatched ==
    ASSUME NEW w, NEW s, NEW id, Watched(s, 0, w), Applies(s, id)
    PROVE  Watched(c', 0, w)
<1>1. PICK r \in Judged(s) : \E order \in Orders(r, up) :
         c' = FinishIfReady(Advance(r, order, up), id)
  BY DEF Applies, Becomes
<1>2. \A order : Watched(Advance(r, order, up), 0, w)
  BY AdvanceWatched
<1> QED BY <1>1, <1>2, TellingIfReady

LEMMA AbsorbsWatched ==
    ASSUME NEW w, NEW s, Watched(s, 0, w), Absorbs(s)
    PROVE  Watched(c', 0, w)
<1>1. PICK r \in Judged(s) : \E order \in Orders(r, up) : c' = Advance(r, order, up)
  BY DEF Absorbs, Becomes
<1> QED BY <1>1, AdvanceWatched
-----------------------------------------------------------------------------
(* The actions, followed with w.                                           *)

LEMMA ExecutesWatched ==
    ASSUME WInv, Inv', NEW kind, Takes(kind), NEW s, Watched(s, 0, View(Begun)), Applies(s, Id)
    PROVE  WInv' /\ WaitsNow
<1>1. channel # <<>> /\ channel' = Tail(channel) /\ UNCHANGED admission
  BY DEF Takes
<1>2. Watched(c', 0, View(Begun))
  BY AppliesWatched
<1> QED BY <1>1, <1>2, ConcludesCommand

LEMMA ObservesWatched ==
    ASSUME WInv, Inv', Observing, NEW s, Watched(s, 0, View(c)), Absorbs(s)
    PROVE  WInv' /\ WaitsNow
<1>1. channel' = channel /\ UNCHANGED admission
  BY DEF Observing
<1> QED BY <1>1, AbsorbsWatched, ConcludesEvent

\* What every command starts from, and what is left of one that is refused.
LEMMA StartsWatched ==
    ASSUME WInv, channel # <<>>
    PROVE  /\ Watched(Begun, Id, View(Begun)) /\ Id \in View(Begun).taken
           /\ Watched(Rejected, 0, View(Begun))
  BY Starting, FailureWatched, Dispatched DEF Rejected

LEMMA DragWaits == ASSUME WInv, Inv', NEW u, Drag(u) PROVE WInv' /\ WaitsNow
<1> DEFINE s == IF GainRefused(Begun, u) THEN Rejected ELSE Defer(Begun, u, Id)
<1>1. Takes("drag") /\ Applies(s, Id) /\ channel # <<>>
  BY DEF Drag, Takes
<1>2. Watched(s, 0, View(Begun))
  BY <1>1, Starting, StartsWatched, DeferWatched
<1> HIDE DEF s
<1> QED BY <1>1, <1>2, ExecutesWatched

LEMMA SetGainWaits == ASSUME WInv, Inv', NEW u, SetGain(u) PROVE WInv' /\ WaitsNow
<1> DEFINE s == SetsGain(Begun, Id, u)
<1>1. Takes("gain") /\ Applies(s, Id) /\ channel # <<>>
  BY DEF SetGain, Takes
<1>2. Watched(s, 0, View(Begun))
  BY <1>1, StartsWatched, SetsGainWatched, Dispatched
<1> HIDE DEF s
<1> QED BY <1>1, <1>2, ExecutesWatched

LEMMA DragFxWaits == ASSUME WInv, Inv', DragFx PROVE WInv' /\ WaitsNow
<1> DEFINE s == Defer(Begun, Fx, Id)
<1>1. Takes("fx") /\ Applies(s, Id) /\ channel # <<>>
  BY DEF DragFx, Takes
<1>2. Watched(s, 0, View(Begun))
  BY <1>1, Starting, DeferWatched
<1> HIDE DEF s
<1> QED BY <1>1, <1>2, ExecutesWatched

LEMMA EditFxWaits == ASSUME WInv, Inv', EditFx PROVE WInv' /\ WaitsNow
<1> DEFINE s == CancelPending(Begun, {Fx})
           t == Failure(s, Id, FALSE)
<1>1. Takes("edit") /\ channel # <<>> /\ (Applies(s, Id) \/ Applies(t, Id))
  BY DEF EditFx, Takes
<1>2. Watched(s, 0, View(Begun))
  BY <1>1, StartsWatched, CancelPendingWatched, Dispatched
<1> HIDE DEF s
<1>3. Watched(t, 0, View(Begun))
  BY <1>2, FailureWatched
<1> HIDE DEF t
<1> QED BY <1>1, <1>2, <1>3, ExecutesWatched

LEMMA SetRowWaits == ASSUME WInv, Inv', NEW row, SetRow(row) PROVE WInv' /\ WaitsNow
<1> DEFINE open == IF row \in c.open THEN c.open \ {row} ELSE Opening(c, row)
           t == Commit(Begun, open)
           s == SyncMutes(t, c.open, Id, {}, up)
<1>1. Takes("row") /\ channel # <<>> /\ (Applies(s, Id) \/ Applies(Rejected, Id))
  BY DEF SetRow, Takes
<1> HIDE DEF open
<1>2. Watched(t, Id, View(Begun)) /\ t.held \subseteq View(Begun).held
  BY <1>1, Starting, CommitWatched
<1> HIDE DEF t
<1>3. Watched(s, 0, View(Begun))
  BY <1>1, <1>2, Starting, SyncMutesWatched, Dispatched
<1> HIDE DEF s
<1> QED BY <1>1, <1>3, StartsWatched, ExecutesWatched

LEMMA ApplySceneWaits ==
    ASSUME WInv, Inv', NEW u, NEW row, NEW named, ApplyScene(u, row, named)
    PROVE  WInv' /\ WaitsNow
<1> DEFINE begun == [Begun EXCEPT !.requests[Id].scene = TRUE]
           open  == Opening(c, row)
           v     == Commit(begun, open)
           s     == CancelPending(v, {u})
           t     == SyncMutes(s, c.open, Id, {u}, up)
           sets  == {f \in Settings :
                       IF f = "gain" THEN ~(c.locked /\ u \in c.selected)
                       ELSE named \/ (u \in c.open) # (u \in open)}
           away  == SyncMutes(v, c.open, Id, {}, up)
           queued == QueueDevice(t, Id, u, sets, up)
           all   == IF u \notin c.units THEN away ELSE IF sets = {} THEN t ELSE queued
           w     == View(Begun)
<1>1. Takes("scene") /\ channel # <<>> /\ Applies(all, Id)
  BY DEF ApplyScene, Takes
<1>2. Watched(Begun, Id, w) /\ Id \in w.taken /\ Begun.held = w.held
  BY <1>1, Starting
<1> HIDE DEF open, sets, w
<1>3. Shape(Begun) /\ Tracked(Begun)
  BY <1>2 DEF Watched
<1>4. /\ DOMAIN begun = Fields /\ DOMAIN begun.requests = DOMAIN Begun.requests
      /\ begun.told = Begun.told /\ begun.jobs = Begun.jobs /\ begun.pending = Begun.pending
      /\ begun.recording = Begun.recording /\ begun.held = Begun.held
  BY <1>3 DEF Shape, Fields
<1>5. ASSUME NEW x \in DOMAIN begun.requests
      PROVE  /\ DOMAIN begun.requests[x] = RequestFields
             /\ begun.requests[x].remaining = Begun.requests[x].remaining
  <2>1. x \in DOMAIN Begun.requests /\ DOMAIN Begun.requests[x] = RequestFields
    BY <1>3, <1>4 DEF Tracked
  <2> QED BY <1>3, <2>1 DEF Shape, Fields, RequestFields
<1> HIDE DEF begun
<1>6. Watched(begun, Id, w) /\ begun.held \subseteq w.held
  BY <1>2, <1>4, <1>5, Inheriting
<1>7. Watched(v, Id, w) /\ v.held \subseteq w.held
  BY <1>6, CommitWatched
<1> HIDE DEF v
<1>8. Watched(s, Id, w) /\ s.held \subseteq w.held
  BY <1>7, CancelPendingWatched
<1> HIDE DEF s
<1>9. Watched(t, Id, w)
  BY <1>2, <1>8, SyncMutesWatched
<1> HIDE DEF t
<1>10. Watched(away, Id, w)
  BY <1>2, <1>7, SyncMutesWatched
<1> HIDE DEF away
<1>11. Watched(queued, Id, w)
  BY <1>2, <1>9, QueueDeviceWatched
<1> HIDE DEF queued
<1>12. Watched(all, 0, w)
  BY <1>9, <1>10, <1>11, Dispatched
<1> HIDE DEF all
<1> QED BY <1>1, <1>12, ExecutesWatched DEF w

LEMMA AskHostWaits == ASSUME WInv, Inv', AskHost PROVE WInv' /\ WaitsNow
<1> DEFINE t == Waiting(Begun, Id, TRUE)
           s == [t EXCEPT !.host = Append(@, Id)]
<1>1. Takes("host") /\ Applies(s, Id) /\ channel # <<>>
  BY DEF AskHost, Takes
<1>2. Watched(t, 0, View(Begun)) /\ Shape(t)
  BY <1>1, StartsWatched, WaitingWatched, Dispatched, WatchedShape
<1> HIDE DEF t
<1>3. /\ DOMAIN s = Fields /\ s.requests = t.requests /\ s.told = t.told
      /\ s.jobs = t.jobs /\ s.pending = t.pending /\ s.recording = t.recording
  BY <1>2 DEF Shape, Fields
<1> HIDE DEF s
<1>4. Watched(s, 0, View(Begun))
  BY <1>2, <1>3, Sparing
<1> QED BY <1>1, <1>4, ExecutesWatched

LEMMA StartCalibrationWaits == ASSUME WInv, Inv', StartCalibration PROVE WInv' /\ WaitsNow
<1> DEFINE s == EndCalibration(Begun, "cancelled")
           t == [s EXCEPT !.session = Id]
           v == IF c.known THEN t ELSE Failure(s, Id, FALSE)
<1>1. Takes("start") /\ Applies(v, Id) /\ channel # <<>>
  BY DEF StartCalibration, Takes
<1>2. Watched(s, 0, View(Begun)) /\ Shape(s)
  BY <1>1, StartsWatched, EndCalibrationWatched, Dispatched, WatchedShape DEF Outcomes
<1> HIDE DEF s
<1>3. /\ DOMAIN t = Fields /\ t.requests = s.requests /\ t.told = s.told
      /\ t.jobs = s.jobs /\ t.pending = s.pending /\ t.recording = s.recording
  BY <1>2 DEF Shape, Fields
<1> HIDE DEF t
<1>4. Watched(t, 0, View(Begun))
  BY <1>2, <1>3, Sparing
<1>5. Watched(v, 0, View(Begun))
  BY <1>2, <1>4, FailureWatched
<1> HIDE DEF v
<1> QED BY <1>1, <1>5, ExecutesWatched

\* The command that records waits for its take, and has no job.
LEMMA RecordWaits == ASSUME WInv, Inv', Record PROVE WInv' /\ WaitsNow
<1> DEFINE t == Waiting(Begun, Id, TRUE)
           s == [t EXCEPT !.recording = Id, !.tapes = Append(@, c.session)]
           e == EndCalibration(Begun, "rejected")
           f == Failure(e, Id, FALSE)
           v == IF c.session # 0 /\ ~c.known THEN f
                ELSE IF c.session = 0 \/ c.recording # 0 THEN Rejected ELSE s
           w == View(Begun)
<1>1. Takes("record") /\ Applies(v, Id) /\ channel # <<>>
  BY DEF Record, Takes
<1>2. /\ Watched(Begun, Id, w) /\ Id \in Ids /\ Id \in w.taken /\ ~Owns(Begun, Id)
      /\ Watched(Rejected, 0, w)
  BY <1>1, Starting, StartsWatched
<1> HIDE DEF w
<1>3. Watched(t, Id, w) /\ Shape(t)
  BY <1>2, WaitingWatched, WatchedShape
<1>4. t.jobs = Begun.jobs
  BY <1>2, WatchedShape DEF Waiting, Shape, Fields
<1> HIDE DEF t
<1>5. ~Owns(t, Id)
  BY <1>2, <1>4 DEF Owns
<1>6. /\ DOMAIN s = Fields /\ s.requests = t.requests /\ s.told = t.told
      /\ s.jobs = t.jobs /\ s.pending = t.pending /\ s.recording = Id
  BY <1>3 DEF Shape, Fields
<1> HIDE DEF s
<1>7. Watched(s, 0, w)
  <2>1. Shape(s)
    BY <1>3, <1>6 DEF Shape
  <2>2. Tracked(s)
    BY <1>3, <1>6 DEF Watched, Tracked
  <2>3. Apart(s)
    <3>1. \A k \in DOMAIN t.pending : t.pending[k] # Id
      BY <1>2, <1>3 DEF Watched, Unsent
    <3> QED BY <1>3, <1>6, <3>1 DEF Watched, Apart
  <2>4. \A id \in Ids : Owns(s, id) <=> Owns(t, id)
    BY <1>6 DEF Owns
  <2>5. \A id \in Ids : Unsent(s, id) => Unsent(t, id) \/ id = Id
    BY <1>6 DEF Unsent
  <2>6. \A id \in Ids : id # 0
    BY DEF Ids
  <2>7. \A id \in Ids : Unsent(s, id) => id # 0 /\ ~Owns(s, id) /\ id \in w.taken
    BY <1>2, <1>3, <1>5, <2>4, <2>5, <2>6 DEF Watched
  <2>8. \A id \in Ids : Owns(s, id) => id \in w.taken
    BY <1>3, <2>4 DEF Watched
  <2>9. \A id \in Ids : s.told[id] # w.told[id] => id # 0 /\ (id \in w.held \/ ~Owns(s, id))
    BY <1>3, <1>6, <2>4, <2>6 DEF Watched
  <2> QED BY <2>1, <2>2, <2>3, <2>7, <2>8, <2>9 DEF Watched
<1>8. Watched(e, 0, w)
  BY <1>2, EndCalibrationWatched, Dispatched DEF Outcomes
<1> HIDE DEF e
<1>9. Watched(f, 0, w)
  BY <1>8, FailureWatched
<1> HIDE DEF f
<1>10. Watched(v, 0, w)
  BY <1>2, <1>7, <1>9
<1> HIDE DEF v
<1> QED BY <1>1, <1>10, ExecutesWatched DEF w

LEMMA CancelCalibrationWaits == ASSUME WInv, Inv', CancelCalibration PROVE WInv' /\ WaitsNow
<1> DEFINE s == IF c.session = 0 THEN Rejected ELSE EndCalibration(Begun, "cancelled")
<1>1. Takes("cancel") /\ Applies(s, Id) /\ channel # <<>>
  BY DEF CancelCalibration, Takes
<1>2. Watched(s, 0, View(Begun))
  BY <1>1, StartsWatched, EndCalibrationWatched, Dispatched DEF Outcomes
<1> HIDE DEF s
<1> QED BY <1>1, <1>2, ExecutesWatched

LEMMA SelectUnitWaits == ASSUME WInv, Inv', NEW u, SelectUnit(u) PROVE WInv' /\ WaitsNow
<1> DEFINE t == CancelPending(Begun, Units)
           v == [t EXCEPT !.selected = {u}]
           s == IF u \in c.units THEN v ELSE Rejected
<1>1. Takes("select") /\ Applies(s, Id) /\ channel # <<>>
  BY DEF SelectUnit, Takes
<1>2. Watched(t, 0, View(Begun)) /\ Shape(t)
  BY <1>1, StartsWatched, CancelPendingWatched, Dispatched, WatchedShape
<1> HIDE DEF t
<1>3. /\ DOMAIN v = Fields /\ v.requests = t.requests /\ v.told = t.told
      /\ v.jobs = t.jobs /\ v.pending = t.pending /\ v.recording = t.recording
  BY <1>2 DEF Shape, Fields
<1> HIDE DEF v
<1>4. Watched(v, 0, View(Begun))
  BY <1>2, <1>3, Sparing
<1>5. Watched(s, 0, View(Begun))
  BY <1>1, <1>4, StartsWatched
<1> HIDE DEF s
<1> QED BY <1>1, <1>5, ExecutesWatched

LEMMA SetGainLockWaits == ASSUME WInv, Inv', SetGainLock PROVE WInv' /\ WaitsNow
<1> DEFINE t == [Begun EXCEPT !.locked = FALSE]
           s == IF c.locked THEN t ELSE LockGain(Begun)
<1>1. Takes("lock") /\ channel # <<>> /\ (Applies(s, Id) \/ Applies(Rejected, Id))
  BY DEF SetGainLock, Takes
<1>2. /\ Watched(Begun, 0, View(Begun)) /\ Shape(Begun)
      /\ Watched(Rejected, 0, View(Begun))
  BY <1>1, StartsWatched, Dispatched, WatchedShape
<1>3. /\ DOMAIN t = Fields /\ t.requests = Begun.requests /\ t.told = Begun.told
      /\ t.jobs = Begun.jobs /\ t.pending = Begun.pending /\ t.recording = Begun.recording
  BY <1>2 DEF Shape, Fields
<1> HIDE DEF t
<1>4. Watched(t, 0, View(Begun))
  BY <1>2, <1>3, Sparing
<1>5. Watched(s, 0, View(Begun))
  BY <1>2, <1>4, LockGainWatched
<1> HIDE DEF s
<1> QED BY <1>1, <1>2, <1>5, ExecutesWatched

\* An edit that is due is nobody's pending edit any more, and has no job yet.
LEMMA DueWaits == ASSUME WInv, Inv', NEW key, Due(key) PROVE WInv' /\ WaitsNow
<1> DEFINE id == c.pending[key]
           r == [c EXCEPT !.pending = Restrict(@, DOMAIN @ \ {key})]
           s == Waiting(r, id, FALSE)
           g == SetsGain(s, id, key)
           f == Failure(s, id, FALSE)
           w == View(c)
<1>1. /\ UNCHANGED <<admission, channel>> /\ key \in DOMAIN c.pending
      /\ Applies(g, id) \/ Applies(s, id) \/ Applies(f, id)
  BY DEF Due
<1>2. Watched(c, 0, w) /\ Shape(c) /\ Apart(c)
  BY Looking, WatchedShape DEF Watched
<1>3. id \in Ids /\ Unsent(c, id) /\ id # c.recording
  BY <1>1, <1>2 DEF Apart, Unsent
<1>4. ~Owns(c, id) /\ id \in w.taken /\ c.told[id] = w.told[id]
  BY <1>2, <1>3 DEF Watched, View
<1>5. /\ DOMAIN r = Fields /\ r.requests = c.requests /\ r.told = c.told
      /\ r.jobs = c.jobs /\ r.recording = c.recording
      /\ r.pending = Restrict(c.pending, DOMAIN c.pending \ {key})
  BY <1>2 DEF Shape, Fields
<1>6. /\ DOMAIN r.pending = DOMAIN c.pending \ {key}
      /\ \A k \in DOMAIN r.pending : r.pending[k] = c.pending[k]
  BY <1>5 DEF Restrict
<1>7. \A k \in DOMAIN r.pending : r.pending[k] # id
  BY <1>1, <1>2, <1>6 DEF Apart
<1> HIDE DEF id, w, r
<1>8. Watched(r, 0, w)
  BY <1>2, <1>5, <1>6, Dropping
<1>9. ~Unsent(r, id) /\ r.told[id] = w.told[id]
  BY <1>3, <1>4, <1>5, <1>7 DEF Unsent
<1>10. Watched(r, id, w)
  BY <1>8, <1>9 DEF Watched
<1>11. Watched(s, id, w)
  BY <1>10, WaitingWatched
<1> HIDE DEF s
<1>12. Watched(s, 0, w) /\ Watched(g, 0, w) /\ Watched(f, 0, w)
  BY <1>4, <1>11, SetsGainWatched, FailureWatched, Dispatched
<1> HIDE DEF g, f
<1>13. Watched(c', 0, View(c))
  BY <1>1, <1>12, AppliesWatched DEF w
<1> QED BY <1>1, <1>13, ConcludesEvent

LEMMA RefuseWaits == ASSUME WInv, Inv', Refuse PROVE WInv' /\ WaitsNow
<1>1. /\ channel # <<>> /\ channel' = Tail(channel) /\ UNCHANGED admission
      /\ c' = Finish(Begun, Id, "cancelled")
  BY DEF Refuse, Becomes
<1>2. Id # 0 /\ ~Owns(Begun, Id) /\ Watched(Begun, 0, View(Begun))
  BY <1>1, Starting, Dispatched DEF Ids
<1>3. Watched(c', 0, View(Begun))
  BY <1>1, <1>2, TellingOne DEF Outcomes
<1> QED BY <1>1, <1>3, ConcludesCommand

LEMMA RefuseRemovalWaits == ASSUME WInv, Inv', RefuseRemoval PROVE WInv' /\ WaitsNow
<1>1. channel # <<>> /\ channel' = Tail(channel) /\ UNCHANGED admission /\ Applies(Rejected, Id)
  BY DEF RefuseRemoval
<1>2. Watched(c', 0, View(Begun))
  BY <1>1, StartsWatched, AppliesWatched
<1> QED BY <1>1, <1>2, ConcludesCommand

LEMMA BeginShutdownWaits == ASSUME WInv, Inv', BeginShutdown PROVE WInv' /\ WaitsNow
<1>1. /\ channel # <<>> /\ channel' = Tail(channel) /\ c' = Frozen(Begun)
      /\ admission' = [admission EXCEPT !.accepting = FALSE]
  BY DEF BeginShutdown
<1>2. admission'.next = admission.next
  BY <1>1 DEF WInv, Inv
<1>3. Watched(c', 0, View(Begun))
  BY <1>1, Starting, FrozenWatched, Dispatched
<1> QED BY <1>1, <1>2, <1>3, ConcludesCommand

LEMMA HandleDeviceWaits == ASSUME WInv, Inv', HandleDevice PROVE WInv' /\ WaitsNow
<1> DEFINE e == Head(devq)
<1>1. Observing
  BY DEF HandleDevice
<1>2. PICK muted \in MayShow(e.unit) :
         Absorbs(CASE e.kind = "unit"     -> ObserveUnit(c, e.unit, muted)
                   [] e.kind = "finished" -> Finished(c, e.job, e.result, muted)
                   [] OTHER               -> UnitRetired(c, e.unit))
  BY DEF HandleDevice
<1> HIDE DEF e
<1>3. CASE e.kind = "unit"
  <2>1. Absorbs(ObserveUnit(c, e.unit, muted))
    BY <1>2, <1>3
  <2> QED BY <1>1, <2>1, Looking, ObserveUnitWatched, ObservesWatched
<1>4. CASE e.kind = "finished"
  <2>1. Absorbs(Finished(c, e.job, e.result, muted))
    BY <1>2, <1>4
  <2> QED BY <1>1, <2>1, Looking, FinishedWatched, ObservesWatched
<1>5. CASE e.kind # "unit" /\ e.kind # "finished"
  <2>1. Absorbs(UnitRetired(c, e.unit))
    BY <1>2, <1>5
  <2> QED BY <1>1, <2>1, Looking, UnitRetiredWatched, ObservesWatched
<1> QED BY <1>3, <1>4, <1>5

LEMMA HandleHostWaits == ASSUME WInv, Inv', HandleHost PROVE WInv' /\ WaitsNow
<1> DEFINE e == Head(hostq)
           s == IF e.result = "ok" THEN c ELSE Failure(c, e.id, e.result = "cancelled")
           t == Waiting(s, e.id, FALSE)
           v == FinishIfReady(t, e.id)
<1>1. Observing /\ Absorbs(v)
  BY DEF HandleHost
<1> HIDE DEF e
<1>2. Watched(s, 0, View(c))
  BY Looking, FailureWatched
<1> HIDE DEF s
<1>3. Watched(t, 0, View(c))
  BY <1>2, WaitingWatched
<1> HIDE DEF t
<1>4. Watched(v, 0, View(c))
  BY <1>3, TellingIfReady
<1> HIDE DEF v
<1> QED BY <1>1, <1>4, ObservesWatched

LEMMA HandleCalibrationWaits ==
    ASSUME WInv, Inv', HandleCalibration PROVE WInv' /\ WaitsNow
<1>1. Observing /\ Absorbs(CalibrationComplete(c, Head(calq)))
  BY DEF HandleCalibration
<1> QED BY <1>1, Looking, CalibrationCompleteWatched, ObservesWatched

LEMMA HandleGraphWaits == ASSUME WInv, Inv', HandleGraph PROVE WInv' /\ WaitsNow
<1>1. Observing /\ \E known, open : Absorbs(ObserveGraph(c, known, open))
  BY DEF HandleGraph
<1>2. PICK known, open : Absorbs(ObserveGraph(c, known, open))
  BY <1>1
<1> QED BY <1>1, <1>2, Looking, ObserveGraphWatched, ObservesWatched

\* A worker's step, and a step of shutdown that only stops workers.
LEMMA ElsewhereWaits ==
    ASSUME WInv, Inv', channel' = channel, admission'.next = admission.next,
           DOMAIN c' = Fields, c'.requests = c.requests, c'.told = c.told,
           c'.jobs = c.jobs, c'.pending = c.pending, c'.recording = c.recording
    PROVE  WInv' /\ WaitsNow
  BY Looking, Sparing, ConcludesEvent

\* What a worker changes of the controller's record: its queues.
LEMMA Rewired ==
    ASSUME NEW s, NEW t, DOMAIN s = Fields,
           \/ t = s
           \/ \E u \in Units : \E q : t = [s EXCEPT !.queue[u] = q]
           \/ \E q : t = [s EXCEPT !.host = q]
           \/ \E q : t = [s EXCEPT !.tapes = q]
           \/ t = [s EXCEPT !.queue = [u \in Units |-> <<>>], !.host = <<>>, !.tapes = <<>>]
    PROVE  /\ DOMAIN t = Fields /\ t.requests = s.requests /\ t.told = s.told
           /\ t.jobs = s.jobs /\ t.nextJob = s.nextJob
           /\ t.pending = s.pending /\ t.recording = s.recording
<1>1. CASE t = s
  BY <1>1
<1>2. CASE \E u \in Units : \E q : t = [s EXCEPT !.queue[u] = q]
  <2>1. PICK u, q : t = [s EXCEPT !.queue[u] = q]
    BY <1>2
  <2> QED BY <2>1 DEF Fields
<1>3. CASE \E q : t = [s EXCEPT !.host = q]
  <2>1. PICK q : t = [s EXCEPT !.host = q]
    BY <1>3
  <2> QED BY <2>1 DEF Fields
<1>4. CASE \E q : t = [s EXCEPT !.tapes = q]
  <2>1. PICK q : t = [s EXCEPT !.tapes = q]
    BY <1>4
  <2> QED BY <2>1 DEF Fields
<1>5. CASE t = [s EXCEPT !.queue = [u \in Units |-> <<>>], !.host = <<>>, !.tapes = <<>>]
  BY <1>5 DEF Fields
<1> QED BY <1>1, <1>2, <1>3, <1>4, <1>5

LEMMA WorkersWait ==
    ASSUME WInv, Inv',
           \/ \E u \in Units : Polls(u) \/ Completes(u) \/ Retires(u)
           \/ HostAnswers \/ Records \/ StopWorkers
    PROVE  WInv' /\ WaitsNow
<1>1. Shape(c)
  BY DEF WInv, Inv
<1>2. channel' = channel /\ UNCHANGED admission
  BY DEF Polls, Completes, Retires, HostAnswers, Records, StopWorkers, Working
<1>3. \/ c' = c
      \/ \E u \in Units : \E q : c' = [c EXCEPT !.queue[u] = q]
      \/ \E q : c' = [c EXCEPT !.host = q]
      \/ \E q : c' = [c EXCEPT !.tapes = q]
      \/ c' = [c EXCEPT !.queue = [u \in Units |-> <<>>], !.host = <<>>, !.tapes = <<>>]
  BY DEF Polls, Completes, Retires, HostAnswers, Records, StopWorkers
<1>4. DOMAIN c = Fields
  BY <1>1 DEF Shape
<1>5. /\ DOMAIN c' = Fields /\ c'.requests = c.requests /\ c'.told = c.told
      /\ c'.jobs = c.jobs /\ c'.pending = c.pending /\ c'.recording = c.recording
  BY <1>3, <1>4, Rewired
<1>6. channel' = channel /\ admission'.next = admission.next
  BY <1>2
<1> QED BY <1>5, <1>6, ElsewhereWaits

\* The rest of shutdown answers whom it will: nobody is in the loop.
LEMMA ClosingWaits ==
    ASSUME WInv, Inv', ShutdownFails \/ ShutdownDone
    PROVE  WInv' /\ WaitsNow
<1> DEFINE w == [held |-> Ids, told |-> c.told, taken |-> Taken(c)]
           s == Unfinished(c)
           scenes == {id \in DOMAIN c.requests \ {closer.id} : c.requests[id].scene}
           t == FinishAll(c, DOMAIN c.requests \ (scenes \cup {closer.id}), "cancelled")
<1>1. /\ UNCHANGED <<admission, channel>> /\ at # "loop"
      /\ \E outcome \in Outcomes : c' = Finish(s, closer.id, outcome)
  <2>1. CASE ShutdownFails
    BY <2>1 DEF ShutdownFails, Absorbed, Outcomes
  <2>2. CASE ShutdownDone
    BY <2>2 DEF ShutdownDone, Absorbed, Outcomes
  <2> QED BY <2>1, <2>2
<1>2. s = FinishAll(t, scenes, "scene")
  BY DEF Unfinished
<1>3. w.held = Ids /\ w.told = c.told /\ w.taken = Taken(c)
  OBVIOUS
<1>4. Watched(c, 0, w)
  BY Looking DEF Watched, View
<1> HIDE DEF w, s, scenes
<1>5. \A v, id : Watched(v, 0, w) /\ id \in DOMAIN v.requests => id # 0 /\ id \in w.held
  BY <1>3 DEF Watched, Shape, Ids
<1>6. Watched(t, 0, w)
  BY <1>4, <1>5, TellingAll DEF Outcomes
<1> HIDE DEF t
<1>7. Watched(s, 0, w)
  BY <1>2, <1>5, <1>6, TellingAll DEF Outcomes
<1>8. Watched(c', 0, w)
  BY <1>1, <1>5, <1>7, TellingOne
<1>9. \A id \in Ids : InChannel(id)' => InChannel(id)
  BY <1>1 DEF InChannel
<1>10. WInv'
  BY <1>1, <1>3, <1>8, <1>9, Lasting
<1> QED BY <1>1, <1>10 DEF WaitsNow

LEMMA SweepWaits == ASSUME WInv, Inv', Sweep PROVE WInv' /\ WaitsNow
<1> DEFINE w == [held |-> Ids, told |-> c.told, taken |-> Taken(c)]
<1>1. /\ at # "loop" /\ channel' = <<>> /\ UNCHANGED admission
      /\ \E told : c' = [c EXCEPT !.told = told]
  BY DEF Sweep
<1>2. w.held = Ids /\ w.told = c.told /\ w.taken = Taken(c)
  OBVIOUS
<1> HIDE DEF w
<1>3. Watched(c, 0, View(c)) /\ Shape(c) /\ Tracked(c) /\ Apart(c)
  BY Looking DEF Watched
<1>4. /\ c'.requests = c.requests /\ c'.jobs = c.jobs
      /\ c'.pending = c.pending /\ c'.recording = c.recording
  BY <1>1, <1>3 DEF Shape, Fields
<1>5. Shape(c') /\ Tracked(c') /\ Apart(c')
  BY <1>3, <1>4 DEF Inv, Tracked, Apart
<1>6. \A id : (Unsent(c', id) <=> Unsent(c, id)) /\ (Owns(c', id) <=> Owns(c, id))
  BY <1>4 DEF Unsent, Owns
<1>7. \A id \in Ids : id # 0
  BY DEF Ids
<1>8. Watched(c', 0, w)
  BY <1>2, <1>3, <1>5, <1>6, <1>7 DEF Watched, View
<1>9. \A id \in Ids : InChannel(id)' => InChannel(id)
  BY <1>1 DEF InChannel
<1>10. WInv'
  BY <1>1, <1>2, <1>8, <1>9, Lasting
<1> QED BY <1>1, <1>10 DEF WaitsNow

\* Admission, and what leaves the controller alone.
LEMMA AloneWaits == ASSUME WInv, Inv', c' = c PROVE WInv' /\ WaitsNow
  BY DEF WInv, WaitsNow, Taken

LEMMA InitWInv == Init => WInv
<1> SUFFICES ASSUME Init PROVE WInv
  OBVIOUS
<1>1. Inv
  BY InitInv
<1>2. /\ DOMAIN c.requests = {} /\ DOMAIN c.jobs = {} /\ DOMAIN c.pending = {}
      /\ c.recording = 0
  BY DEF Init
<1>3. Tracked(c) /\ Apart(c)
  BY <1>2 DEF Tracked, Apart
<1>4. \A id \in Ids : ~Unsent(c, id) /\ ~Owns(c, id)
  BY <1>2 DEF Unsent, Owns, Ids
<1> QED BY <1>1, <1>3, <1>4 DEF WInv

LEMMA NextWInv == WInv /\ [Next]_vars => WInv' /\ (WaitsNow \/ UNCHANGED vars)
<1> SUFFICES ASSUME WInv, [Next]_vars PROVE WInv' /\ (WaitsNow \/ UNCHANGED vars)
  OBVIOUS
<1>1. Inv'
  BY NextInv DEF WInv
<1>2. CASE UNCHANGED vars
  BY <1>1, <1>2, AloneWaits DEF vars
<1>3. ASSUME Execute PROVE WInv' /\ WaitsNow
  BY <1>1, <1>3, DragWaits, SetGainWaits, SelectUnitWaits, SetRowWaits, ApplySceneWaits,
     DragFxWaits, EditFxWaits, AskHostWaits, SetGainLockWaits, StartCalibrationWaits,
     RecordWaits, CancelCalibrationWaits, RefuseWaits, RefuseRemovalWaits,
     BeginShutdownWaits DEF Execute
<1>4. ASSUME StartUp \/ FailStart \/ CloseAdmission \/ \E kind \in plan.menu : Submit(kind)
      PROVE  WInv' /\ WaitsNow
  <2>1. c' = c
    BY <1>4 DEF StartUp, FailStart, CloseAdmission, Submit
  <2> QED BY <1>1, <2>1, AloneWaits
<1>5. ASSUME Next PROVE WInv' /\ WaitsNow
  BY <1>1, <1>3, <1>4, <1>5, DueWaits, HandleDeviceWaits, HandleHostWaits,
     HandleCalibrationWaits, HandleGraphWaits, WorkersWait, ClosingWaits, SweepWaits
     DEF Next, Closing
<1> QED BY <1>2, <1>5

\* While the loop runs, no command is answered with a job of its own still in a
\* worker's queue, on its way back or held, except by one that takes the place
\* of the capture it held.
THEOREM AnswersWaitForJobs == Spec => CompletionWaits
<1>1. WInv /\ [Next]_vars => WInv' /\ [WaitsNow]_vars
  BY NextWInv
<1>2. Spec => [][WaitsNow]_vars
  BY <1>1, InitWInv, PTL DEF Spec
<1> QED BY <1>2 DEF CompletionWaits, WaitsNow

-----------------------------------------------------------------------------
(* The order of gains.  A handler starts from c; it gives a unit, after    *)
(* what its queue had, jobs that were held and jobs with a new number.  At *)
(* most one of the new jobs sets a gain: it is of the command `me' that is *)
(* handled and for a unit of `aim', of which no edit is pending any more.  *)

Numbered(s) ==
    /\ s.nextJob \in Nat
    /\ \A k \in DOMAIN s.jobs :
          /\ k \in Nat /\ k < s.nextJob /\ DOMAIN s.jobs[k] = JobFields
          /\ s.jobs[k].owner \in Ids
    /\ s.queue \in [Units -> Seq(Nat)]

Recent(s) == {k \in DOMAIN s.jobs : k >= c.nextJob}

GivesGain(s, k) == k \in Recent(s) /\ "gain" \in s.jobs[k].sets

NoGain(s) == \A k : ~GivesGain(s, k)

Places(s, u) == Len(c.queue[u]) + 1 .. Len(s.queue[u])

\* Where its queue is longer than it was, a unit was given a job of its own.
Given(s) ==
    \A u \in Units :
       /\ Len(c.queue[u]) <= Len(s.queue[u])
       /\ \A i \in Places(s, u) :
             LET k == s.queue[u][i] IN
             /\ k \in DOMAIN s.jobs /\ ~s.jobs[k].held /\ s.jobs[k].unit = u
             /\ k \in Recent(s) \cup Held(c)
       /\ \A i, j \in Places(s, u) : s.queue[u][i] = s.queue[u][j] => i = j

Fed(s, me, aim) ==
    /\ DOMAIN s = Fields /\ Numbered(s) /\ Given(s)
    /\ Numbered(c) /\ c.nextJob <= s.nextJob
    /\ Held(s) \subseteq Held(c) \cup Recent(s)
    /\ \A k : GivesGain(s, k) => /\ s.jobs[k].owner = me /\ s.jobs[k].unit \in aim
                                 /\ s.jobs[k].unit \notin DOMAIN s.pending
    /\ \A k, l : GivesGain(s, k) /\ GivesGain(s, l) => k = l
    /\ \A u \in Units \cap DOMAIN s.pending :
          \/ u \in DOMAIN c.pending /\ s.pending[u] = c.pending[u]
          \/ u \in aim /\ s.pending[u] = me

\* A step that dispatches nothing and defers nothing.
Idle(s, t) ==
    /\ DOMAIN t = Fields
    /\ t.jobs = s.jobs /\ t.queue = s.queue /\ t.nextJob = s.nextJob
    /\ DOMAIN t.pending \subseteq DOMAIN s.pending
    /\ \A k \in DOMAIN t.pending : t.pending[k] = s.pending[k]

LEMMA Idling == ASSUME NEW s, DOMAIN s = Fields PROVE Idle(s, s)
  BY DEF Idle

LEMMA IdlingOn == ASSUME NEW s, NEW t, NEW v, Idle(s, t), Idle(t, v) PROVE Idle(s, v)
  BY DEF Idle

LEMMA IdleKeeps ==
    ASSUME NEW s, NEW t, NEW me, NEW aim, Fed(s, me, aim), Idle(s, t)
    PROVE  Fed(t, me, aim) /\ (NoGain(s) => NoGain(t))
<1>1. /\ Recent(t) = Recent(s) /\ Held(t) = Held(s)
      /\ \A k : GivesGain(t, k) <=> GivesGain(s, k)
      /\ \A u \in Units : Places(t, u) = Places(s, u)
  BY DEF Idle, Recent, Held, GivesGain, Places
<1>2. Numbered(t)
  BY DEF Idle, Fed, Numbered
<1>3. Given(t)
  BY <1>1 DEF Idle, Fed, Given
<1>4. \A u \in Units \cap DOMAIN t.pending :
         \/ u \in DOMAIN c.pending /\ t.pending[u] = c.pending[u]
         \/ u \in aim /\ t.pending[u] = me
  BY DEF Idle, Fed
<1>5. \A k : GivesGain(t, k) => /\ t.jobs[k].owner = me /\ t.jobs[k].unit \in aim
                                /\ t.jobs[k].unit \notin DOMAIN t.pending
  BY <1>1 DEF Idle, Fed
<1>6. /\ DOMAIN t = Fields /\ c.nextJob <= t.nextJob
      /\ Held(t) \subseteq Held(c) \cup Recent(t)
      /\ \A k, l : GivesGain(t, k) /\ GivesGain(t, l) => k = l
  BY <1>1 DEF Idle, Fed
<1>7. NoGain(s) => NoGain(t)
  BY <1>1 DEF NoGain
<1> QED BY <1>2, <1>3, <1>4, <1>5, <1>6, <1>7 DEF Fed

\* Handlers start with nothing given, and perhaps by forgetting a job.
LEMMA Starts ==
    ASSUME Numbered(c), NEW s, DOMAIN s = Fields, s.queue = c.queue, s.nextJob = c.nextJob,
           DOMAIN s.jobs \subseteq DOMAIN c.jobs,
           \A k \in DOMAIN s.jobs : s.jobs[k] = c.jobs[k],
           DOMAIN s.pending \subseteq DOMAIN c.pending,
           \A k \in DOMAIN s.pending : s.pending[k] = c.pending[k],
           NEW me, NEW aim
    PROVE  Fed(s, me, aim) /\ NoGain(s)
<1>1. Recent(s) = {} /\ \A k : ~GivesGain(s, k)
  BY DEF Numbered, Recent, GivesGain
<1>2. \A u \in Units : Len(c.queue[u]) \in Nat /\ Places(s, u) = {}
  BY DEF Numbered, Places
<1>3. Numbered(s)
  BY DEF Numbered
<1>4. Given(s)
  BY <1>2 DEF Given
<1>5. Held(s) \subseteq Held(c)
  BY DEF Held
<1>6. c.nextJob <= s.nextJob
  BY DEF Numbered
<1> QED BY <1>1, <1>3, <1>4, <1>5, <1>6 DEF Fed, NoGain

LEMMA FinishIdles ==
    ASSUME NEW s, DOMAIN s = Fields
    PROVE  /\ \A ids, outcome : Idle(s, FinishEach(s, ids, outcome))
           /\ \A ids, outcome : Idle(s, FinishAll(s, ids, outcome))
           /\ \A id, outcome : Idle(s, Finish(s, id, outcome))
           /\ \A id : Idle(s, FinishIfReady(s, id))
           /\ \A ids : Idle(s, FinishReady(s, ids))
<1>1. ASSUME NEW ids, NEW outcome PROVE Idle(s, FinishEach(s, ids, outcome))
  BY Idling DEF FinishEach, Idle, Fields
<1>2. ASSUME NEW ids, NEW outcome PROVE Idle(s, FinishAll(s, ids, outcome))
  BY <1>1 DEF FinishAll
<1>3. ASSUME NEW id, NEW outcome PROVE Idle(s, Finish(s, id, outcome))
  BY <1>2 DEF Finish
<1>4. ASSUME NEW id PROVE Idle(s, FinishIfReady(s, id))
  BY <1>3, Idling DEF FinishIfReady
<1>5. ASSUME NEW ids PROVE Idle(s, FinishReady(s, ids))
  BY <1>1 DEF FinishReady
<1> QED BY <1>1, <1>2, <1>3, <1>4, <1>5

LEMMA FailureIdles ==
    ASSUME NEW s, DOMAIN s = Fields
    PROVE  /\ \A id, cancelled : Idle(s, Failure(s, id, cancelled))
           /\ \A id, waiting : Idle(s, Waiting(s, id, waiting))
<1>1. ASSUME NEW id, NEW cancelled PROVE Idle(s, Failure(s, id, cancelled))
  BY Idling DEF Failure, Idle, Fields
<1>2. ASSUME NEW id, NEW waiting PROVE Idle(s, Waiting(s, id, waiting))
  BY Idling DEF Waiting, Idle, Fields
<1> QED BY <1>1, <1>2

LEMMA CancelPendingIdles ==
    ASSUME NEW s, DOMAIN s = Fields, NEW keys
    PROVE  /\ Idle(s, CancelPending(s, keys))
           /\ DOMAIN CancelPending(s, keys).pending = DOMAIN s.pending \ keys
<1> DEFINE gone == DOMAIN s.pending \cap keys
           t == [s EXCEPT !.pending = Restrict(@, DOMAIN @ \ gone)]
           v == CancelPending(s, keys)
<1>1. v = FinishAll(t, {s.pending[k] : k \in gone}, "cancelled")
  BY DEF CancelPending
<1>2. /\ DOMAIN t = Fields /\ t.jobs = s.jobs /\ t.queue = s.queue /\ t.nextJob = s.nextJob
      /\ t.pending = Restrict(s.pending, DOMAIN s.pending \ gone)
  BY DEF Fields
<1>3. /\ DOMAIN t.pending = DOMAIN s.pending \ gone
      /\ \A k \in DOMAIN t.pending : t.pending[k] = s.pending[k]
  BY <1>2 DEF Restrict
<1> HIDE DEF t
<1>4. Idle(s, t)
  BY <1>2, <1>3 DEF Idle
<1>5. Idle(t, v)
  BY <1>1, <1>2, FinishIdles
<1>6. v.pending = t.pending
  BY <1>1, <1>2 DEF FinishAll, FinishEach, Fields
<1> QED BY <1>3, <1>4, <1>5, <1>6, IdlingOn

LEMMA QueueCaptureIdles ==
    ASSUME NEW s, DOMAIN s = Fields, NEW id
    PROVE  Idle(s, QueueCapture(s, id))
<1> DEFINE t == [s EXCEPT !.held = {id}]
<1>1. \/ QueueCapture(s, id) = FinishAll(t, s.held \ {id, 0}, "cancelled")
      \/ QueueCapture(s, id) = s
      \/ QueueCapture(s, id) = Failure(s, id, FALSE)
  BY DEF QueueCapture
<1>2. DOMAIN t = Fields /\ Idle(s, t)
  BY DEF Idle, Fields
<1> HIDE DEF t
<1>3. Idle(s, FinishAll(t, s.held \ {id, 0}, "cancelled"))
  BY <1>2, FinishIdles, IdlingOn
<1> QED BY <1>1, <1>3, Idling, FailureIdles

LEMMA CommitIdles ==
    ASSUME NEW s, DOMAIN s = Fields, NEW open PROVE Idle(s, Commit(s, open))
  BY DEF Commit, Idle, Fields

LEMMA SettleCaptureIdles ==
    ASSUME NEW s, DOMAIN s = Fields PROVE Idle(s, SettleCapture(s))
<1> DEFINE id == CHOOSE x \in s.held : TRUE
           t == [s EXCEPT !.held = {}]
           refused == Failure(t, id, TRUE)
           queued == QueueCapture(t, id)
<1>1. \/ SettleCapture(s) = s
      \/ SettleCapture(s) = FinishIfReady(refused, id)
      \/ SettleCapture(s) = FinishIfReady(queued, id)
  BY DEF SettleCapture
<1>2. DOMAIN t = Fields /\ Idle(s, t)
  BY DEF Idle, Fields
<1> HIDE DEF t, id
<1>3. Idle(s, refused) /\ DOMAIN refused = Fields
  <2>1. Idle(t, refused)
    BY <1>2, FailureIdles
  <2> HIDE DEF refused
  <2> QED BY <1>2, <2>1, IdlingOn DEF Idle
<1>4. Idle(s, queued) /\ DOMAIN queued = Fields
  BY <1>2, QueueCaptureIdles, IdlingOn DEF Idle
<1> HIDE DEF refused, queued
<1> QED BY <1>1, <1>3, <1>4, Idling, IdlingOn, FinishIdles

LEMMA EndCalibrationIdles ==
    ASSUME NEW s, DOMAIN s = Fields, NEW outcome
    PROVE  Idle(s, EndCalibration(s, outcome))
<1> DEFINE t == [s EXCEPT !.session = 0, !.recording = 0]
<1>1. EndCalibration(s, outcome) = IF s.session = 0 THEN s ELSE Finish(t, s.recording, outcome)
  BY DEF EndCalibration
<1>2. DOMAIN t = Fields /\ Idle(s, t)
  BY DEF Idle, Fields
<1> HIDE DEF t
<1> QED BY <1>1, <1>2, Idling, IdlingOn, FinishIdles

LEMMA LockGainIdles == ASSUME NEW s, DOMAIN s = Fields PROVE Idle(s, LockGain(s))
<1> DEFINE t == [s EXCEPT !.locked = TRUE]
<1>1. LockGain(s) = CancelPending(t, s.selected)
  BY DEF LockGain
<1>2. DOMAIN t = Fields /\ Idle(s, t)
  BY DEF Idle, Fields
<1> HIDE DEF t
<1> QED BY <1>1, <1>2, IdlingOn, CancelPendingIdles

LEMMA UnitRetiredIdles ==
    ASSUME NEW s, DOMAIN s = Fields, NEW u PROVE Idle(s, UnitRetired(s, u))
<1> DEFINE r == [s EXCEPT !.retired = @ \cup {u}, !.units = @ \ {u}]
           t == CancelPending(r, {u})
           v == [t EXCEPT !.intents = RestrictDomain(@, LAMBDA k : k[1] # u),
                          !.selected = IF @ = {u} /\ t.units # {}
                                       THEN {CHOOSE x \in t.units : TRUE} ELSE @ \ {u}]
<1>1. DOMAIN r = Fields /\ Idle(s, r)
  BY DEF Idle, Fields
<1>2. UnitRetired(s, u) = v
  BY DEF UnitRetired
<1> HIDE DEF r
<1>3. Idle(s, t) /\ DOMAIN t = Fields
  BY <1>1, CancelPendingIdles, IdlingOn DEF Idle
<1> HIDE DEF t
<1>4. Idle(t, v)
  BY <1>3 DEF Idle, Fields
<1> QED BY <1>2, <1>3, <1>4, IdlingOn

LEMMA CalibrationCompleteIdles ==
    ASSUME NEW s, DOMAIN s = Fields, NEW e PROVE Idle(s, CalibrationComplete(s, e))
<1> DEFINE t == [s EXCEPT !.recording = 0]
           v == Waiting(t, s.recording, FALSE)
<1>1. \/ CalibrationComplete(s, e) = s
      \/ CalibrationComplete(s, e) = EndCalibration(s, "rejected")
      \/ CalibrationComplete(s, e) = EndCalibration(s, "cancelled")
      \/ CalibrationComplete(s, e) = FinishIfReady(v, s.recording)
  BY DEF CalibrationComplete
<1>2. DOMAIN t = Fields /\ Idle(s, t)
  BY DEF Idle, Fields
<1> HIDE DEF t
<1>3. DOMAIN v = Fields /\ Idle(s, v)
  <2>1. Idle(t, v)
    BY <1>2, FailureIdles
  <2> HIDE DEF v
  <2> QED BY <1>2, <2>1, IdlingOn DEF Idle
<1> HIDE DEF v
<1> QED BY <1>1, <1>3, Idling, IdlingOn, FinishIdles, EndCalibrationIdles

LEMMA ObserveGraphIdles ==
    ASSUME NEW s, DOMAIN s = Fields, NEW known, NEW open
    PROVE  Idle(s, ObserveGraph(s, known, open))
<1> DEFINE t == [s EXCEPT !.known = known]
           v == IF s.frozen \/ ~known \/ open = s.open THEN t ELSE Commit(t, open)
<1>1. ObserveGraph(s, known, open) = IF known \/ s.frozen THEN v ELSE EndCalibration(v, "rejected")
  BY DEF ObserveGraph
<1>2. DOMAIN t = Fields /\ Idle(s, t)
  BY DEF Idle, Fields
<1> HIDE DEF t
<1>3. DOMAIN v = Fields /\ Idle(s, v)
  BY <1>2, CommitIdles, IdlingOn DEF Idle
<1> HIDE DEF v
<1> QED BY <1>1, <1>3, IdlingOn, EndCalibrationIdles

LEMMA FrozenIdles == ASSUME NEW s, DOMAIN s = Fields PROVE Idle(s, Frozen(s))
<1> DEFINE r == [s EXCEPT !.frozen = TRUE, !.held = {}, !.handover = "none"]
           t == CancelPending(r, DOMAIN s.pending)
<1>1. Frozen(s) = IF s.frozen THEN s ELSE EndCalibration(t, "cancelled")
  BY DEF Frozen
<1>2. DOMAIN r = Fields /\ Idle(s, r)
  BY DEF Idle, Fields
<1> HIDE DEF r
<1>3. DOMAIN t = Fields /\ Idle(s, t)
  BY <1>2, CancelPendingIdles, IdlingOn DEF Idle
<1> HIDE DEF t
<1> QED BY <1>1, <1>3, Idling, IdlingOn, EndCalibrationIdles

LEMMA ObserveUnitIdles ==
    ASSUME NEW s, DOMAIN s = Fields, NEW u, NEW muted
    PROVE  Idle(s, ObserveUnit(s, u, muted))
<1> DEFINE t == [s EXCEPT !.units = @ \cup {u},
                          !.selected = IF @ = {} THEN {u} ELSE @]
           open == IF muted THEN s.open \ {u} ELSE Opening(s, u)
           v == Commit(t, open)
           w == SyncMutes(v, s.open, 0, {u}, {})
<1>1. \/ ObserveUnit(s, u, muted) = s
      \/ ObserveUnit(s, u, muted) = t
      \/ ObserveUnit(s, u, muted) = w
  BY DEF ObserveUnit
<1>2. DOMAIN t = Fields /\ Idle(s, t)
  BY DEF Idle, Fields
<1> HIDE DEF t, open
<1>3. DOMAIN v = Fields /\ Idle(s, v)
  BY <1>2, CommitIdles, IdlingOn DEF Idle
<1> HIDE DEF v
<1>4. w = v \/ w = QueueCapture(v, 0)
  BY DEF SyncMutes, Mirror
<1> HIDE DEF w
<1>5. Idle(s, w)
  BY <1>3, <1>4, QueueCaptureIdles, IdlingOn
<1> QED BY <1>1, <1>2, <1>5, Idling

LEMMA UnfinishedIdles == ASSUME NEW s, DOMAIN s = Fields PROVE Idle(s, Unfinished(s))
<1> DEFINE scenes == {id \in DOMAIN s.requests \ {closer.id} : s.requests[id].scene}
           t == FinishAll(s, DOMAIN s.requests \ (scenes \cup {closer.id}), "cancelled")
<1>1. Unfinished(s) = FinishAll(t, scenes, "scene")
  BY DEF Unfinished
<1> HIDE DEF scenes
<1>2. DOMAIN t = Fields /\ Idle(s, t)
  BY FinishIdles DEF Idle
<1> HIDE DEF t
<1> QED BY <1>1, <1>2, FinishIdles, IdlingOn

LEMMA BegunIdles == ASSUME DOMAIN c = Fields PROVE DOMAIN Begun = Fields /\ Idle(c, Begun)
  BY DEF Begun, Opened, Idle, Fields

\* A handler's step that gives a gain to nobody, and forgets edits or dates one anew.
Feeds(s, t, me, aim) ==
    /\ Fed(t, me, aim)
    /\ DOMAIN t.pending \subseteq DOMAIN s.pending
    /\ NoGain(s) => NoGain(t)

LEMMA IdleFeeds ==
    ASSUME NEW s, NEW t, NEW me, NEW aim, Fed(s, me, aim), Idle(s, t)
    PROVE  Feeds(s, t, me, aim)
  BY IdleKeeps DEF Feeds, Idle

LEMMA FeedsOn ==
    ASSUME NEW s, NEW t, NEW v, NEW me, NEW aim, Feeds(s, t, me, aim), Feeds(t, v, me, aim)
    PROVE  Feeds(s, v, me, aim)
  BY DEF Feeds

LEMMA DeferFed ==
    ASSUME NEW s, NEW me, NEW aim, Fed(s, me, aim), NoGain(s),
           NEW key, key \in Units => key \in aim
    PROVE  Fed(Defer(s, key, me), me, aim) /\ NoGain(Defer(s, key, me))
<1> DEFINE t == Waiting(s, me, TRUE)
           u == [t EXCEPT !.pending = Put(key, me, @),
                          !.intents = IF key \in Units THEN Put(<<key, "gain">>, me, @)
                                      ELSE @]
<1>1. Defer(s, key, me) = IF key \in DOMAIN s.pending THEN Finish(u, s.pending[key], "cancelled")
                          ELSE u
  BY DEF Defer
<1>2. Fed(t, me, aim) /\ NoGain(t)
  <2>1. DOMAIN s = Fields
    BY DEF Fed
  <2>2. Idle(s, t)
    BY <2>1, FailureIdles
  <2> HIDE DEF t
  <2> QED BY <2>2, IdleKeeps
<1> HIDE DEF t
<1>3. /\ DOMAIN u = Fields /\ u.jobs = t.jobs /\ u.queue = t.queue /\ u.nextJob = t.nextJob
      /\ u.pending = Put(key, me, t.pending)
  BY <1>2 DEF Fed, Fields
<1> HIDE DEF u
<1>4. /\ Recent(u) = Recent(t) /\ Held(u) = Held(t)
      /\ \A k : GivesGain(u, k) <=> GivesGain(t, k)
      /\ \A x \in Units : Places(u, x) = Places(t, x)
  BY <1>3 DEF Recent, Held, GivesGain, Places
<1>5. NoGain(u)
  BY <1>2, <1>4 DEF NoGain
<1>6. Numbered(u) /\ Given(u)
  BY <1>2, <1>3, <1>4 DEF Fed, Numbered, Given
<1>7. \A x \in Units \cap DOMAIN u.pending :
         \/ x \in DOMAIN c.pending /\ u.pending[x] = c.pending[x]
         \/ x \in aim /\ u.pending[x] = me
  BY <1>2, <1>3 DEF Fed, Put
<1>8. Fed(u, me, aim)
  BY <1>2, <1>3, <1>4, <1>5, <1>6, <1>7 DEF Fed, NoGain
<1> QED BY <1>1, <1>3, <1>5, <1>8, FinishIdles, IdleKeeps

LEMMA QueueDeviceFed ==
    ASSUME NEW s, NEW me \in Ids, NEW aim, Fed(s, me, aim), NEW u \in Units, NEW sets, NEW taking,
           "gain" \in sets => u \in aim /\ u \notin DOMAIN s.pending /\ NoGain(s)
    PROVE  /\ Fed(QueueDevice(s, me, u, sets, taking), me, aim)
           /\ "gain" \notin sets => Feeds(s, QueueDevice(s, me, u, sets, taking), me, aim)
<1> DEFINE q == QueueDevice(s, me, u, sets, taking)
           held == "mute" \in sets /\ u \in s.open /\ s.handover # "none"
           job == [owner |-> me, unit |-> u, sets |-> sets, held |-> held]
           line == IF held THEN s.queue[u] ELSE Append(s.queue[u], s.nextJob)
           t == [s EXCEPT
            !.nextJob = @ + 1,
            !.jobs = Put(s.nextJob, job, @),
            !.queue[u] = IF held THEN @ ELSE Append(@, s.nextJob),
            !.requests[me].remaining = @ \cup {s.nextJob},
            !.intents = Over([k \in {<<u, f>> : f \in sets} |-> me], @)]
<1>1. q = Failure(s, me, FALSE) \/ q = t
  BY DEF QueueDevice
<1>2. /\ DOMAIN s = Fields /\ Numbered(s) /\ Given(s)
      /\ c.nextJob <= s.nextJob
      /\ Held(s) \subseteq Held(c) \cup Recent(s)
  BY DEF Fed
<1>3. /\ DOMAIN t = Fields /\ t.pending = s.pending /\ t.nextJob = s.nextJob + 1
      /\ t.jobs = Put(s.nextJob, job, s.jobs)
      /\ t.queue = [s.queue EXCEPT ![u] = line]
  BY <1>2 DEF Fields
<1>4. /\ job.owner = me /\ job.unit = u /\ job.sets = sets /\ job.held = held
      /\ DOMAIN job = JobFields
  BY DEF JobFields
<1>5. s.nextJob \in Nat /\ s.nextJob \notin DOMAIN s.jobs /\ s.nextJob >= c.nextJob
  BY <1>2 DEF Numbered
<1> HIDE DEF t, job
<1>6. /\ DOMAIN t.jobs = DOMAIN s.jobs \cup {s.nextJob}
      /\ t.jobs[s.nextJob] = job
      /\ \A k \in DOMAIN s.jobs : t.jobs[k] = s.jobs[k]
  BY <1>3, <1>5 DEF Put
<1>7. s.queue[u] \in Seq(Nat) /\ line \in Seq(Nat)
  BY <1>2, <1>5 DEF Numbered
<1>8. /\ t.queue \in [Units -> Seq(Nat)] /\ t.queue[u] = line
      /\ \A x \in Units \ {u} : t.queue[x] = s.queue[x]
  BY <1>2, <1>3, <1>7 DEF Numbered
<1>9. Numbered(t)
  <2>1. t.nextJob \in Nat
    BY <1>3, <1>5
  <2>2. ASSUME NEW k \in DOMAIN t.jobs
        PROVE  /\ k \in Nat /\ k < t.nextJob /\ DOMAIN t.jobs[k] = JobFields
               /\ t.jobs[k].owner \in Ids
    BY <1>2, <1>3, <1>4, <1>5, <1>6 DEF Numbered
  <2> QED BY <1>8, <2>1, <2>2 DEF Numbered
<1>10. Recent(t) = Recent(s) \cup {s.nextJob}
  BY <1>5, <1>6 DEF Recent
<1>11. Held(t) \subseteq Held(s) \cup {s.nextJob}
  BY <1>6 DEF Held
<1>12. Given(t)
  <2> SUFFICES ASSUME NEW x \in Units
               PROVE  /\ Len(c.queue[x]) <= Len(t.queue[x])
                      /\ \A i \in Places(t, x) :
                            LET k == t.queue[x][i] IN
                            /\ k \in DOMAIN t.jobs /\ ~t.jobs[k].held /\ t.jobs[k].unit = x
                            /\ k \in Recent(t) \cup Held(c)
                      /\ \A i, j \in Places(t, x) : t.queue[x][i] = t.queue[x][j] => i = j
    BY DEF Given
  <2>1. /\ Len(c.queue[x]) <= Len(s.queue[x])
        /\ \A i \in Places(s, x) :
              LET k == s.queue[x][i] IN
              /\ k \in DOMAIN s.jobs /\ ~s.jobs[k].held /\ s.jobs[k].unit = x
              /\ k \in Recent(s) \cup Held(c)
        /\ \A i, j \in Places(s, x) : s.queue[x][i] = s.queue[x][j] => i = j
    BY <1>2 DEF Given
  <2>2. CASE t.queue[x] = s.queue[x]
    <3>1. Places(t, x) = Places(s, x)
      BY <2>2 DEF Places
    <3> QED BY <2>1, <2>2, <3>1, <1>6, <1>10
  <2>3. CASE x = u /\ ~held /\ t.queue[x] = Append(s.queue[u], s.nextJob)
    <3> DEFINE n == Len(s.queue[u]) + 1
    <3>1. /\ Len(s.queue[u]) \in Nat /\ Len(t.queue[x]) = n
          /\ t.queue[x][n] = s.nextJob
          /\ \A i \in 1..Len(s.queue[u]) : t.queue[x][i] = s.queue[x][i]
      BY <1>5, <1>7, <2>3
    <3> HIDE DEF n
    <3>2. Len(c.queue[x]) <= Len(t.queue[x])
          /\ \A i \in Places(t, x) : i = n \/ (i \in Places(s, x) /\ t.queue[x][i] = s.queue[x][i])
      <4>1. CASE Len(c.queue[x]) \in Int
        BY <2>1, <2>3, <3>1, <4>1 DEF Places, n
      <4>2. Len(c.queue[x]) \in Int
        BY DEF Fed, Numbered
      <4> QED BY <4>1, <4>2
    <3>3. ASSUME NEW i \in Places(t, x)
          PROVE  LET k == t.queue[x][i] IN
                 /\ k \in DOMAIN t.jobs /\ ~t.jobs[k].held /\ t.jobs[k].unit = x
                 /\ k \in Recent(t) \cup Held(c)
      <4>1. CASE i = n
        BY <1>4, <1>6, <1>10, <2>3, <3>1, <4>1
      <4>2. CASE i \in Places(s, x) /\ t.queue[x][i] = s.queue[x][i]
        BY <1>6, <1>10, <2>1, <4>2
      <4> QED BY <3>2, <4>1, <4>2
    <3>4. ASSUME NEW i \in Places(t, x), NEW j \in Places(t, x), t.queue[x][i] = t.queue[x][j]
          PROVE  i = j
      BY <1>5, <2>1, <3>1, <3>2, <3>4
    <3> QED BY <3>2, <3>3, <3>4
  <2> QED BY <1>8, <2>2, <2>3
<1>13. \A k : GivesGain(t, k) => GivesGain(s, k) \/ (k = s.nextJob /\ "gain" \in sets)
  BY <1>4, <1>6, <1>10 DEF GivesGain, Recent
<1>14. \A k : GivesGain(t, k) => /\ t.jobs[k].owner = me /\ t.jobs[k].unit \in aim
                                 /\ t.jobs[k].unit \notin DOMAIN t.pending
  <2> SUFFICES ASSUME NEW k, GivesGain(t, k)
               PROVE  /\ t.jobs[k].owner = me /\ t.jobs[k].unit \in aim
                      /\ t.jobs[k].unit \notin DOMAIN t.pending
    OBVIOUS
  <2>1. CASE GivesGain(s, k)
    <3>1. k \in DOMAIN s.jobs
      BY <2>1 DEF GivesGain, Recent
    <3> QED BY <1>3, <1>6, <2>1, <3>1 DEF Fed
  <2>2. CASE k = s.nextJob /\ "gain" \in sets
    BY <1>3, <1>4, <1>6, <2>2
  <2> QED BY <1>13, <2>1, <2>2
<1>15. \A k, l : GivesGain(t, k) /\ GivesGain(t, l) => k = l
  BY <1>13 DEF Fed, NoGain
<1>16. Fed(t, me, aim)
  <2>1. \A x \in Units \cap DOMAIN t.pending :
         \/ x \in DOMAIN c.pending /\ t.pending[x] = c.pending[x]
         \/ x \in aim /\ t.pending[x] = me
    BY <1>3 DEF Fed
  <2>2. c.nextJob <= t.nextJob
    <3>1. c.nextJob \in Nat
      BY DEF Fed, Numbered
    <3> QED BY <1>2, <1>3, <1>5, <3>1
  <2>3. Held(t) \subseteq Held(c) \cup Recent(t)
    BY <1>2, <1>10, <1>11
  <2> QED BY <1>3, <1>9, <1>12, <1>14, <1>15, <2>1, <2>2, <2>3 DEF Fed
<1>17. "gain" \notin sets => Feeds(s, t, me, aim)
  BY <1>3, <1>13, <1>16 DEF Feeds, NoGain
<1>18. Feeds(s, Failure(s, me, FALSE), me, aim)
  BY <1>2, FailureIdles, IdleFeeds
<1> HIDE DEF q
<1> QED BY <1>1, <1>16, <1>17, <1>18 DEF q, Feeds

LEMMA MirrorFeeds ==
    ASSUME NEW s, NEW me \in Ids, NEW aim, Fed(s, me, aim), NEW us \in SUBSET Units, NEW taking
    PROVE  Feeds(s, Mirror(s, me, us, taking), me, aim)
<1>1. DOMAIN s = Fields
  BY DEF Fed
<1>2. CASE us = {}
  BY <1>1, <1>2, Idling, IdleFeeds DEF Mirror
<1>3. CASE us # {}
  <2> DEFINE u == CHOOSE x \in us : TRUE
  <2>1. u \in Units
    BY <1>3
  <2>2. me # 0
    BY DEF Ids
  <2>3. Mirror(s, me, us, taking) = QueueDevice(s, me, u, {"mute"}, taking)
    BY <1>3, <2>2 DEF Mirror
  <2>4. "gain" \notin {"mute"}
    OBVIOUS
  <2> HIDE DEF u
  <2> QED BY <2>1, <2>3, <2>4, QueueDeviceFed
<1> QED BY <1>2, <1>3

LEMMA SyncMutesFeeds ==
    ASSUME NEW s, NEW me \in Ids, NEW aim, Fed(s, me, aim), NEW before, NEW excluded, NEW taking
    PROVE  Feeds(s, SyncMutes(s, before, me, excluded, taking), me, aim)
<1> DEFINE changed == (before \ s.open) \cup (s.open \ before)
           units == (changed \cap Units) \ excluded
           t == Mirror(s, me, units \ s.open, taking)
           done == Mirror(t, me, units \cap s.open, taking)
<1>1. \/ SyncMutes(s, before, me, excluded, taking) = done
      \/ SyncMutes(s, before, me, excluded, taking) = QueueCapture(done, me)
  BY DEF SyncMutes
<1>2. units \ s.open \in SUBSET Units /\ units \cap s.open \in SUBSET Units
  OBVIOUS
<1> HIDE DEF units
<1>3. Feeds(s, t, me, aim) /\ Fed(t, me, aim)
  BY <1>2, MirrorFeeds DEF Feeds
<1> HIDE DEF t
<1>4. Feeds(t, done, me, aim)
  BY <1>2, <1>3, MirrorFeeds
<1> HIDE DEF done
<1>5. Feeds(s, done, me, aim)
  BY <1>3, <1>4, FeedsOn
<1>6. Feeds(done, QueueCapture(done, me), me, aim)
  <2>1. Fed(done, me, aim) /\ DOMAIN done = Fields
    BY <1>5 DEF Feeds, Fed
  <2> QED BY <2>1, QueueCaptureIdles, IdleFeeds
<1> QED BY <1>1, <1>5, <1>6, FeedsOn

LEMMA SetsGainFed ==
    ASSUME NEW s, NEW me \in Ids, NEW aim, Fed(s, me, aim), NoGain(s), NEW u \in Units \cap aim
    PROVE  Fed(SetsGain(s, me, u), me, aim)
<1> DEFINE t == CancelPending(s, {u})
<1>1. \/ SetsGain(s, me, u) = Failure(s, me, FALSE)
      \/ SetsGain(s, me, u) = QueueDevice(t, me, u, {"gain"}, up)
  BY DEF SetsGain
<1>2. DOMAIN s = Fields
  BY DEF Fed
<1>3. Idle(s, t) /\ DOMAIN t.pending = DOMAIN s.pending \ {u}
  BY <1>2, CancelPendingIdles
<1> HIDE DEF t
<1>4. Fed(t, me, aim) /\ NoGain(t)
  BY <1>3, IdleKeeps
<1>5. Fed(QueueDevice(t, me, u, {"gain"}, up), me, aim)
  BY <1>3, <1>4, QueueDeviceFed
<1>6. Fed(Failure(s, me, FALSE), me, aim)
  BY <1>2, FailureIdles, IdleKeeps
<1> QED BY <1>1, <1>5, <1>6

\* What an event says of a job makes room in c for nothing.
LEMMA FinishedFed ==
    ASSUME Numbered(c), DOMAIN c = Fields, NEW k, NEW result, NEW muted
    PROVE  Fed(Finished(c, k, result, muted), 0, {})
<1> DEFINE job == c.jobs[k]
           t == [c EXCEPT !.jobs = Restrict(@, DOMAIN @ \ {k})]
           v == IF result = "ok"
                THEN IF job.unit \in t.units THEN ObserveUnit(t, job.unit, muted) ELSE t
                ELSE Failure(t, job.owner, result = "cancelled")
           w == IF job.owner \in DOMAIN v.requests
                THEN [v EXCEPT !.requests[job.owner].remaining = @ \ {k}] ELSE v
<1>1. \/ Finished(c, k, result, muted) = c
      \/ Finished(c, k, result, muted) = FinishIfReady(w, job.owner)
  BY DEF Finished
<1>2. /\ DOMAIN t = Fields /\ t.jobs = Restrict(c.jobs, DOMAIN c.jobs \ {k})
      /\ t.queue = c.queue /\ t.nextJob = c.nextJob /\ t.pending = c.pending
  BY DEF Fields
<1>3. /\ DOMAIN t.jobs \subseteq DOMAIN c.jobs
      /\ \A x \in DOMAIN t.jobs : t.jobs[x] = c.jobs[x]
  BY <1>2 DEF Restrict
<1> HIDE DEF t, job
<1>4. Fed(c, 0, {})
  BY Starts
<1>5. Fed(t, 0, {})
  BY <1>2, <1>3, Starts
<1>6. Idle(t, v) /\ DOMAIN v = Fields
  <2>1. Idle(t, ObserveUnit(t, job.unit, muted))
    BY <1>2, ObserveUnitIdles
  <2>2. Idle(t, Failure(t, job.owner, result = "cancelled"))
    BY <1>2, FailureIdles
  <2>3. Idle(t, t)
    BY <1>2, Idling
  <2>4. Idle(t, v)
    BY <2>1, <2>2, <2>3
  <2> HIDE DEF v
  <2> QED BY <2>4 DEF Idle
<1> HIDE DEF v
<1>7. Idle(v, w)
  BY <1>6 DEF Idle, Fields
<1> HIDE DEF w
<1>8. Fed(w, 0, {})
  BY <1>5, <1>6, <1>7, IdleKeeps
<1>9. Fed(FinishIfReady(w, job.owner), 0, {})
  <2>1. DOMAIN w = Fields
    BY <1>8 DEF Fed
  <2> QED BY <1>8, <2>1, FinishIdles, IdleKeeps
<1> QED BY <1>1, <1>4, <1>9

-----------------------------------------------------------------------------
(* Held jobs are sent in any order, but each of them once.                 *)

LEMMA InSome ==
    ASSUME NEW S, NEW f \in Each(S), NEW u \in Units PROVE f[u] \in S[u]
  BY DEF Each

LEMMA Listed ==
    ASSUME NEW n \in Nat, NEW S \in SUBSET (0..n), NEW q \in SetToSeqs(S)
    PROVE  /\ q \in Seq(S)
           /\ \A i, j \in DOMAIN q : q[i] = q[j] => i = j
<1>1. IsFiniteSet(0..n)
  BY FS_Interval
<1>2. Cardinality(S) \in Nat
  BY <1>1, FS_Subset, FS_CardinalityType
<1>3. q \in [1..Cardinality(S) -> S] /\ \A i, j \in 1..Cardinality(S) : i # j => q[i] # q[j]
  BY DEF SetToSeqs
<1>4. q \in Seq(S)
  BY <1>2, <1>3
<1> QED BY <1>3, <1>4

LEMMA Ordering ==
    ASSUME NEW s, Numbered(s), NEW taking, NEW order \in Orders(s, taking), NEW u \in Units
    PROVE  /\ order[u] \in Seq(Nat)
           /\ \A i \in DOMAIN order[u] :
                 /\ order[u][i] \in Free(s)
                 /\ s.jobs[order[u][i]].unit = u /\ u \in taking
           /\ \A i, j \in DOMAIN order[u] : order[u][i] = order[u][j] => i = j
<1> DEFINE S(x) == {k \in Free(s) : s.jobs[k].unit = x /\ x \in taking}
<1>1. CASE Free(s) = {}
  <2>1. order[u] = <<>>
    BY <1>1 DEF Orders
  <2> QED BY <2>1
<1>2. CASE Free(s) # {}
  <2>1. order \in Each([x \in Units |-> SetToSeqs(S(x))])
    BY <1>2 DEF Orders
  <2>2. order[u] \in SetToSeqs(S(u))
    BY <2>1, InSome
  <2>3. s.nextJob \in Nat /\ S(u) \in SUBSET (0..s.nextJob)
    BY DEF Numbered, Free, Held
  <2>4. S(u) \subseteq Nat /\ \A k \in S(u) : k \in Free(s) /\ s.jobs[k].unit = u /\ u \in taking
    BY <2>3
  <2> HIDE DEF S
  <2>5. order[u] \in Seq(S(u)) /\ \A i, j \in DOMAIN order[u] : order[u][i] = order[u][j] => i = j
    BY <2>2, <2>3, Listed
  <2>6. order[u] \in Seq(Nat) /\ \A i \in DOMAIN order[u] : order[u][i] \in S(u)
    BY <2>4, <2>5
  <2> QED BY <2>4, <2>5, <2>6
<1> QED BY <1>1, <1>2

LEMMA Joined ==
    ASSUME NEW S, NEW p \in Seq(S), NEW q \in Seq(S)
    PROVE  /\ p \o q \in Seq(S)
           /\ Len(p \o q) = Len(p) + Len(q) /\ Len(q) \in Nat /\ Len(p) \in Nat
           /\ DOMAIN q = 1..Len(q)
           /\ \A i \in 1..Len(p) : (p \o q)[i] = p[i]
           /\ \A i \in Len(p) + 1 .. Len(p \o q) : (p \o q)[i] = q[i - Len(p)]
<1>1. /\ p \o q \in Seq(S)
      /\ Len(p \o q) = Len(p) + Len(q) /\ Len(q) \in Nat /\ Len(p) \in Nat
      /\ DOMAIN q = 1..Len(q)
  OBVIOUS
<1>2. ASSUME NEW i \in 1..Len(p) PROVE (p \o q)[i] = p[i]
  BY <1>1
<1>3. ASSUME NEW i \in Len(p) + 1 .. Len(p \o q) PROVE (p \o q)[i] = q[i - Len(p)]
  BY <1>1
<1> QED BY <1>1, <1>2, <1>3

LEMMA SettleJobsFed ==
    ASSUME NEW s, NEW me, NEW aim, Fed(s, me, aim), NEW taking, NEW order \in Orders(s, taking)
    PROVE  Fed(SettleJobs(s, order, taking), me, aim)
<1> DEFINE cancelled == {k \in Held(s) : Superseded(s, s.jobs[k])}
           going  == {k \in Free(s) : s.jobs[k].unit \in taking}
           gone   == cancelled \cup (Free(s) \ going)
           owners(ks) == {s.jobs[k].owner : k \in ks}
           blamed == owners(gone) \cap DOMAIN s.requests
           t == [s EXCEPT
                !.jobs = Over([k \in going |-> [s.jobs[k] EXCEPT !.held = FALSE]],
                              Restrict(@, DOMAIN @ \ gone)),
                !.queue = [u \in Units |-> @[u] \o order[u]],
                !.requests = Over([id \in blamed |->
                   [s.requests[id] EXCEPT !.remaining = @ \ gone, !.failed = TRUE,
                                          !.cancelled = @ \/ id \in owners(cancelled)]], @)]
<1>0. DOMAIN s = Fields /\ Numbered(s) /\ Given(s)
  BY DEF Fed
<1>1. SettleJobs(s, order, taking) = IF Held(s) = {} THEN s ELSE FinishReady(t, owners(gone))
  BY DEF SettleJobs
<1>2. /\ going \subseteq Held(s) /\ gone \subseteq Held(s) /\ Held(s) \subseteq DOMAIN s.jobs
      /\ going \cap gone = {}
      /\ \A k \in Held(s) : s.jobs[k].held
      /\ \A k \in Free(s) : \A u : s.jobs[k].unit = u /\ u \in taking => k \in going
  BY DEF Free, Held
<1>3. /\ DOMAIN t = Fields /\ t.pending = s.pending /\ t.nextJob = s.nextJob
      /\ t.jobs = Over([k \in going |-> [s.jobs[k] EXCEPT !.held = FALSE]],
                       Restrict(s.jobs, DOMAIN s.jobs \ gone))
      /\ t.queue = [u \in Units |-> s.queue[u] \o order[u]]
  <2> HIDE DEF blamed, gone, going, cancelled
  <2> QED BY <1>0 DEF Fields
<1> HIDE DEF blamed, gone, going, cancelled, t
<1>4. /\ DOMAIN t.jobs = DOMAIN s.jobs \ gone
      /\ \A k \in DOMAIN t.jobs :
            t.jobs[k] = IF k \in going THEN [s.jobs[k] EXCEPT !.held = FALSE] ELSE s.jobs[k]
  BY <1>2, <1>3 DEF Over, Restrict
<1>5. ASSUME NEW k \in DOMAIN t.jobs
      PROVE  /\ k \in DOMAIN s.jobs /\ DOMAIN t.jobs[k] = JobFields
             /\ t.jobs[k].owner = s.jobs[k].owner /\ t.jobs[k].unit = s.jobs[k].unit
             /\ t.jobs[k].sets = s.jobs[k].sets
             /\ t.jobs[k].held => s.jobs[k].held
             /\ k \in going => ~t.jobs[k].held
  <2>1. k \in DOMAIN s.jobs /\ DOMAIN s.jobs[k] = JobFields
    BY <1>0, <1>4 DEF Numbered
  <2> QED BY <1>4, <2>1 DEF JobFields
<1>6. Recent(t) \subseteq Recent(s)
  BY <1>4 DEF Recent
<1>7. Held(t) \subseteq Held(s)
  BY <1>5 DEF Held
<1>8. Numbered(t)
  <2>1. ASSUME NEW u \in Units PROVE t.queue[u] \in Seq(Nat)
    <3>1. s.queue[u] \in Seq(Nat) /\ order[u] \in Seq(Nat)
      BY <1>0, Ordering DEF Numbered
    <3>2. t.queue[u] = s.queue[u] \o order[u]
      BY <1>3
    <3> QED BY <3>1, <3>2
  <2>2. t.queue \in [Units -> Seq(Nat)]
    BY <1>3, <2>1
  <2>3. \A k \in DOMAIN t.jobs : /\ k \in Nat /\ k < t.nextJob /\ DOMAIN t.jobs[k] = JobFields
                                 /\ t.jobs[k].owner \in Ids
    BY <1>0, <1>3, <1>5 DEF Numbered
  <2> QED BY <1>0, <1>3, <2>2, <2>3 DEF Numbered
<1>9. Given(t)
  <2> SUFFICES ASSUME NEW u \in Units
               PROVE  /\ Len(c.queue[u]) <= Len(t.queue[u])
                      /\ \A i \in Places(t, u) :
                            LET k == t.queue[u][i] IN
                            /\ k \in DOMAIN t.jobs /\ ~t.jobs[k].held /\ t.jobs[k].unit = u
                            /\ k \in Recent(t) \cup Held(c)
                      /\ \A i, j \in Places(t, u) : t.queue[u][i] = t.queue[u][j] => i = j
    BY DEF Given
  <2> DEFINE n == Len(s.queue[u])
  <2>1. /\ Len(c.queue[u]) <= n
        /\ \A i \in Places(s, u) :
              LET k == s.queue[u][i] IN
              /\ k \in DOMAIN s.jobs /\ ~s.jobs[k].held /\ s.jobs[k].unit = u
              /\ k \in Recent(s) \cup Held(c)
        /\ \A i, j \in Places(s, u) : s.queue[u][i] = s.queue[u][j] => i = j
    BY <1>0 DEF Given
  <2>2. /\ order[u] \in Seq(Nat)
        /\ \A i \in DOMAIN order[u] :
              /\ order[u][i] \in Free(s)
              /\ s.jobs[order[u][i]].unit = u /\ u \in taking
        /\ \A i, j \in DOMAIN order[u] : order[u][i] = order[u][j] => i = j
    BY <1>0, Ordering
  <2>3. s.queue[u] \in Seq(Nat) /\ n \in Nat /\ Len(c.queue[u]) \in Nat
    BY <1>0 DEF Fed, Numbered
  <2>4. t.queue[u] = s.queue[u] \o order[u]
    BY <1>3
  <2>5. /\ Len(t.queue[u]) = n + Len(order[u]) /\ Len(order[u]) \in Nat
        /\ DOMAIN order[u] = 1..Len(order[u])
        /\ \A i \in 1..n : t.queue[u][i] = s.queue[u][i]
        /\ \A i \in n + 1 .. Len(t.queue[u]) : t.queue[u][i] = order[u][i - n]
    <3> DEFINE old == s.queue[u]
               new == order[u]
    <3>1. old \in Seq(Nat) /\ new \in Seq(Nat)
      BY <2>2, <2>3
    <3>2. n = Len(old) /\ t.queue[u] = old \o new
      BY <2>4
    <3> HIDE DEF old, new, n
    <3>3. /\ Len(old \o new) = Len(old) + Len(new) /\ Len(new) \in Nat
          /\ DOMAIN new = 1..Len(new)
          /\ \A i \in 1..Len(old) : (old \o new)[i] = old[i]
          /\ \A i \in Len(old) + 1 .. Len(old \o new) : (old \o new)[i] = new[i - Len(old)]
      BY <3>1, Joined
    <3>4. /\ Len(t.queue[u]) = n + Len(new) /\ Len(new) \in Nat
          /\ DOMAIN new = 1..Len(new)
          /\ \A i \in 1..n : t.queue[u][i] = old[i]
          /\ \A i \in n + 1 .. Len(t.queue[u]) : t.queue[u][i] = new[i - n]
      BY <3>2, <3>3
    <3>5. old = s.queue[u] /\ new = order[u]
      BY DEF old, new
    <3> QED BY <3>4, <3>5
  <2> HIDE DEF n
  <2>6. ASSUME NEW i \in Places(t, u)
        PROVE  \/ i \in Places(s, u) /\ i <= n /\ t.queue[u][i] = s.queue[u][i]
               \/ i > n /\ i - n \in DOMAIN order[u] /\ t.queue[u][i] = order[u][i - n]
    <3>1. i \in Nat /\ Len(c.queue[u]) + 1 <= i /\ i <= n + Len(order[u])
      BY <2>3, <2>5 DEF Places
    <3>2. CASE i <= n
      <4>1. i \in 1..n /\ i \in Len(c.queue[u]) + 1 .. n
        BY <2>3, <3>1, <3>2
      <4>2. t.queue[u][i] = s.queue[u][i]
        BY <2>5, <4>1
      <4>3. i \in Places(s, u)
        BY <4>1 DEF Places, n
      <4> QED BY <3>2, <4>2, <4>3
    <3>3. CASE i > n
      BY <2>3, <2>5, <3>1, <3>3
    <3> QED BY <2>3, <3>1, <3>2, <3>3
  <2>7. Len(c.queue[u]) <= Len(t.queue[u])
    BY <2>1, <2>3, <2>5
  <2>8. ASSUME NEW i \in Places(t, u)
        PROVE  LET k == t.queue[u][i] IN
               /\ k \in DOMAIN t.jobs /\ ~t.jobs[k].held /\ t.jobs[k].unit = u
               /\ k \in Recent(t) \cup Held(c)
    <3> DEFINE k == t.queue[u][i]
    <3>1. CASE i \in Places(s, u) /\ t.queue[u][i] = s.queue[u][i]
      <4>1. /\ k \in DOMAIN s.jobs /\ ~s.jobs[k].held /\ s.jobs[k].unit = u
            /\ k \in Recent(s) \cup Held(c)
        BY <2>1, <3>1
      <4>2. k \in DOMAIN t.jobs
        BY <1>2, <1>4, <4>1
      <4> QED BY <1>3, <1>5, <4>1, <4>2 DEF Recent
    <3>2. CASE i - n \in DOMAIN order[u] /\ t.queue[u][i] = order[u][i - n]
      <4>1. k \in Free(s) /\ s.jobs[k].unit = u /\ u \in taking
        BY <2>2, <3>2
      <4>2. k \in going /\ k \in Held(s)
        BY <1>2, <4>1
      <4>3. k \in DOMAIN t.jobs
        BY <1>2, <1>4, <4>2
      <4>4. k \in Recent(s) \cup Held(c)
        BY <4>2 DEF Fed
      <4> QED BY <1>3, <1>5, <4>1, <4>2, <4>3, <4>4 DEF Recent
    <3> QED BY <2>6, <3>1, <3>2
  <2>9. ASSUME NEW i \in Places(t, u), NEW j \in Places(t, u), t.queue[u][i] = t.queue[u][j]
        PROVE  i = j
    <3>1. \A x \in Places(s, u), y \in DOMAIN order[u] : s.queue[u][x] # order[u][y]
      BY <1>2, <2>1, <2>2 DEF Free
    <3>2. i \in Int /\ j \in Int
      BY <2>3, <2>5 DEF Places
    <3>3. CASE i > n /\ j > n
      BY <2>2, <2>3, <2>6, <2>9, <3>2, <3>3
    <3>4. CASE i <= n /\ j <= n
      BY <2>1, <2>3, <2>6, <2>9, <3>2, <3>4
    <3>5. CASE (i <= n /\ j > n) \/ (i > n /\ j <= n)
      BY <2>3, <2>6, <2>9, <3>1, <3>2, <3>5
    <3> QED BY <2>3, <3>2, <3>3, <3>4, <3>5
  <2> QED BY <2>7, <2>8, <2>9
<1>10. \A k : GivesGain(t, k) => GivesGain(s, k) /\ k \in DOMAIN t.jobs
  BY <1>5, <1>6 DEF GivesGain, Recent
<1>11. Fed(t, me, aim)
  <2>1. Held(t) \subseteq Held(c) \cup Recent(t)
    BY <1>3, <1>7 DEF Fed, Recent, Held
  <2>2. \A k : GivesGain(t, k) => /\ t.jobs[k].owner = me /\ t.jobs[k].unit \in aim
                                  /\ t.jobs[k].unit \notin DOMAIN t.pending
    <3>1. \A k : GivesGain(s, k) => /\ s.jobs[k].owner = me /\ s.jobs[k].unit \in aim
                                    /\ s.jobs[k].unit \notin DOMAIN s.pending
      BY DEF Fed
    <3>2. \A k \in DOMAIN t.jobs : t.jobs[k].owner = s.jobs[k].owner
                                   /\ t.jobs[k].unit = s.jobs[k].unit
      BY <1>5
    <3> QED BY <1>3, <1>10, <3>1, <3>2
  <2>3. \A k, l : GivesGain(t, k) /\ GivesGain(t, l) => k = l
    BY <1>10 DEF Fed
  <2>4. \A u \in Units \cap DOMAIN t.pending :
          \/ u \in DOMAIN c.pending /\ t.pending[u] = c.pending[u]
          \/ u \in aim /\ t.pending[u] = me
    BY <1>3 DEF Fed
  <2>5. Numbered(c) /\ c.nextJob <= t.nextJob
    BY <1>3 DEF Fed
  <2> QED BY <1>3, <1>8, <1>9, <2>1, <2>2, <2>3, <2>4, <2>5 DEF Fed
<1>12. Fed(FinishReady(t, owners(gone)), me, aim)
  BY <1>3, <1>11, FinishIdles, IdleKeeps
<1> QED BY <1>1, <1>12

LEMMA AdvanceFed ==
    ASSUME NEW s, NEW me, NEW aim, Fed(s, me, aim), NEW t \in Judged(s), NEW taking,
           NEW order \in Orders(t, taking)
    PROVE  Fed(Advance(t, order, taking), me, aim)
<1> DEFINE v == SettleJobs(t, order, taking)
<1>1. Advance(t, order, taking) = IF t.frozen THEN t ELSE SettleCapture(v)
  BY DEF Advance
<1>2. DOMAIN s = Fields
  BY DEF Fed
<1>3. Idle(s, t)
  <2>1. t = s \/ \E verdict : t = [s EXCEPT !.handover = verdict]
    BY DEF Judged
  <2> QED BY <1>2, <2>1, Idling DEF Idle, Fields
<1>4. Fed(t, me, aim)
  BY <1>3, IdleKeeps
<1>5. Fed(v, me, aim)
  BY <1>4, SettleJobsFed
<1> HIDE DEF v
<1>6. Fed(SettleCapture(v), me, aim)
  <2>1. DOMAIN v = Fields
    BY <1>5 DEF Fed
  <2> QED BY <1>5, <2>1, SettleCaptureIdles, IdleKeeps
<1> QED BY <1>1, <1>4, <1>6

-----------------------------------------------------------------------------
(* What the end of a handler sends.                                        *)

Entries == [id : Ids, held : BOOLEAN]

\* A command that comes after every gain that u was sent, the held ones aside.
Follows(u, id) == \A i \in DOMAIN sent[u] : ~sent[u][i].held => sent[u][i].id < id

LEMMA Giving ==
    ASSUME NEW s, NEW me, NEW aim, Fed(s, me, aim), NEW u \in Units,
           NEW g \in InOrder(Gains(s, u))
    PROVE  /\ g \in Seq(Places(s, u))
           /\ \A i \in DOMAIN g :
                 LET k == s.queue[u][g[i]] IN
                 /\ k \in DOMAIN s.jobs /\ s.jobs[k].owner \in Ids
                 /\ k \notin Held(c) => GivesGain(s, k) /\ s.jobs[k].unit = u
           /\ \A i, j \in DOMAIN g : s.queue[u][g[i]] = s.queue[u][g[j]] => i = j
<1>1. /\ Numbered(s) /\ Given(s) /\ Len(s.queue[u]) \in Nat /\ Len(c.queue[u]) \in Nat
  <2>1. Numbered(s) /\ Given(s) /\ Numbered(c)
    BY DEF Fed
  <2>2. s.queue[u] \in Seq(Nat) /\ c.queue[u] \in Seq(Nat)
    BY <2>1 DEF Numbered
  <2> QED BY <2>1, <2>2
<1>2. /\ Gains(s, u) \in SUBSET (0..Len(s.queue[u]))
      /\ Gains(s, u) \subseteq Places(s, u)
      /\ \A x \in Gains(s, u) : "gain" \in s.jobs[s.queue[u][x]].sets
  BY <1>1 DEF Gains, Places
<1>3. g \in SetToSeqs(Gains(s, u))
  BY DEF InOrder
<1>4. g \in Seq(Gains(s, u)) /\ \A i, j \in DOMAIN g : g[i] = g[j] => i = j
  BY <1>1, <1>2, <1>3, Listed
<1>5. g \in Seq(Places(s, u)) /\ \A i \in DOMAIN g : g[i] \in Gains(s, u) /\ g[i] \in Places(s, u)
  BY <1>2, <1>4
<1>6. ASSUME NEW i \in DOMAIN g
      PROVE  LET k == s.queue[u][g[i]] IN
             /\ k \in DOMAIN s.jobs /\ s.jobs[k].owner \in Ids
             /\ k \notin Held(c) => GivesGain(s, k) /\ s.jobs[k].unit = u
  <2> DEFINE k == s.queue[u][g[i]]
  <2>1. k \in DOMAIN s.jobs /\ s.jobs[k].unit = u /\ k \in Recent(s) \cup Held(c)
    BY <1>1, <1>5 DEF Given
  <2>2. "gain" \in s.jobs[k].sets
    BY <1>2, <1>5
  <2> HIDE DEF k
  <2>3. s.jobs[k].owner \in Ids
    BY <1>1, <2>1 DEF Numbered
  <2>4. k \notin Held(c) => GivesGain(s, k)
    BY <2>1, <2>2 DEF GivesGain
  <2> QED BY <2>1, <2>3, <2>4 DEF k
<1>7. \A i, j \in DOMAIN g : s.queue[u][g[i]] = s.queue[u][g[j]] => i = j
  BY <1>1, <1>4, <1>5 DEF Given
<1> QED BY <1>5, <1>6, <1>7

\* What u is sent by a handler: at most one gain that was not held, of the
\* command that is handled, and then no edit of u is pending.
Handed(s, u, g) ==
    [i \in DOMAIN g |-> [id |-> s.jobs[s.queue[u][g[i]]].owner,
                         held |-> s.queue[u][g[i]] \in Held(c)]]

LEMMA Sending ==
    ASSUME NEW s, NEW me, NEW aim, Fed(s, me, aim), NEW u \in Units,
           NEW g \in InOrder(Gains(s, u)), NEW new, new = Handed(s, u, g)
    PROVE  /\ new \in Seq(Entries)
           /\ \A i \in DOMAIN new :
                 /\ Owns(s, new[i].id)
                 /\ ~new[i].held => new[i].id = me /\ u \in aim /\ u \notin DOMAIN s.pending
           /\ \A i, j \in DOMAIN new : ~new[i].held /\ ~new[j].held => i = j
<1>1. /\ g \in Seq(Places(s, u))
      /\ \A i \in DOMAIN g :
            LET k == s.queue[u][g[i]] IN
            /\ k \in DOMAIN s.jobs /\ s.jobs[k].owner \in Ids
            /\ k \notin Held(c) => GivesGain(s, k) /\ s.jobs[k].unit = u
      /\ \A i, j \in DOMAIN g : s.queue[u][g[i]] = s.queue[u][g[j]] => i = j
  BY Giving
<1>2. DOMAIN g = 1..Len(g) /\ Len(g) \in Nat
  BY <1>1
<1>3. /\ DOMAIN new = DOMAIN g /\ new = [i \in DOMAIN g |-> new[i]]
      /\ \A i \in DOMAIN g : new[i] = [id |-> s.jobs[s.queue[u][g[i]]].owner,
                                       held |-> s.queue[u][g[i]] \in Held(c)]
  BY DEF Handed
<1>4. ASSUME NEW i \in DOMAIN new
      PROVE  /\ new[i] \in Entries /\ Owns(s, new[i].id)
             /\ ~new[i].held => /\ GivesGain(s, s.queue[u][g[i]])
                                /\ new[i].id = me /\ u \in aim /\ u \notin DOMAIN s.pending
  <2> DEFINE k == s.queue[u][g[i]]
  <2>1. /\ k \in DOMAIN s.jobs /\ s.jobs[k].owner \in Ids
        /\ k \notin Held(c) => GivesGain(s, k) /\ s.jobs[k].unit = u
    BY <1>1, <1>3
  <2>2. new[i] = [id |-> s.jobs[k].owner, held |-> k \in Held(c)]
    BY <1>3
  <2> HIDE DEF k
  <2>3. new[i] \in Entries /\ Owns(s, new[i].id)
    BY <2>1, <2>2 DEF Entries, Owns
  <2>4. ~new[i].held => GivesGain(s, k) /\ new[i].id = me /\ u \in aim /\ u \notin DOMAIN s.pending
    <3>1. \A x : GivesGain(s, x) => /\ s.jobs[x].owner = me /\ s.jobs[x].unit \in aim
                                    /\ s.jobs[x].unit \notin DOMAIN s.pending
      BY DEF Fed
    <3>2. new[i].id = s.jobs[k].owner /\ new[i].held = (k \in Held(c))
      BY <2>2
    <3>3. k \notin Held(c) => GivesGain(s, k) /\ s.jobs[k].unit = u
      BY <2>1
    <3> QED BY <3>1, <3>2, <3>3
  <2> QED BY <2>3, <2>4 DEF k
<1>5. new \in Seq(Entries)
  <2>1. \A i \in 1..Len(g) : new[i] \in Entries
    BY <1>2, <1>3, <1>4
  <2>2. new \in [1..Len(g) -> Entries]
    BY <1>2, <1>3, <2>1
  <2> QED BY <1>2, <2>2
<1>6. \A i, j \in DOMAIN new : ~new[i].held /\ ~new[j].held => i = j
  <2>1. \A k, l : GivesGain(s, k) /\ GivesGain(s, l) => k = l
    BY DEF Fed
  <2> QED BY <1>1, <1>3, <1>4, <2>1
<1> QED BY <1>4, <1>5, <1>6

\* One unit's part of a step that sends new after old.
LEMMA Extending ==
    ASSUME NEW old \in Seq(Entries), NEW new \in Seq(Entries), NEW me,
           \A i, j \in DOMAIN old :
              i < j /\ ~old[i].held /\ ~old[j].held => old[i].id < old[j].id,
           \A i \in DOMAIN new : ~new[i].held => new[i].id = me,
           \A i, j \in DOMAIN new : ~new[i].held /\ ~new[j].held => i = j,
           (\E j \in DOMAIN new : ~new[j].held) =>
              \A i \in DOMAIN old : ~old[i].held => old[i].id < me
    PROVE  LET all == old \o new IN
           /\ all \in Seq(Entries)
           /\ \A i \in DOMAIN all : \/ \E j \in DOMAIN old : all[i] = old[j]
                                    \/ \E j \in DOMAIN new : all[i] = new[j]
           /\ \A i, j \in DOMAIN all :
                 i < j /\ ~all[i].held /\ ~all[j].held => all[i].id < all[j].id
<1> DEFINE all == old \o new
           n == Len(old)
<1>1. /\ all \in Seq(Entries) /\ n \in Nat /\ Len(new) \in Nat
      /\ Len(all) = n + Len(new)
      /\ DOMAIN old = 1..n /\ DOMAIN new = 1..Len(new) /\ DOMAIN all = 1..Len(all)
      /\ \A i \in 1..n : all[i] = old[i]
      /\ \A i \in n + 1 .. Len(all) : all[i] = new[i - n]
  <2>1. /\ all \in Seq(Entries) /\ n \in Nat /\ Len(new) \in Nat
        /\ Len(all) = n + Len(new)
        /\ \A i \in 1..n : all[i] = old[i]
        /\ \A i \in n + 1 .. Len(all) : all[i] = new[i - n]
    BY Joined
  <2>2. DOMAIN old = 1..n /\ DOMAIN new = 1..Len(new)
    OBVIOUS
  <2> HIDE DEF all
  <2>3. DOMAIN all = 1..Len(all)
    BY <2>1
  <2> QED BY <2>1, <2>2, <2>3
<1> HIDE DEF all, n
<1>2. ASSUME NEW i \in DOMAIN all
      PROVE  \/ i \in DOMAIN old /\ all[i] = old[i]
             \/ i > n /\ i - n \in DOMAIN new /\ all[i] = new[i - n]
  <2>1. CASE i <= n
    BY <1>1, <2>1
  <2>2. CASE i > n
    BY <1>1, <2>2
  <2> QED BY <1>1, <2>1, <2>2
<1>3. ASSUME NEW i \in DOMAIN all, NEW j \in DOMAIN all, i < j, ~all[i].held, ~all[j].held
      PROVE  all[i].id < all[j].id
  <2>1. CASE i \in DOMAIN old /\ all[i] = old[i]
    <3>1. CASE j \in DOMAIN old /\ all[j] = old[j]
      BY <1>3, <2>1, <3>1
    <3>2. CASE j > n /\ j - n \in DOMAIN new /\ all[j] = new[j - n]
      BY <1>3, <2>1, <3>2
    <3> QED BY <1>2, <3>1, <3>2
  <2>2. CASE i > n /\ i - n \in DOMAIN new /\ all[i] = new[i - n]
    <3>1. CASE j \in DOMAIN old /\ all[j] = old[j]
      BY <1>1, <1>3, <2>2, <3>1
    <3>2. CASE j > n /\ j - n \in DOMAIN new /\ all[j] = new[j - n]
      <4>1. i - n = j - n
        BY <1>3, <2>2, <3>2
      <4> QED BY <1>1, <1>3, <4>1
    <3> QED BY <1>2, <3>1, <3>2
  <2> QED BY <1>2, <2>1, <2>2
<1>4. /\ all \in Seq(Entries)
      /\ \A i \in DOMAIN all : \/ \E j \in DOMAIN old : all[i] = old[j]
                               \/ \E j \in DOMAIN new : all[i] = new[j]
  BY <1>1, <1>2
<1> QED BY <1>3, <1>4 DEF all

-----------------------------------------------------------------------------
(* The invariant of the order: commands leave the channel in the order of  *)
(* their numbers; gains that were sent are of commands that left it, and   *)
(* of older ones than the edit that is pending for the unit.               *)

LInv ==
    /\ WInv /\ Numbered(c)
    /\ sent \in [Units -> Seq(Entries)]
    /\ \A u \in Units : \A i \in DOMAIN sent[u] : sent[u][i].id \in Taken(c)
    /\ \A u \in Units \cap DOMAIN c.pending : Follows(u, c.pending[u])
    /\ \A i, j \in DOMAIN channel : i < j => channel[i].id < channel[j].id
    /\ \A i \in DOMAIN channel : \A id \in Taken(c) : id < channel[i].id
    /\ LaterEditWins

\* The order of the channel survives what the controller reads of it.
InLine ==
    /\ \A i, j \in DOMAIN channel : i < j => channel[i].id < channel[j].id
    /\ \A i \in DOMAIN channel : \A id \in Taken(c) : id < channel[i].id

Reading == channel' = channel \/ (channel # <<>> /\ channel' = Tail(channel)) \/ channel' = <<>>

LEMMA StaysInLine ==
    ASSUME Inv, Inv', InLine, admission'.next = admission.next, Reading
    PROVE  InLine' /\ \A id \in Taken(c) : id \in Taken(c')
<1>1. ASSUME NEW id \in Taken(c) PROVE id \in Taken(c')
  <2>1. id \in Ids /\ ~InChannel(id)
    BY NotBoth DEF Taken
  <2>2. ~InChannel(id)'
    <3>1. CASE channel' = channel
      BY <2>1, <3>1 DEF InChannel
    <3>2. CASE channel # <<>> /\ channel' = Tail(channel)
      BY <2>1, <3>2, Departing
    <3>3. CASE channel' = <<>>
      BY <3>3 DEF InChannel
    <3> QED BY <3>1, <3>2, <3>3 DEF Reading
  <2> QED BY <2>1, <2>2, TakenStay
<1>2. ASSUME NEW id \in Taken(c'), id \notin Taken(c) PROVE InChannel(id) /\ ~InChannel(id)'
  <2>1. id \in Ids /\ Owed(c', id) # 0 /\ Owed(c, id) = 0
    BY <1>2 DEF Taken
  <2>2. Owed(c', id) \in Nat
    BY <2>1, OwedIsNat DEF Inv
  <2>3. Place(id)' = Place(id) /\ Place(id)' \in {0, 1}
    BY <2>1 DEF Inv, Admitted
  <2>4. ~InChannel(id)' /\ Place(id)' # 0
    BY <2>1, <2>2, <2>3 DEF Place
  <2> QED BY <2>1, <2>3, <2>4 DEF Place
<1>3. CASE channel' = channel
  <2>1. \A id \in Taken(c') : id \in Taken(c)
    BY <1>2, <1>3 DEF InChannel
  <2> QED BY <1>1, <1>3, <2>1 DEF InLine
<1>4. CASE channel # <<>> /\ channel' = Tail(channel)
  <2>1. /\ DOMAIN channel' = 1..Len(channel) - 1
        /\ Len(channel) \in Nat
        /\ DOMAIN channel = 1..Len(channel)
        /\ \A i \in DOMAIN channel' : channel'[i] = channel[i + 1]
    <3>1. channel \in Seq(Messages)
      BY DEF Inv
    <3> QED BY <1>4, <3>1
  <2>2. \A i \in DOMAIN channel' : i + 1 \in DOMAIN channel /\ i + 1 > 1 /\ i \in Nat
    BY <2>1
  <2>3. Id = channel[1].id /\ 1 \in DOMAIN channel
    BY <1>4, Beginning DEF Id
  <2>4. \A id \in Taken(c') : id \in Taken(c) \/ id = Id
    <3>1. ASSUME NEW id \in Taken(c') PROVE id \in Taken(c) \/ id = Id
      <4>1. id \in Ids
        BY DEF Taken
      <4> QED BY <1>2, <1>4, <4>1, Departing
    <3> QED BY <3>1
  <2>5. \A i, j \in DOMAIN channel' : i < j => channel'[i].id < channel'[j].id
    <3> SUFFICES ASSUME NEW i \in DOMAIN channel', NEW j \in DOMAIN channel', i < j
                 PROVE  channel'[i].id < channel'[j].id
      OBVIOUS
    <3>1. i + 1 \in DOMAIN channel /\ j + 1 \in DOMAIN channel /\ i + 1 < j + 1
      BY <2>2
    <3> QED BY <2>1, <3>1 DEF InLine
  <2>6. \A i \in DOMAIN channel' : \A id \in Taken(c') : id < channel'[i].id
    <3> SUFFICES ASSUME NEW i \in DOMAIN channel', NEW id \in Taken(c')
                 PROVE  id < channel'[i].id
      OBVIOUS
    <3>1. channel'[i] = channel[i + 1] /\ i + 1 \in DOMAIN channel /\ 1 < i + 1
      BY <2>1, <2>2
    <3>2. CASE id \in Taken(c)
      BY <3>1, <3>2 DEF InLine
    <3>3. CASE id = Id
      BY <2>3, <3>1, <3>3 DEF InLine
    <3> QED BY <2>4, <3>2, <3>3
  <2> QED BY <1>1, <2>5, <2>6 DEF InLine
<1>5. CASE channel' = <<>>
  BY <1>1, <1>5 DEF InLine
<1> QED BY <1>1, <1>3, <1>4, <1>5 DEF Reading

LEMMA Delivers ==
    ASSUME LInv, WInv', admission'.next = admission.next, Reading,
           NEW s, NEW me, NEW aim, Fed(s, me, aim), Becomes(s),
           \A u \in Units \cap aim : Follows(u, me)
    PROVE  LInv'
<1>1. c' = s
  BY DEF Becomes
<1>2. InLine' /\ \A id \in Taken(c) : id \in Taken(c')
  <2>1. Inv /\ Inv' /\ InLine
    BY DEF LInv, WInv, InLine
  <2> QED BY <2>1, StaysInLine
<1>3. Numbered(c)'
  <2>1. Numbered(s)
    BY DEF Fed
  <2> QED BY <1>1, <2>1 DEF Numbered
<1> DEFINE Good(u, all) ==
              /\ all \in Seq(Entries)
              /\ \A i \in DOMAIN all : all[i].id \in Taken(c) \/ Owns(s, all[i].id)
              /\ \A i, j \in DOMAIN all :
                    i < j /\ ~all[i].held /\ ~all[j].held => all[i].id < all[j].id
              /\ u \in DOMAIN s.pending =>
                    \A i \in DOMAIN all : ~all[i].held => all[i].id < s.pending[u]
<1>4. ASSUME NEW u \in Units
      PROVE  /\ sent[u] \in Seq(Entries)
             /\ \A i \in DOMAIN sent[u] : sent[u][i].id \in Taken(c)
             /\ \A i, j \in DOMAIN sent[u] :
                   i < j /\ ~sent[u][i].held /\ ~sent[u][j].held => sent[u][i].id < sent[u][j].id
             /\ u \in DOMAIN s.pending => Follows(u, s.pending[u])
             /\ u \in aim => Follows(u, me)
  <2>1. u \in DOMAIN s.pending => Follows(u, s.pending[u])
    BY DEF Fed, LInv
  <2> QED BY <2>1 DEF LInv, LaterEditWins
<1>5. ASSUME NEW u \in Units PROVE Good(u, sent[u])
  BY <1>4 DEF Follows
<1>6. ASSUME NEW u \in Units, NEW g \in InOrder(Gains(s, u)),
             NEW new, new = [i \in DOMAIN g |-> [id |-> s.jobs[s.queue[u][g[i]]].owner,
                                                 held |-> s.queue[u][g[i]] \in Held(c)]]
      PROVE  Good(u, sent[u] \o new)
  <2>1. /\ new \in Seq(Entries)
        /\ \A i \in DOMAIN new :
              /\ Owns(s, new[i].id)
              /\ ~new[i].held => new[i].id = me /\ u \in aim /\ u \notin DOMAIN s.pending
        /\ \A i, j \in DOMAIN new : ~new[i].held /\ ~new[j].held => i = j
    <3>1. new = Handed(s, u, g)
      BY <1>6 DEF Handed
    <3> HIDE DEF Good
    <3> QED BY <3>1, Sending
  <2> DEFINE old == sent[u]
             all == old \o new
  <2>2. /\ old \in Seq(Entries)
        /\ \A i, j \in DOMAIN old :
              i < j /\ ~old[i].held /\ ~old[j].held => old[i].id < old[j].id
        /\ (\E j \in DOMAIN new : ~new[j].held) =>
              \A i \in DOMAIN old : ~old[i].held => old[i].id < me
        /\ \A i \in DOMAIN old : old[i].id \in Taken(c)
        /\ u \in DOMAIN s.pending =>
              \A i \in DOMAIN old : ~old[i].held => old[i].id < s.pending[u]
    BY <1>4, <2>1 DEF Follows
  <2> HIDE DEF old
  <2>3. /\ all \in Seq(Entries)
        /\ \A i \in DOMAIN all : \/ \E j \in DOMAIN old : all[i] = old[j]
                                 \/ \E j \in DOMAIN new : all[i] = new[j]
        /\ \A i, j \in DOMAIN all :
              i < j /\ ~all[i].held /\ ~all[j].held => all[i].id < all[j].id
    <3>1. \A i \in DOMAIN new : ~new[i].held => new[i].id = me
      BY <2>1
    <3>2. \A i, j \in DOMAIN new : ~new[i].held /\ ~new[j].held => i = j
      BY <2>1
    <3>3. \A i, j \in DOMAIN old :
             i < j /\ ~old[i].held /\ ~old[j].held => old[i].id < old[j].id
      BY <2>2
    <3>4. (\E j \in DOMAIN new : ~new[j].held) =>
             \A i \in DOMAIN old : ~old[i].held => old[i].id < me
      BY <2>2
    <3>5. old \in Seq(Entries) /\ new \in Seq(Entries)
      BY <2>1, <2>2
    <3> QED BY <3>1, <3>2, <3>3, <3>4, <3>5, Extending
  <2> HIDE DEF all
  <2>4. \A i \in DOMAIN all : all[i].id \in Taken(c) \/ Owns(s, all[i].id)
    BY <2>1, <2>2, <2>3
  <2>5. u \in DOMAIN s.pending =>
           \A i \in DOMAIN all : ~all[i].held => all[i].id < s.pending[u]
    BY <2>1, <2>2, <2>3
  <2>6. Good(u, all)
    BY <2>3, <2>4, <2>5
  <2> QED BY <2>6 DEF all, old
<1>7. sent' = [u \in Units |-> sent'[u]] /\ \A u \in Units : Good(u, sent'[u])
  <2>1. CASE UNCHANGED sent
    <3>1. sent' = [u \in Units |-> sent'[u]]
      BY <2>1 DEF LInv
    <3> QED BY <1>5, <2>1, <3>1
  <2>2. CASE \E given \in Each([u \in Units |-> InOrder(Gains(s, u))]) :
                sent' = [u \in Units |-> sent[u] \o
                           [i \in DOMAIN given[u] |->
                              [id |-> s.jobs[s.queue[u][given[u][i]]].owner,
                               held |-> s.queue[u][given[u][i]] \in Held(c)]]]
    <3>1. PICK given \in Each([u \in Units |-> InOrder(Gains(s, u))]) :
                sent' = [u \in Units |-> sent[u] \o
                           [i \in DOMAIN given[u] |->
                              [id |-> s.jobs[s.queue[u][given[u][i]]].owner,
                               held |-> s.queue[u][given[u][i]] \in Held(c)]]]
      BY <2>2
    <3>2. ASSUME NEW u \in Units PROVE Good(u, sent'[u])
      <4>1. given[u] \in InOrder(Gains(s, u))
        BY InSome
      <4> DEFINE new == [i \in DOMAIN given[u] |->
                           [id |-> s.jobs[s.queue[u][given[u][i]]].owner,
                            held |-> s.queue[u][given[u][i]] \in Held(c)]]
      <4>2. sent'[u] = sent[u] \o new
        BY <3>1
      <4> HIDE DEF Good
      <4>3. Good(u, sent[u] \o new)
        BY <1>6, <4>1
      <4> QED BY <4>2, <4>3
    <3> DEFINE line(u) == sent[u] \o [i \in DOMAIN given[u] |->
                              [id |-> s.jobs[s.queue[u][given[u][i]]].owner,
                               held |-> s.queue[u][given[u][i]] \in Held(c)]]
    <3>3. sent' = [u \in Units |-> line(u)]
      BY <3>1
    <3> HIDE DEF line
    <3>4. sent' = [u \in Units |-> sent'[u]]
      BY <3>3
    <3> QED BY <3>2, <3>4
  <2> QED BY <2>1, <2>2 DEF Becomes
<1>8. /\ sent' \in [Units -> Seq(Entries)]
      /\ \A u \in Units : \A i \in DOMAIN sent'[u] : sent'[u][i].id \in Taken(c')
      /\ \A u \in Units \cap DOMAIN c'.pending : Follows(u, c.pending[u])'
      /\ LaterEditWins'
  <2>1. \A u \in Units : sent'[u] \in Seq(Entries)
    BY <1>7
  <2>2. sent' \in [Units -> Seq(Entries)]
    <3>1. sent' = [u \in Units |-> sent'[u]]
      BY <1>7
    <3> QED BY <2>1, <3>1
  <2>3. ASSUME NEW u \in Units, NEW i \in DOMAIN sent'[u] PROVE sent'[u][i].id \in Taken(c')
    <3>1. sent'[u][i] \in Entries
      BY <2>1
    <3>2. sent'[u][i].id \in Ids
      BY <3>1 DEF Entries
    <3>3. \A id \in Ids : Owns(c', id) => id \in Taken(c')
      BY DEF WInv
    <3> QED BY <1>1, <1>2, <1>7, <3>2, <3>3
  <2>4. \A u \in Units \cap DOMAIN c'.pending : Follows(u, c.pending[u])'
    BY <1>1, <1>7 DEF Follows
  <2>5. LaterEditWins'
    BY <1>7 DEF LaterEditWins
  <2> QED BY <2>2, <2>3, <2>4, <2>5
<1> QED BY <1>2, <1>3, <1>8 DEF LInv, InLine

\* Steps that send nothing: of workers, of admission, at the end.
LEMMA Withholds ==
    ASSUME LInv, WInv', admission'.next = admission.next, Reading, UNCHANGED sent,
           Numbered(c)', DOMAIN c'.pending \subseteq DOMAIN c.pending,
           \A k \in DOMAIN c'.pending : c'.pending[k] = c.pending[k]
    PROVE  LInv'
<1>1. InLine' /\ \A id \in Taken(c) : id \in Taken(c')
  <2>1. Inv /\ Inv' /\ InLine
    BY DEF LInv, WInv, InLine
  <2> QED BY <2>1, StaysInLine
<1>2. \A u \in Units : \A i \in DOMAIN sent'[u] : sent'[u][i].id \in Taken(c')
  BY <1>1 DEF LInv
<1>3. \A u \in Units \cap DOMAIN c'.pending : Follows(u, c.pending[u])'
  BY DEF LInv, Follows
<1>4. LaterEditWins' /\ sent' \in [Units -> Seq(Entries)]
  BY DEF LInv, LaterEditWins
<1> QED BY <1>1, <1>2, <1>3, <1>4 DEF LInv, InLine

-----------------------------------------------------------------------------
(* The actions, and the order.                                             *)

LEMMA BegunFed ==
    ASSUME LInv, channel # <<>>
    PROVE  /\ Id \in Ids /\ Fed(Begun, Id, Units) /\ NoGain(Begun) /\ DOMAIN Begun = Fields
           /\ Fed(Rejected, Id, Units)
           /\ \A u \in Units : Follows(u, Id)
<1>1. /\ Inv /\ DOMAIN c = Fields /\ Numbered(c)
  BY DEF LInv, WInv, Inv, Shape
<1>2. Id \in Ids /\ Head(channel) = channel[1] /\ 1 \in DOMAIN channel
  BY <1>1, Beginning
<1>3. \A me : Fed(c, me, Units) /\ NoGain(c)
  BY <1>1, Starts
<1>4. DOMAIN Begun = Fields /\ Idle(c, Begun)
  BY <1>1, BegunIdles
<1>5. Fed(Begun, Id, Units) /\ NoGain(Begun)
  BY <1>3, <1>4, IdleKeeps
<1>6. Fed(Rejected, Id, Units)
  <2>1. Idle(Begun, Rejected)
    BY <1>4, FailureIdles DEF Rejected
  <2> QED BY <1>5, <2>1, IdleKeeps
<1>7. \A u \in Units : Follows(u, Id)
  BY <1>2 DEF LInv, Follows, Id
<1> QED BY <1>2, <1>4, <1>5, <1>6, <1>7

LEMMA AppliesDelivers ==
    ASSUME LInv, WInv', admission'.next = admission.next, Reading,
           NEW s, NEW me, NEW aim, Fed(s, me, aim), NEW id, Applies(s, id),
           \A u \in Units \cap aim : Follows(u, me)
    PROVE  LInv'
<1>1. PICK t \in Judged(s) : \E order \in Orders(t, up) :
         Becomes(FinishIfReady(Advance(t, order, up), id))
  BY DEF Applies
<1>2. PICK order \in Orders(t, up) : Becomes(FinishIfReady(Advance(t, order, up), id))
  BY <1>1
<1> DEFINE v == Advance(t, order, up)
           w == FinishIfReady(v, id)
<1>3. Fed(v, me, aim)
  BY AdvanceFed
<1> HIDE DEF v
<1>4. DOMAIN v = Fields
  BY <1>3 DEF Fed
<1>5. Fed(w, me, aim)
  BY <1>3, <1>4, FinishIdles, IdleKeeps
<1>6. Becomes(w)
  BY <1>2 DEF v
<1> HIDE DEF w
<1> QED BY <1>5, <1>6, Delivers

LEMMA Executed ==
    ASSUME LInv, WInv', NEW kind, Takes(kind), NEW s, Fed(s, Id, Units), Applies(s, Id)
    PROVE  LInv'
<1>1. channel # <<>> /\ Reading /\ admission'.next = admission.next
  BY DEF Takes, Reading
<1>2. \A u \in Units \cap Units : Follows(u, Id)
  BY <1>1, BegunFed
<1> QED BY <1>1, <1>2, AppliesDelivers

LEMMA Observed ==
    ASSUME LInv, WInv', Observing, NEW s, Fed(s, 0, {}), Absorbs(s)
    PROVE  LInv'
<1>1. PICK t \in Judged(s) : \E order \in Orders(t, up) : Becomes(Advance(t, order, up))
  BY DEF Absorbs
<1>2. PICK order \in Orders(t, up) : Becomes(Advance(t, order, up))
  BY <1>1
<1> DEFINE v == Advance(t, order, up)
<1>3. Fed(v, 0, {})
  BY AdvanceFed
<1>4. Reading /\ admission'.next = admission.next
  BY DEF Observing, Reading
<1>5. Becomes(v)
  BY <1>2
<1> HIDE DEF v
<1> QED BY <1>3, <1>4, <1>5, Delivers

LEMMA DragOrdered == ASSUME LInv, WInv', NEW u \in Units, Drag(u) PROVE LInv'
<1> DEFINE s == IF GainRefused(Begun, u) THEN Rejected ELSE Defer(Begun, u, Id)
<1>1. Takes("drag") /\ Applies(s, Id) /\ channel # <<>>
  BY DEF Drag, Takes
<1>2. Fed(Defer(Begun, u, Id), Id, Units)
  BY <1>1, BegunFed, DeferFed
<1>3. Fed(s, Id, Units)
  BY <1>1, <1>2, BegunFed
<1> HIDE DEF s
<1> QED BY <1>1, <1>3, Executed

LEMMA SetGainOrdered == ASSUME LInv, WInv', NEW u \in Units, SetGain(u) PROVE LInv'
<1> DEFINE s == SetsGain(Begun, Id, u)
<1>1. Takes("gain") /\ Applies(s, Id) /\ channel # <<>>
  BY DEF SetGain, Takes
<1>2. u \in Units \cap Units
  OBVIOUS
<1>3. Fed(s, Id, Units)
  BY <1>1, <1>2, BegunFed, SetsGainFed
<1> HIDE DEF s
<1> QED BY <1>1, <1>3, Executed

LEMMA DragFxOrdered == ASSUME LInv, WInv', DragFx PROVE LInv'
<1> DEFINE s == Defer(Begun, Fx, Id)
<1>1. Takes("fx") /\ Applies(s, Id) /\ channel # <<>>
  BY DEF DragFx, Takes
<1>2. Fed(s, Id, Units)
  BY <1>1, BegunFed, DeferFed
<1> HIDE DEF s
<1> QED BY <1>1, <1>2, Executed

LEMMA EditFxOrdered == ASSUME LInv, WInv', EditFx PROVE LInv'
<1> DEFINE s == CancelPending(Begun, {Fx})
           t == Failure(s, Id, FALSE)
<1>1. Takes("edit") /\ channel # <<>> /\ (Applies(s, Id) \/ Applies(t, Id))
  BY DEF EditFx, Takes
<1>2. Idle(Begun, s)
  BY <1>1, BegunFed, CancelPendingIdles
<1> HIDE DEF s
<1>3. Fed(s, Id, Units) /\ DOMAIN s = Fields
  BY <1>1, <1>2, BegunFed, IdleKeeps DEF Idle
<1>4. Fed(t, Id, Units)
  BY <1>3, FailureIdles, IdleKeeps
<1> HIDE DEF t
<1> QED BY <1>1, <1>3, <1>4, Executed

LEMMA SetRowOrdered == ASSUME LInv, WInv', NEW row, SetRow(row) PROVE LInv'
<1> DEFINE open == IF row \in c.open THEN c.open \ {row} ELSE Opening(c, row)
           t == Commit(Begun, open)
           s == SyncMutes(t, c.open, Id, {}, up)
<1>1. Takes("row") /\ channel # <<>> /\ (Applies(s, Id) \/ Applies(Rejected, Id))
  BY DEF SetRow, Takes
<1> HIDE DEF open
<1>2. Fed(t, Id, Units)
  BY <1>1, BegunFed, CommitIdles, IdleKeeps
<1> HIDE DEF t
<1>3. Fed(s, Id, Units)
  BY <1>1, <1>2, BegunFed, SyncMutesFeeds DEF Feeds
<1> HIDE DEF s
<1> QED BY <1>1, <1>3, BegunFed, Executed

LEMMA ApplySceneOrdered ==
    ASSUME LInv, WInv', NEW u \in Units, NEW row, NEW named, ApplyScene(u, row, named)
    PROVE  LInv'
<1> DEFINE begun == [Begun EXCEPT !.requests[Id].scene = TRUE]
           open  == Opening(c, row)
           v     == Commit(begun, open)
           s     == CancelPending(v, {u})
           t     == SyncMutes(s, c.open, Id, {u}, up)
           sets  == {f \in Settings :
                       IF f = "gain" THEN ~(c.locked /\ u \in c.selected)
                       ELSE named \/ (u \in c.open) # (u \in open)}
           away  == SyncMutes(v, c.open, Id, {}, up)
           queued == QueueDevice(t, Id, u, sets, up)
           all   == IF u \notin c.units THEN away ELSE IF sets = {} THEN t ELSE queued
<1>1. Takes("scene") /\ channel # <<>> /\ Applies(all, Id)
  BY DEF ApplyScene, Takes
<1>2. /\ Id \in Ids /\ Fed(Begun, Id, Units) /\ NoGain(Begun) /\ DOMAIN Begun = Fields
  BY <1>1, BegunFed
<1>3. Idle(Begun, begun) /\ DOMAIN begun = Fields
  BY <1>2 DEF Idle, Fields
<1> HIDE DEF begun, open, sets
<1>4. Idle(Begun, v) /\ DOMAIN v = Fields
  BY <1>3, CommitIdles, IdlingOn DEF Idle
<1> HIDE DEF v
<1>5. Idle(Begun, s) /\ u \notin DOMAIN s.pending
  <2>1. Idle(v, s) /\ DOMAIN s.pending = DOMAIN v.pending \ {u}
    BY <1>4, CancelPendingIdles
  <2> QED BY <1>4, <2>1, IdlingOn
<1> HIDE DEF s
<1>6. Fed(v, Id, Units) /\ Fed(s, Id, Units) /\ NoGain(s)
  BY <1>2, <1>4, <1>5, IdleKeeps
<1>7. Feeds(s, t, Id, Units)
  BY <1>2, <1>6, SyncMutesFeeds
<1> HIDE DEF t
<1>8. Fed(t, Id, Units) /\ NoGain(t) /\ u \notin DOMAIN t.pending
  BY <1>5, <1>6, <1>7 DEF Feeds
<1>9. Fed(away, Id, Units)
  BY <1>2, <1>6, SyncMutesFeeds DEF Feeds
<1> HIDE DEF away
<1>10. Fed(queued, Id, Units)
  BY <1>2, <1>8, QueueDeviceFed
<1> HIDE DEF queued
<1>11. Fed(all, Id, Units)
  BY <1>8, <1>9, <1>10
<1> HIDE DEF all
<1> QED BY <1>1, <1>11, Executed

LEMMA AskHostOrdered == ASSUME LInv, WInv', AskHost PROVE LInv'
<1> DEFINE t == Waiting(Begun, Id, TRUE)
           s == [t EXCEPT !.host = Append(@, Id)]
<1>1. Takes("host") /\ Applies(s, Id) /\ channel # <<>>
  BY DEF AskHost, Takes
<1>2. Idle(Begun, t)
  BY <1>1, BegunFed, FailureIdles
<1> HIDE DEF t
<1>3. Idle(t, s)
  BY <1>2 DEF Idle, Fields
<1> HIDE DEF s
<1>4. Fed(s, Id, Units)
  BY <1>1, <1>2, <1>3, BegunFed, IdleKeeps
<1> QED BY <1>1, <1>4, Executed

LEMMA StartCalibrationOrdered == ASSUME LInv, WInv', StartCalibration PROVE LInv'
<1> DEFINE s == EndCalibration(Begun, "cancelled")
           t == [s EXCEPT !.session = Id]
           f == Failure(s, Id, FALSE)
           v == IF c.known THEN t ELSE f
<1>1. Takes("start") /\ Applies(v, Id) /\ channel # <<>>
  BY DEF StartCalibration, Takes
<1>2. Idle(Begun, s)
  BY <1>1, BegunFed, EndCalibrationIdles
<1> HIDE DEF s
<1>3. Fed(s, Id, Units) /\ DOMAIN s = Fields
  BY <1>1, <1>2, BegunFed, IdleKeeps DEF Idle
<1>4. Idle(s, t)
  BY <1>3 DEF Idle, Fields
<1>5. Idle(s, f)
  BY <1>3, FailureIdles
<1> HIDE DEF t, f
<1>6. Fed(v, Id, Units)
  BY <1>3, <1>4, <1>5, IdleKeeps
<1> HIDE DEF v
<1> QED BY <1>1, <1>6, Executed

LEMMA RecordOrdered == ASSUME LInv, WInv', Record PROVE LInv'
<1> DEFINE t == Waiting(Begun, Id, TRUE)
           s == [t EXCEPT !.recording = Id, !.tapes = Append(@, c.session)]
           e == EndCalibration(Begun, "rejected")
           f == Failure(e, Id, FALSE)
           v == IF c.session # 0 /\ ~c.known THEN f
                ELSE IF c.session = 0 \/ c.recording # 0 THEN Rejected ELSE s
<1>1. Takes("record") /\ Applies(v, Id) /\ channel # <<>>
  BY DEF Record, Takes
<1>2. Idle(Begun, t) /\ Idle(Begun, e)
  BY <1>1, BegunFed, FailureIdles, EndCalibrationIdles
<1> HIDE DEF t, e
<1>3. /\ Fed(t, Id, Units) /\ Fed(e, Id, Units)
      /\ DOMAIN t = Fields /\ DOMAIN e = Fields
  BY <1>1, <1>2, BegunFed, IdleKeeps DEF Idle
<1>4. Idle(t, s)
  BY <1>3 DEF Idle, Fields
<1>5. Idle(e, f)
  BY <1>3, FailureIdles
<1> HIDE DEF s, f
<1>6. Fed(v, Id, Units)
  BY <1>1, <1>3, <1>4, <1>5, BegunFed, IdleKeeps
<1> HIDE DEF v
<1> QED BY <1>1, <1>6, Executed

LEMMA CancelCalibrationOrdered == ASSUME LInv, WInv', CancelCalibration PROVE LInv'
<1> DEFINE e == EndCalibration(Begun, "cancelled")
           s == IF c.session = 0 THEN Rejected ELSE e
<1>1. Takes("cancel") /\ Applies(s, Id) /\ channel # <<>>
  BY DEF CancelCalibration, Takes
<1>2. Idle(Begun, e)
  BY <1>1, BegunFed, EndCalibrationIdles
<1> HIDE DEF e
<1>3. Fed(s, Id, Units)
  BY <1>1, <1>2, BegunFed, IdleKeeps
<1> HIDE DEF s
<1> QED BY <1>1, <1>3, Executed

LEMMA SelectUnitOrdered == ASSUME LInv, WInv', NEW u, SelectUnit(u) PROVE LInv'
<1> DEFINE t == CancelPending(Begun, Units)
           v == [t EXCEPT !.selected = {u}]
           s == IF u \in c.units THEN v ELSE Rejected
<1>1. Takes("select") /\ Applies(s, Id) /\ channel # <<>>
  BY DEF SelectUnit, Takes
<1>2. Idle(Begun, t)
  BY <1>1, BegunFed, CancelPendingIdles
<1> HIDE DEF t
<1>3. Idle(t, v)
  BY <1>2 DEF Idle, Fields
<1> HIDE DEF v
<1>4. Fed(s, Id, Units)
  BY <1>1, <1>2, <1>3, BegunFed, IdleKeeps
<1> HIDE DEF s
<1> QED BY <1>1, <1>4, Executed

LEMMA SetGainLockOrdered == ASSUME LInv, WInv', SetGainLock PROVE LInv'
<1> DEFINE t == [Begun EXCEPT !.locked = FALSE]
           s == IF c.locked THEN t ELSE LockGain(Begun)
<1>1. Takes("lock") /\ channel # <<>> /\ (Applies(s, Id) \/ Applies(Rejected, Id))
  BY DEF SetGainLock, Takes
<1>2. Idle(Begun, t)
  BY <1>1, BegunFed DEF Idle, Fields
<1> HIDE DEF t
<1>3. Idle(Begun, LockGain(Begun))
  BY <1>1, BegunFed, LockGainIdles
<1>4. Fed(s, Id, Units)
  BY <1>1, <1>2, <1>3, BegunFed, IdleKeeps
<1> HIDE DEF s
<1> QED BY <1>1, <1>4, BegunFed, Executed

LEMMA DueOrdered == ASSUME LInv, WInv', NEW key, Due(key) PROVE LInv'
<1> DEFINE id == c.pending[key]
           aim == Units \cap {key}
           r == [c EXCEPT !.pending = Restrict(@, DOMAIN @ \ {key})]
           s == Waiting(r, id, FALSE)
           g == SetsGain(s, id, key)
           f == Failure(s, id, FALSE)
<1>1. /\ UNCHANGED <<admission, channel>> /\ key \in DOMAIN c.pending
      /\ (key \in Units /\ Applies(g, id)) \/ Applies(s, id) \/ Applies(f, id)
  BY DEF Due
<1>2. DOMAIN c = Fields /\ Numbered(c) /\ id \in Ids
  BY <1>1 DEF LInv, WInv, Inv, Shape, Apart
<1>3. /\ DOMAIN r = Fields /\ r.jobs = c.jobs /\ r.queue = c.queue /\ r.nextJob = c.nextJob
      /\ r.pending = Restrict(c.pending, DOMAIN c.pending \ {key})
  BY <1>2 DEF Fields
<1>4. DOMAIN r.pending \subseteq DOMAIN c.pending
      /\ \A k \in DOMAIN r.pending : r.pending[k] = c.pending[k]
  BY <1>3 DEF Restrict
<1>5. \A u \in Units \cap aim : Follows(u, id)
  BY <1>1 DEF LInv
<1> HIDE DEF r, id
<1>6. Fed(r, id, aim) /\ NoGain(r)
  BY <1>2, <1>3, <1>4, Starts
<1>7. Fed(s, id, aim) /\ NoGain(s) /\ DOMAIN s = Fields
  <2>1. Idle(r, s)
    BY <1>3, FailureIdles
  <2> HIDE DEF s
  <2> QED BY <1>6, <2>1, IdleKeeps DEF Idle
<1> HIDE DEF s
<1>8. key \in Units => Fed(g, id, aim)
  <2>1. key \in Units => key \in Units \cap aim
    OBVIOUS
  <2> QED BY <1>2, <1>7, <2>1, SetsGainFed
<1>9. Fed(f, id, aim)
  BY <1>7, FailureIdles, IdleKeeps
<1> HIDE DEF g, f, aim
<1>10. Reading /\ admission'.next = admission.next
  BY <1>1 DEF Reading
<1> QED BY <1>1, <1>5, <1>7, <1>8, <1>9, <1>10, AppliesDelivers

LEMMA RefuseOrdered == ASSUME LInv, WInv', Refuse PROVE LInv'
<1> DEFINE s == Finish(Begun, Id, "cancelled")
<1>1. channel # <<>> /\ Reading /\ admission'.next = admission.next /\ Becomes(s)
  BY DEF Refuse, Reading
<1>2. Fed(s, Id, Units)
  BY <1>1, BegunFed, FinishIdles, IdleKeeps
<1> HIDE DEF s
<1>3. \A u \in Units \cap Units : Follows(u, Id)
  BY <1>1, BegunFed
<1> QED BY <1>1, <1>2, <1>3, Delivers

LEMMA RefuseRemovalOrdered == ASSUME LInv, WInv', RefuseRemoval PROVE LInv'
<1>1. channel # <<>> /\ Reading /\ admission'.next = admission.next /\ Applies(Rejected, Id)
  BY DEF RefuseRemoval, Reading
<1>2. \A u \in Units \cap Units : Follows(u, Id)
  BY <1>1, BegunFed
<1> QED BY <1>1, <1>2, BegunFed, AppliesDelivers

LEMMA CalmFed ==
    ASSUME LInv
    PROVE  DOMAIN c = Fields /\ Numbered(c) /\ \A s : Idle(c, s) => Fed(s, 0, {})
<1>1. DOMAIN c = Fields /\ Numbered(c)
  BY DEF LInv, WInv, Inv, Shape
<1>2. Fed(c, 0, {})
  BY <1>1, Starts
<1> QED BY <1>1, <1>2, IdleKeeps

LEMMA HandleDeviceOrdered == ASSUME LInv, WInv', HandleDevice PROVE LInv'
<1> DEFINE e == Head(devq)
           seen(muted) == ObserveUnit(c, e.unit, muted)
           done(muted) == Finished(c, e.job, e.result, muted)
           gone == UnitRetired(c, e.unit)
<1>1. PICK muted : /\ Observing
                   /\ Absorbs(CASE e.kind = "unit"     -> seen(muted)
                                [] e.kind = "finished" -> done(muted)
                                [] OTHER               -> gone)
  BY DEF HandleDevice
<1>2. Observing /\ (Absorbs(seen(muted)) \/ Absorbs(done(muted)) \/ Absorbs(gone))
  <2> HIDE DEF seen, done, gone
  <2>1. CASE e.kind = "unit"
    BY <1>1, <2>1
  <2>2. CASE e.kind = "finished"
    BY <1>1, <2>2
  <2>3. CASE e.kind # "unit" /\ e.kind # "finished"
    BY <1>1, <2>3
  <2> QED BY <2>1, <2>2, <2>3
<1>3. Fed(seen(muted), 0, {}) /\ Fed(gone, 0, {})
  BY CalmFed, ObserveUnitIdles, UnitRetiredIdles
<1>4. Fed(done(muted), 0, {})
  BY CalmFed, FinishedFed
<1> HIDE DEF seen, done, gone
<1> QED BY <1>2, <1>3, <1>4, Observed

LEMMA HandleHostOrdered == ASSUME LInv, WInv', HandleHost PROVE LInv'
<1> DEFINE e == Head(hostq)
           s == IF e.result = "ok" THEN c ELSE Failure(c, e.id, e.result = "cancelled")
           t == Waiting(s, e.id, FALSE)
           v == FinishIfReady(t, e.id)
<1>1. Observing /\ Absorbs(v)
  BY DEF HandleHost
<1> HIDE DEF e
<1>2. Idle(c, s) /\ DOMAIN s = Fields
  <2>1. Idle(c, Failure(c, e.id, e.result = "cancelled")) /\ Idle(c, c)
    BY CalmFed, FailureIdles, Idling
  <2>2. Idle(c, s)
    BY <2>1
  <2> HIDE DEF s
  <2> QED BY <2>2 DEF Idle
<1> HIDE DEF s
<1>3. Idle(s, t) /\ DOMAIN t = Fields
  <2>1. Idle(s, t)
    BY <1>2, FailureIdles
  <2> HIDE DEF t
  <2> QED BY <2>1 DEF Idle
<1> HIDE DEF t
<1>4. Idle(t, v)
  BY <1>3, FinishIdles
<1> HIDE DEF v
<1>5. Fed(v, 0, {})
  BY <1>2, <1>3, <1>4, IdlingOn, CalmFed
<1> QED BY <1>1, <1>5, Observed

LEMMA HandleCalibrationOrdered == ASSUME LInv, WInv', HandleCalibration PROVE LInv'
<1> DEFINE s == CalibrationComplete(c, Head(calq))
<1>1. Observing /\ Absorbs(s)
  BY DEF HandleCalibration
<1>2. Fed(s, 0, {})
  BY CalmFed, CalibrationCompleteIdles
<1> HIDE DEF s
<1> QED BY <1>1, <1>2, Observed

LEMMA HandleGraphOrdered == ASSUME LInv, WInv', HandleGraph PROVE LInv'
<1>1. PICK known, open : Observing /\ Absorbs(ObserveGraph(c, known, open))
  BY DEF HandleGraph
<1> DEFINE s == ObserveGraph(c, known, open)
<1>2. Fed(s, 0, {})
  BY CalmFed, ObserveGraphIdles
<1>3. Absorbs(s)
  BY <1>1
<1> HIDE DEF s
<1> QED BY <1>1, <1>2, <1>3, Observed

LEMMA WorkersOrdered ==
    ASSUME LInv, WInv',
           \/ \E u \in Units : Polls(u) \/ Completes(u) \/ Retires(u)
           \/ HostAnswers \/ Records \/ StopWorkers
    PROVE  LInv'
<1>1. DOMAIN c = Fields /\ Numbered(c)
  BY CalmFed
<1>2. Reading /\ admission'.next = admission.next /\ UNCHANGED sent
  BY DEF Polls, Completes, Retires, HostAnswers, Records, StopWorkers, Working, Moves, Reading
<1>3. \/ c' = c
      \/ \E u \in Units : c' = [c EXCEPT !.queue[u] = <<>>]
      \/ \E u \in Units : c.queue[u] # <<>> /\ c' = [c EXCEPT !.queue[u] = Tail(@)]
      \/ \E q : c' = [c EXCEPT !.host = q]
      \/ \E q : c' = [c EXCEPT !.tapes = q]
      \/ c' = [c EXCEPT !.queue = [u \in Units |-> <<>>], !.host = <<>>, !.tapes = <<>>]
  BY DEF Polls, Completes, Retires, HostAnswers, Records, StopWorkers
<1>4. /\ c'.jobs = c.jobs /\ c'.nextJob = c.nextJob /\ c'.pending = c.pending
  <2>1. \/ c' = c
        \/ \E u \in Units : \E q : c' = [c EXCEPT !.queue[u] = q]
        \/ \E q : c' = [c EXCEPT !.host = q]
        \/ \E q : c' = [c EXCEPT !.tapes = q]
        \/ c' = [c EXCEPT !.queue = [u \in Units |-> <<>>], !.host = <<>>, !.tapes = <<>>]
    BY <1>3
  <2> QED BY <1>1, <2>1, Rewired
<1>5. c'.queue \in [Units -> Seq(Nat)]
  <2>0. c.queue \in [Units -> Seq(Nat)]
    BY <1>1 DEF Numbered
  <2>1. CASE c'.queue = c.queue
    BY <2>0, <2>1
  <2>2. CASE \E u \in Units : c' = [c EXCEPT !.queue[u] = <<>>]
    <3>1. PICK u \in Units : c' = [c EXCEPT !.queue[u] = <<>>]
      BY <2>2
    <3>2. c'.queue = [c.queue EXCEPT ![u] = <<>>]
      BY <1>1, <3>1 DEF Fields
    <3> QED BY <2>0, <3>2
  <2>3. CASE \E u \in Units : c.queue[u] # <<>> /\ c' = [c EXCEPT !.queue[u] = Tail(@)]
    <3>1. PICK u \in Units : c.queue[u] # <<>> /\ c' = [c EXCEPT !.queue[u] = Tail(@)]
      BY <2>3
    <3>2. c'.queue = [c.queue EXCEPT ![u] = Tail(c.queue[u])]
      BY <1>1, <3>1 DEF Fields
    <3>3. Tail(c.queue[u]) \in Seq(Nat)
      BY <2>0, <3>1
    <3> QED BY <2>0, <3>2, <3>3
  <2>4. CASE c' = [c EXCEPT !.queue = [u \in Units |-> <<>>], !.host = <<>>, !.tapes = <<>>]
    <3>1. c'.queue = [u \in Units |-> <<>>]
      BY <1>1, <2>4 DEF Fields
    <3> QED BY <3>1
  <2>5. CASE (\E q : c' = [c EXCEPT !.host = q]) \/ (\E q : c' = [c EXCEPT !.tapes = q])
    <3>1. c'.queue = c.queue
      BY <1>1, <2>5 DEF Fields
    <3> QED BY <2>0, <3>1
  <2> QED BY <1>3, <2>1, <2>2, <2>3, <2>4, <2>5
<1>6. Numbered(c)'
  BY <1>1, <1>4, <1>5 DEF Numbered
<1> QED BY <1>2, <1>4, <1>6, Withholds

LEMMA IdlyOrdered ==
    ASSUME LInv, WInv', Idle(c, c'), Reading, admission'.next = admission.next, UNCHANGED sent
    PROVE  LInv'
<1>1. Numbered(c)'
  BY CalmFed DEF Idle, Numbered
<1> QED BY <1>1, Withholds DEF Idle

LEMMA BeginShutdownOrdered == ASSUME LInv, WInv', BeginShutdown PROVE LInv'
<1> DEFINE s == Frozen(Begun)
<1>1. /\ channel # <<>> /\ Reading /\ admission'.next = admission.next /\ UNCHANGED sent
      /\ c' = s
  <2>1. Inv
    BY DEF LInv, WInv
  <2> QED BY <2>1 DEF BeginShutdown, Moves, Reading, Inv
<1>2. Idle(c, Begun) /\ Idle(Begun, s)
  BY CalmFed, BegunIdles, FrozenIdles
<1> HIDE DEF s
<1>3. Idle(c, s)
  BY <1>2, IdlingOn
<1> QED BY <1>1, <1>3, IdlyOrdered

LEMMA ClosingOrdered == ASSUME LInv, WInv', ShutdownFails \/ ShutdownDone PROVE LInv'
<1> DEFINE s == Unfinished(c)
<1>1. /\ Reading /\ admission'.next = admission.next /\ UNCHANGED sent
      /\ \E outcome : c' = Finish(s, closer.id, outcome)
  BY DEF ShutdownFails, ShutdownDone, Moves, Reading
<1>2. Idle(c, s)
  BY CalmFed, UnfinishedIdles
<1> HIDE DEF s
<1>3. \A outcome : Idle(c, Finish(s, closer.id, outcome))
  <2>1. DOMAIN s = Fields
    BY <1>2 DEF Idle
  <2> QED BY <1>2, <2>1, FinishIdles, IdlingOn
<1>4. Idle(c, c')
  BY <1>1, <1>3
<1> QED BY <1>1, <1>4, IdlyOrdered

LEMMA SweepOrdered == ASSUME LInv, WInv', Sweep PROVE LInv'
<1>1. /\ Reading /\ admission'.next = admission.next /\ UNCHANGED sent
      /\ \E told : c' = [c EXCEPT !.told = told]
  BY DEF Sweep, Moves, Reading
<1>2. Idle(c, c')
  BY <1>1, CalmFed DEF Idle, Fields
<1> QED BY <1>1, <1>2, IdlyOrdered

LEMMA StartsOrdered ==
    ASSUME LInv, WInv', StartUp \/ FailStart \/ CloseAdmission \/ UNCHANGED vars PROVE LInv'
<1>1. Inv
  BY DEF LInv, WInv
<1>2. /\ Reading /\ admission'.next = admission.next /\ UNCHANGED sent /\ c' = c
  BY <1>1 DEF StartUp, FailStart, CloseAdmission, Closed, Moves, Reading, vars, Inv
<1>3. Idle(c, c')
  BY <1>2, CalmFed, Idling
<1> QED BY <1>2, <1>3, IdlyOrdered

\* A new number is above all that were given.
LEMMA SubmitOrdered == ASSUME LInv, WInv', NEW kind, Submit(kind) PROVE LInv'
<1> DEFINE n == admission.next
           message == [id |-> n, kind |-> kind]
<1>1. channel' = Append(channel, message) /\ c' = c /\ UNCHANGED sent
  BY DEF Submit
<1>2. Inv /\ n \in Nat /\ channel \in Seq(Messages)
  BY DEF LInv, WInv, Inv
<1>3. ASSUME NEW id \in Ids, InChannel(id) \/ id \in Taken(c) PROVE id < n
  <2>1. Owed(c, id) \in Nat /\ Place(id) = IF id \in Admitted THEN 1 ELSE 0
    BY <1>2, OwedIsNat DEF Inv
  <2>2. Place(id) # 0
    BY <1>3, <2>1 DEF Place, Taken
  <2>3. id \in 1..n - 1
    BY <2>1, <2>2 DEF Admitted
  <2> QED BY <1>2, <2>3
<1>4. /\ DOMAIN channel = 1..Len(channel) /\ Len(channel) \in Nat
      /\ DOMAIN channel' = 1..Len(channel) + 1
      /\ \A i \in DOMAIN channel : channel'[i] = channel[i] /\ channel[i].id \in Ids
      /\ channel'[Len(channel) + 1] = message
  <2>1. \A i \in DOMAIN channel : channel[i] \in Messages
    BY <1>2
  <2>2. \A i \in DOMAIN channel : channel[i].id \in Ids
    BY <2>1 DEF Messages
  <2> HIDE DEF message
  <2> QED BY <1>1, <1>2, <2>2
<1>5. \A i \in DOMAIN channel : channel[i].id < n
  BY <1>3, <1>4 DEF InChannel
<1>6. message.id = n
  OBVIOUS
<1> HIDE DEF n, message
<1>7. \A i, j \in DOMAIN channel' : i < j => channel'[i].id < channel'[j].id
  <2> SUFFICES ASSUME NEW i \in DOMAIN channel', NEW j \in DOMAIN channel', i < j
               PROVE  channel'[i].id < channel'[j].id
    OBVIOUS
  <2>1. i \in DOMAIN channel
    BY <1>4
  <2>2. CASE j \in DOMAIN channel
    BY <1>4, <2>1, <2>2 DEF LInv
  <2>3. CASE j \notin DOMAIN channel
    <3>1. j = Len(channel) + 1
      BY <1>4, <2>3
    <3> QED BY <1>4, <1>5, <1>6, <2>1, <3>1
  <2> QED BY <2>2, <2>3
<1>8. \A i \in DOMAIN channel' : \A id \in Taken(c') : id < channel'[i].id
  <2> SUFFICES ASSUME NEW i \in DOMAIN channel', NEW id \in Taken(c')
               PROVE  id < channel'[i].id
    OBVIOUS
  <2>1. id \in Taken(c) /\ id \in Ids
    BY <1>1 DEF Taken
  <2>2. CASE i \in DOMAIN channel
    BY <1>4, <2>1, <2>2 DEF LInv
  <2>3. CASE i \notin DOMAIN channel
    <3>1. i = Len(channel) + 1
      BY <1>4, <2>3
    <3> QED BY <1>3, <1>4, <1>6, <2>1, <3>1
  <2> QED BY <2>2, <2>3
<1>9. \A u \in Units : \A i \in DOMAIN sent'[u] : sent'[u][i].id \in Taken(c')
  BY <1>1 DEF LInv
<1>10. \A u \in Units \cap DOMAIN c'.pending : Follows(u, c.pending[u])'
  BY <1>1 DEF LInv, Follows
<1>11. LaterEditWins' /\ sent' \in [Units -> Seq(Entries)] /\ Numbered(c)'
  BY <1>1 DEF LInv, LaterEditWins
<1> QED BY <1>7, <1>8, <1>9, <1>10, <1>11 DEF LInv

LEMMA InitLInv == Init => LInv
<1> SUFFICES ASSUME Init PROVE LInv
  OBVIOUS
<1>1. WInv
  BY InitWInv
<1>2. /\ channel = <<>> /\ sent = [u \in Units |-> <<>>]
      /\ DOMAIN c.jobs = {} /\ DOMAIN c.pending = {} /\ c.nextJob = 1
      /\ c.queue = [u \in Units |-> <<>>]
  BY DEF Init
<1>3. Numbered(c)
  BY <1>2 DEF Numbered
<1>4. \A u \in Units : sent[u] = <<>>
  BY <1>2
<1>5. DOMAIN channel = {} /\ \A u \in Units : DOMAIN sent[u] = {}
  BY <1>2, <1>4
<1>6. sent \in [Units -> Seq(Entries)]
  BY <1>2
<1> QED BY <1>1, <1>2, <1>3, <1>5, <1>6 DEF LInv, LaterEditWins

LEMMA NextLInv == LInv /\ [Next]_vars => LInv'
<1> SUFFICES ASSUME LInv, [Next]_vars PROVE LInv'
  OBVIOUS
<1>1. WInv'
  BY NextWInv DEF LInv
<1>2. ASSUME Execute PROVE LInv'
  BY <1>1, <1>2, DragOrdered, SetGainOrdered, SelectUnitOrdered, SetRowOrdered,
     ApplySceneOrdered, DragFxOrdered, EditFxOrdered, AskHostOrdered, SetGainLockOrdered,
     StartCalibrationOrdered, RecordOrdered, CancelCalibrationOrdered, RefuseOrdered,
     RefuseRemovalOrdered, BeginShutdownOrdered DEF Execute
<1>3. ASSUME Next PROVE LInv'
  BY <1>1, <1>2, <1>3, DueOrdered, HandleDeviceOrdered, HandleHostOrdered,
     HandleCalibrationOrdered, HandleGraphOrdered, WorkersOrdered, ClosingOrdered,
     SweepOrdered, StartsOrdered, SubmitOrdered DEF Next, Closing
<1> QED BY <1>1, <1>3, StartsOrdered

\* Whatever is dragged, set, recalled, cancelled, held or due, and in whatever
\* order workers answer, a unit is sent its gains in the order of their commands,
\* those that a handover held aside.
THEOREM LaterEditsWin == Spec => []LaterEditWins
<1>1. Spec => []LInv
  BY InitLInv, NextLInv, PTL DEF Spec
<1>2. LInv => LaterEditWins
  BY DEF LInv
<1> QED BY <1>1, <1>2, PTL
=============================================================================
