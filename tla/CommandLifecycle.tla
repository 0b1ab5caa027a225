--------------------------- MODULE CommandLifecycle ---------------------------
(***************************************************************************)
(* The life of a command: admission, the controller's channel, the request *)
(* it opens, the work it is owed by unit workers, the integration worker   *)
(* and the calibration worker, its one answer, and shutdown.               *)
(*                                                                         *)
(* A handler runs to its end before the next; its helpers are operators on *)
(* the controller record c, whose fields are                               *)
(*   requests  open requests: id -> [scene, waiting, remaining, failed,    *)
(*             cancelled]                                                  *)
(*   told      answers sent: id -> sequence of outcomes                    *)
(*   pending   debounced edits: key -> id; a key is a unit (its gain) or Fx*)
(*   jobs      device jobs: number -> [owner, unit, sets, held]            *)
(*   nextJob   next_job                                                    *)
(*   intents   <<unit, setting>> -> id of the command that wants it        *)
(*   held      owners of the held capture opening, at most one; 0 is None  *)
(*   units, retired, selected, locked                                      *)
(*   open      open rows: units, the capture Mic (all of one group), and   *)
(*             Twin, an ungrouped second row of the capture                *)
(*   handover  "none", "waiting" or "invalid", of the group                *)
(*   known     the graph is known and shows the capture                    *)
(*   recording command of the recording, 0 for none                        *)
(*   session   session of the calibration, 0 for none                      *)
(*   frozen                                                                *)
(*   queue     jobs a unit worker was given, oldest first                  *)
(*   host      commands the integration worker was given                   *)
(*   tapes     sessions the calibration worker was asked to record         *)
(* What a handover waits for is MuteHandover's subject: here any handler   *)
(* may find it released or invalid.  Jobs without an owner are left out.   *)
(***************************************************************************)
EXTENDS Naturals, FiniteSetsExt, SequencesExt, TLC

CONSTANTS
    Units,        \* unit incarnations
    Mic, Twin,    \* the rows of a capture without a unit
    Fx,           \* key of a debounced effects edit
    Plans,        \* what a behaviour may do
    MaxCommands,  \* bound on admitted commands
    MaxQueue      \* bound on unread device events before another poll

Ids == 1..MaxCommands
Closers == {"shutdown", "prepare", "confirm"}
Kinds == {"drag", "gain", "select", "lock", "fx", "edit", "row", "scene", "host",
          "start", "record", "cancel"} \cup Closers

\* The fields of a plan: the units that are plugged in, the kinds of command
\* that are submitted, whether rows follow hands at the hardware, and bounds on
\* the commands and on the failures of workers, stores and drains.
ASSUME PlansAreBounded ==
    /\ {MaxCommands, MaxQueue} \subseteq Nat
    /\ Plans \subseteq [units : SUBSET Units, menu : SUBSET Kinds,
                        commands : 0..MaxCommands, hands : BOOLEAN, faults : Nat]

Settings == {"gain", "mute"}
Members == Units \cup {Mic}

VARIABLES
    admission,  \* [next, accepting, stopped], under its mutex
    channel,    \* commands sent to the controller, oldest first
    c,          \* the controller and what its backend was given
    devq,       \* device events
    hostq,      \* answers of the integration worker
    calq,       \* results of the calibration worker
    up,         \* units whose worker takes jobs
    at,         \* where the controller thread is
    closer,     \* the command that shuts down: [id, kind, ok]
    sent,       \* unit -> gains sent to it: the command, and whether it was held
    plan        \* what is left of the plan

vars == <<admission, channel, c, devq, hostq, calq, up, at, closer, sent, plan>>

Answers == <<devq, hostq, calq>>

-----------------------------------------------------------------------------
(* Requests and their completion.                                          *)

\* The entries of f, and those of g that f has not; and one entry over those of g.
Over(f, g) == [x \in DOMAIN f \cup DOMAIN g |-> IF x \in DOMAIN f THEN f[x] ELSE g[x]]
Put(x, v, g) == [y \in DOMAIN g \cup {x} |-> IF y = x THEN v ELSE g[y]]

Fresh == [scene |-> FALSE, waiting |-> FALSE, remaining |-> {},
          failed |-> FALSE, cancelled |-> FALSE]

Opened(s, id) == [s EXCEPT !.requests = Put(id, Fresh, @)]

\* finish, of each of these commands: only an accepted one is answered, and its
\* intents go with it.
FinishEach(s, ids, outcome) ==
    LET open == ids \cap DOMAIN s.requests IN
    IF open = {} THEN s
    ELSE [s EXCEPT
            !.requests = Restrict(@, DOMAIN @ \ open),
            !.intents = RestrictDomain(@, LAMBDA k : @[k] \notin open),
            !.told = Over([id \in open |-> Append(s.told[id], outcome[id])], @)]

FinishAll(s, ids, outcome) == FinishEach(s, ids, [id \in ids |-> outcome])

Finish_KeepsRequest(s, id, outcome) ==
    [FinishAll(s, {id}, outcome) EXCEPT !.requests = s.requests]

Finish(s, id, outcome) == FinishAll(s, {id}, outcome)

Outcome(r) ==
    CASE r.scene                            -> "scene"
      [] ~r.scene /\ r.cancelled            -> "cancelled"
      [] ~r.scene /\ ~r.cancelled /\ r.failed -> "rejected"
      [] OTHER                              -> "applied"

Ready(s, id) ==
    /\ id \in DOMAIN s.requests
    /\ ~s.requests[id].waiting
    /\ s.requests[id].remaining = {}
    /\ id \notin s.held

\* finish_if_ready, of each of these commands.
FinishReady(s, ids) ==
    LET ready == {id \in ids : Ready(s, id)}
    IN  FinishEach(s, ready, [id \in ready |-> Outcome(s.requests[id])])

FinishIfReady_IgnoresJobs(s, id) ==
    IF /\ id \in DOMAIN s.requests
       /\ ~s.requests[id].waiting
       /\ id \notin s.held
    THEN Finish(s, id, Outcome(s.requests[id])) ELSE s

FinishIfReady(s, id) ==
    IF Ready(s, id) THEN Finish(s, id, Outcome(s.requests[id])) ELSE s

\* operation_failure.
Failure(s, id, cancelled) ==
    IF id \notin DOMAIN s.requests THEN s
    ELSE [s EXCEPT !.requests[id].failed = TRUE,
                   !.requests[id].cancelled = @ \/ cancelled]

Waiting(s, id, waiting) ==
    IF id \in DOMAIN s.requests
    THEN [s EXCEPT !.requests[id].waiting = waiting] ELSE s

CancelPending_Silently(s, keys) ==
    [s EXCEPT !.pending = Restrict(@, DOMAIN @ \ keys)]

\* cancel_pending: unsent edits under these keys are answered.
CancelPending(s, keys) ==
    LET gone == DOMAIN s.pending \cap keys IN
    FinishAll([s EXCEPT !.pending = Restrict(@, DOMAIN @ \ gone)],
              {s.pending[k] : k \in gone}, "cancelled")

\* defer: the edit waits, and answers the one it replaces.
Defer(s, key, id) ==
    LET t == Waiting(s, id, TRUE)
        u == [t EXCEPT !.pending = Put(key, id, @),
                       !.intents = IF key \in Units THEN Put(<<key, "gain">>, id, @)
                                   ELSE @]
    IN  IF key \in DOMAIN s.pending THEN Finish(u, s.pending[key], "cancelled") ELSE u

-----------------------------------------------------------------------------
(* Dispatch.                                                               *)

\* queue_device for an owner: refused, sent, or held for a handover.
QueueDevice(s, id, u, sets, taking) ==
    LET held == "mute" \in sets /\ u \in s.open /\ s.handover # "none" IN
    IF u \notin s.units \/ (~held /\ u \notin taking)
    THEN Failure(s, id, FALSE)
    ELSE [s EXCEPT
            !.nextJob = @ + 1,
            !.jobs = Put(s.nextJob, [owner |-> id, unit |-> u, sets |-> sets,
                                     held |-> held], @),
            !.queue[u] = IF held THEN @ ELSE Append(@, s.nextJob),
            !.requests[id].remaining = @ \cup {s.nextJob},
            !.intents = Over([k \in {<<u, f>> : f \in sets} |-> id], @)]

\* The rows of the capture are muted only if all of them are.
CaptureMuted(s) == s.open \cap {Mic, Twin} = {}

\* queue_capture: an opening during a handover is held, and takes the place of
\* the one that was.
QueueCapture(s, id) ==
    IF ~CaptureMuted(s) /\ s.handover # "none"
    THEN FinishAll([s EXCEPT !.held = {id}], s.held \ {id, 0}, "cancelled")
    ELSE IF s.known THEN s ELSE Failure(s, id, FALSE)

\* commit_sources: a member that opens takes the group, and starts a handover;
\* one that closes ends it.
Commit(s, open) ==
    [s EXCEPT
       !.open = open,
       !.handover = IF open \cap Members = {} THEN "none"
                    ELSE IF open \cap Members # s.open \cap Members THEN "waiting"
                    ELSE @]

Opening(s, row) ==
    IF row = Twin THEN s.open \cup {Twin} ELSE (s.open \ Members) \cup {row}

\* The mute of a unit follows its row; of a group at most one row is open, so
\* that at most one of them opens or closes.
Mirror(s, id, us, taking) ==
    IF id = 0 \/ us = {} THEN s
    ELSE QueueDevice(s, id, CHOOSE u \in us : TRUE, {"mute"}, taking)

\* sync_mutes: units that mute come first, then the one that opens, then the
\* capture.  The capture of a unit that is gone is gone with it.
SyncMutes(s, before, id, excluded, taking) ==
    LET changed == (before \ s.open) \cup (s.open \ before)
        units == (changed \cap Units) \ excluded
        done == Mirror(Mirror(s, id, units \ s.open, taking), id, units \cap s.open, taking)
    IN  IF changed \cap {Mic, Twin} = {} THEN done ELSE QueueCapture(done, id)

-----------------------------------------------------------------------------
(* advance_handovers, the end of every handler.                            *)

Superseded(s, job) ==
    job.unit \notin s.units \/ job.unit \notin s.open \/ s.handover = "invalid"

Held(s) == {k \in DOMAIN s.jobs : s.jobs[k].held}

\* Jobs that nothing holds any more.
Free(s) == {k \in Held(s) : s.handover = "none" /\ ~Superseded(s, s.jobs[k])}

\* For every unit, one of the sequences that S has for it.
Each(S) ==
    {f \in [Units -> UNION {S[u] : u \in Units}] : \A u \in Units : f[u] \in S[u]}

\* The orders in which the map may yield the jobs that are sent to each unit.
Orders(s, taking) ==
    IF Free(s) = {} THEN {[u \in Units |-> <<>>]}
    ELSE Each([u \in Units |->
                 SetToSeqs({k \in Free(s) : s.jobs[k].unit = u /\ u \in taking})])

\* A held job is cancelled, refused by a worker that is gone, or sent when
\* nothing holds it any more; a command that only waited for it is finished.
SettleJobs(s, order, taking) ==
    LET cancelled == {k \in Held(s) : Superseded(s, s.jobs[k])}
        going  == {k \in Free(s) : s.jobs[k].unit \in taking}
        gone   == cancelled \cup (Free(s) \ going)
        owners(ks) == {s.jobs[k].owner : k \in ks}
        blamed == owners(gone) \cap DOMAIN s.requests
        t == [s EXCEPT
                !.jobs = Over([k \in going |-> [s.jobs[k] EXCEPT !.held = FALSE]],
                              Restrict(@, DOMAIN @ \ gone)),
                !.queue = [u \in Units |-> @[u] \o order[u]],
                !.requests = Over([id \in blamed |->
                   [s.requests[id] EXCEPT !.remaining = @ \ gone, !.failed = TRUE,
                                          !.cancelled = @ \/ id \in owners(cancelled)]], @)]
    IN  IF Held(s) = {} THEN s ELSE FinishReady(t, owners(gone))

\* A held capture opening is cancelled, held again, or sent.
SettleCapture(s) ==
    IF s.held = {} \/ (s.handover = "waiting" /\ ~CaptureMuted(s)) THEN s
    ELSE LET id == CHOOSE x \in s.held : TRUE
             t  == [s EXCEPT !.held = {}]
         IN  FinishIfReady(
               CASE CaptureMuted(s) \/ s.handover = "invalid" -> Failure(t, id, TRUE)
                 [] OTHER -> QueueCapture(t, id), id)

\* The handover is found released, still waiting, or invalid.
Judged(s) ==
    IF s.handover # "waiting" THEN {s}
    ELSE {[s EXCEPT !.handover = verdict] : verdict \in {"none", "waiting", "invalid"}}

Advance(s, order, taking) ==
    IF s.frozen THEN s ELSE SettleCapture(SettleJobs(s, order, taking))

\* Where the queue of u got a gain from this handler; and such places in order.
Gains(s, u) ==
    {i \in Len(c.queue[u]) + 1 .. Len(s.queue[u]) : "gain" \in s.jobs[s.queue[u][i]].sets}

InOrder(S) == {q \in SetToSeqs(S) : \A i, j \in DOMAIN q : i < j => q[i] < q[j]}

\* The step of a handler, with the gains that it gave to the workers.
Becomes(s) ==
    /\ c' = s
    /\ LET gain(k) == [id |-> s.jobs[k].owner, held |-> k \in Held(c)]
       IN  IF s.queue = c.queue THEN UNCHANGED sent
           ELSE \E given \in Each([u \in Units |-> InOrder(Gains(s, u))]) :
                   sent' = [u \in Units |-> sent[u] \o
                              [i \in DOMAIN given[u] |-> gain(s.queue[u][given[u][i]])]]

-----------------------------------------------------------------------------
(* Calibration.                                                            *)

\* expire_calibration and cancel_calibration: the recording is answered.
EndCalibration(s, outcome) ==
    IF s.session = 0 THEN s
    ELSE Finish([s EXCEPT !.session = 0, !.recording = 0], s.recording, outcome)

-----------------------------------------------------------------------------

Init ==
    /\ plan \in Plans
    /\ admission = [next |-> 1, accepting |-> TRUE, stopped |-> FALSE]
    /\ channel = <<>>
    /\ c = [requests |-> <<>>, told |-> [id \in Ids |-> <<>>], pending |-> <<>>,
            jobs |-> <<>>, nextJob |-> 1, intents |-> <<>>, held |-> {},
            units |-> {}, retired |-> {}, selected |-> {}, locked |-> FALSE,
            open |-> {}, handover |-> "none", known |-> FALSE,
            recording |-> 0, session |-> 0, frozen |-> FALSE,
            queue |-> [u \in Units |-> <<>>], host |-> <<>>, tapes |-> <<>>]
    /\ devq = <<>> /\ hostq = <<>> /\ calq = <<>>
    /\ up = plan.units
    /\ at = "starting"
    /\ closer = [id |-> 0, kind |-> "none", ok |-> TRUE]
    /\ sent = [u \in Units |-> <<>>]

Fault == plan.faults > 0 /\ plan' = [plan EXCEPT !.faults = @ - 1]

-----------------------------------------------------------------------------
(* Admission, by any thread that holds a handle.                           *)

Admits(kind) == ~admission.stopped /\ (admission.accepting \/ kind \in Closers)

\* submit: the number is given and the command sent under one lock.
Submit(kind) ==
    /\ Admits(kind) /\ admission.next <= plan.commands
    /\ channel' = Append(channel, [id |-> admission.next, kind |-> kind])
    /\ admission' = [admission EXCEPT !.next = @ + 1]
    /\ UNCHANGED <<c, Answers, up, at, closer, sent, plan>>

-----------------------------------------------------------------------------
(* Commands.  What a command names is chosen when it is handled.           *)

\* accept: the head of the channel opens a request.
Takes(kind) ==
    /\ at = "loop" /\ ~c.frozen
    /\ channel # <<>> /\ Head(channel).kind = kind
    /\ channel' = Tail(channel)
    /\ UNCHANGED <<admission, Answers, up, at, closer>>

Id == Head(channel).id
Begun == Opened(c, Id)
Rejected == Failure(Begun, Id, FALSE)

\* apply: the command is executed, handovers advance, the request may end.
Applies(s, id) ==
    \E t \in Judged(s) : \E order \in Orders(t, up) :
       Becomes(FinishIfReady(Advance(t, order, up), id))

Saves == UNCHANGED plan

GainRefused(s, u) == u \notin s.units \/ (s.locked /\ u \in s.selected)

SetsGain_KeepsEdit(s, id, u) ==
    IF GainRefused(s, u) THEN Failure(s, id, FALSE)
    ELSE QueueDevice(s, id, u, {"gain"}, up)

\* device_setting with a gain, once it is not deferred.
SetsGain(s, id, u) ==
    IF GainRefused(s, u) THEN Failure(s, id, FALSE)
    ELSE QueueDevice(CancelPending(s, {u}), id, u, {"gain"}, up)

Drag(u) ==
    /\ Takes("drag") /\ Saves
    /\ Applies(IF GainRefused(Begun, u) THEN Rejected ELSE Defer(Begun, u, Id), Id)

SetGain(u) == Takes("gain") /\ Saves /\ Applies(SetsGain(Begun, Id, u), Id)

DragFx == Takes("fx") /\ Saves /\ Applies(Defer(Begun, Fx, Id), Id)

\* ToggleFx, EditSource, AcceptCalibration: the unsent edit is cancelled, then
\* the rows are saved.
EditFx ==
    /\ Takes("edit")
    /\ LET s == CancelPending(Begun, {Fx}) IN
       \/ Saves /\ Applies(s, Id)
       \/ Fault /\ Applies(Failure(s, Id, FALSE), Id)

\* The user opens the row of a unit only while the unit is there.
Offered(row) == row \in Units => row \in c.units

\* SetSourceMute, SwitchGroup: rows are saved, then mirrored.
SetRow(row) ==
    /\ Takes("row") /\ Offered(row)
    /\ LET open == IF row \in c.open THEN c.open \ {row} ELSE Opening(c, row) IN
       \/ Saves /\ Applies(SyncMutes(Commit(Begun, open), c.open, Id, {}, up), Id)
       \/ Fault /\ Applies(Rejected, Id)

\* ApplyScene: the gain of a unit, perhaps its mute, and a row to open.
ApplyScene(u, row, named) ==
    /\ Takes("scene") /\ Offered(row)
    /\ LET begun == [Begun EXCEPT !.requests[Id].scene = TRUE]
           open  == Opening(c, row)
           s     == CancelPending(Commit(begun, open), {u})
           t     == SyncMutes(s, c.open, Id, {u}, up)
           sets  == {f \in Settings :
                       IF f = "gain" THEN ~(c.locked /\ u \in c.selected)
                       ELSE named \/ (u \in c.open) # (u \in open)}
       IN  /\ Saves
           /\ Applies(IF u \notin c.units
                      THEN SyncMutes(Commit(begun, open), c.open, Id, {}, up)
                      ELSE IF sets = {} THEN t
                      ELSE QueueDevice(t, Id, u, sets, up), Id)

\* SetAutostart, RunSetup: the answer comes from the integration worker.
AskHost ==
    /\ Takes("host") /\ Saves
    /\ Applies([Waiting(Begun, Id, TRUE) EXCEPT !.host = Append(@, Id)], Id)

StartCalibration ==
    /\ Takes("start") /\ Saves
    /\ LET s == EndCalibration(Begun, "cancelled") IN
       Applies(IF c.known THEN [s EXCEPT !.session = Id] ELSE Failure(s, Id, FALSE), Id)

\* record_calibration: a session that is no longer valid expires first.
Record ==
    /\ Takes("record") /\ Saves
    /\ LET s == [Waiting(Begun, Id, TRUE) EXCEPT !.recording = Id,
                                                 !.tapes = Append(@, c.session)]
       IN  Applies(IF c.session # 0 /\ ~c.known
                   THEN Failure(EndCalibration(Begun, "rejected"), Id, FALSE)
                   ELSE IF c.session = 0 \/ c.recording # 0 THEN Rejected ELSE s, Id)

CancelCalibration ==
    /\ Takes("cancel") /\ Saves
    /\ Applies(IF c.session = 0 THEN Rejected
               ELSE EndCalibration(Begun, "cancelled"), Id)

SelectUnit(u) ==
    /\ Takes("select") /\ Saves
    /\ Applies(IF u \in c.units
               THEN [CancelPending(Begun, Units) EXCEPT !.selected = {u}]
               ELSE Rejected, Id)

\* SetGainLock: the unsent gain of the selected unit is cancelled.
LockGain(s) == CancelPending([s EXCEPT !.locked = TRUE], s.selected)

SetGainLock ==
    /\ Takes("lock")
    /\ \/ Saves /\ Applies(IF c.locked THEN [Begun EXCEPT !.locked = FALSE]
                           ELSE LockGain(Begun), Id)
       \/ Fault /\ Applies(Rejected, Id)

\* An edit that is due is applied as an immediate one.
Due(key) ==
    /\ at = "loop" /\ key \in DOMAIN c.pending
    /\ LET id == c.pending[key]
           s  == Waiting([c EXCEPT !.pending = Restrict(@, DOMAIN @ \ {key})], id, FALSE)
       IN  IF key \in Units THEN Saves /\ Applies(SetsGain(s, id, key), id)
           ELSE \/ Saves /\ Applies(s, id)
                \/ Fault /\ Applies(Failure(s, id, FALSE), id)
    /\ UNCHANGED <<admission, channel, Answers, up, at, closer>>

\* A command that was admitted before the freeze.
Refuse ==
    /\ at = "loop" /\ c.frozen
    /\ channel # <<>> /\ Head(channel).kind \notin Closers
    /\ channel' = Tail(channel)
    /\ Becomes(Finish(Begun, Id, "cancelled"))
    /\ UNCHANGED <<admission, Answers, up, at, closer, plan>>

-----------------------------------------------------------------------------
(* Events.                                                                 *)

\* A handler that reads no command.
Observing ==
    /\ at \in {"loop", "absorbing"}
    /\ UNCHANGED <<admission, channel, up, at, closer, plan>>

\* An observation ends in advance_handovers; a request it answers is finished.
Absorbs(s) ==
    \E t \in Judged(s) : \E order \in Orders(t, up) : Becomes(Advance(t, order, up))

\* observe_unit: rows follow the mute of a unit nothing was asked of.
ObserveUnit(s, u, muted) ==
    LET t == [s EXCEPT !.units = @ \cup {u},
                       !.selected = IF @ = {} THEN {u} ELSE @]
        pending == \E k \in DOMAIN s.jobs : s.jobs[k].unit = u /\ "mute" \in s.jobs[k].sets
        open == IF muted THEN s.open \ {u} ELSE Opening(s, u)
    IN  IF u \in s.retired THEN s
        ELSE IF s.frozen \/ pending \/ open = s.open THEN t
        ELSE SyncMutes(Commit(t, open), s.open, 0, {u}, {})

\* What a unit may show: what its row has, or what a hand made of it.
MayShow(u) == {u \notin c.open} \cup IF plan.hands THEN BOOLEAN ELSE {}

\* DeviceFinished: a job that is held, or not known, is left alone.
Finished(s, k, result, muted) ==
    LET job == s.jobs[k]
        t   == [s EXCEPT !.jobs = Restrict(@, DOMAIN @ \ {k})]
        v   == IF result = "ok"
               THEN IF job.unit \in t.units THEN ObserveUnit(t, job.unit, muted) ELSE t
               ELSE Failure(t, job.owner, result = "cancelled")
        w   == IF job.owner \in DOMAIN v.requests
               THEN [v EXCEPT !.requests[job.owner].remaining = @ \ {k}] ELSE v
    IN  IF k \notin DOMAIN s.jobs \/ s.jobs[k].held THEN s
        ELSE FinishIfReady(w, job.owner)

UnitRetired(s, u) ==
    LET t == CancelPending([s EXCEPT !.retired = @ \cup {u}, !.units = @ \ {u}], {u})
    IN  [t EXCEPT !.intents = RestrictDomain(@, LAMBDA k : k[1] # u),
                  !.selected = IF @ = {u} /\ t.units # {}
                               THEN {CHOOSE x \in t.units : TRUE} ELSE @ \ {u}]

HandleDevice ==
    /\ Observing /\ devq # <<>>
    /\ LET e == Head(devq) IN
       \E muted \in MayShow(e.unit) :
          Absorbs(CASE e.kind = "unit"     -> ObserveUnit(c, e.unit, muted)
                    [] e.kind = "finished" -> Finished(c, e.job, e.result, muted)
                    [] OTHER               -> UnitRetired(c, e.unit))
    /\ devq' = Tail(devq)
    /\ UNCHANGED <<hostq, calq>>

HandleHost ==
    /\ Observing /\ hostq # <<>>
    /\ LET e == Head(hostq)
           s == IF e.result = "ok" THEN c ELSE Failure(c, e.id, e.result = "cancelled")
       IN  Absorbs(FinishIfReady(Waiting(s, e.id, FALSE), e.id))
    /\ hostq' = Tail(hostq)
    /\ UNCHANGED <<devq, calq>>

\* calibration_complete: a result of another session is of no interest.
CalibrationComplete(s, e) ==
    IF s.frozen \/ s.session # e.session \/ s.recording = 0 THEN s
    ELSE IF ~s.known \/ e.result = "failed" THEN EndCalibration(s, "rejected")
    ELSE IF e.result = "cancelled" THEN EndCalibration(s, "cancelled")
    ELSE FinishIfReady(Waiting([s EXCEPT !.recording = 0], s.recording, FALSE), s.recording)

HandleCalibration ==
    /\ Observing /\ calq # <<>>
    /\ Absorbs(CalibrationComplete(c, Head(calq)))
    /\ calq' = Tail(calq)
    /\ UNCHANGED <<devq, hostq>>

\* A graph observation: rows may follow an edge of the capture, and a
\* calibration of an input that is not known expires.
ObserveGraph(s, known, open) ==
    LET t == [s EXCEPT !.known = known]
        v == IF s.frozen \/ ~known \/ open = s.open THEN t ELSE Commit(t, open)
    IN  IF known \/ s.frozen THEN v ELSE EndCalibration(v, "rejected")

HandleGraph ==
    /\ Observing
    /\ \E known \in BOOLEAN :
       \E open \in {c.open} \cup
             IF plan.hands /\ c.known
             THEN {c.open \ {Mic, Twin}, Opening(c, Mic) \cup {Twin}} ELSE {} :
          Absorbs(ObserveGraph(c, known, open))
    /\ UNCHANGED Answers

-----------------------------------------------------------------------------
(* Workers.                                                                *)

Working == UNCHANGED <<admission, channel, at, closer, sent>>

Finishing(u, k, result) == [kind |-> "finished", unit |-> u, job |-> k, result |-> result]

Note(u, kind) == [kind |-> kind, unit |-> u, job |-> 0, result |-> "ok"]

\* A unit worker polls; its first poll is the connection.
Polls(u) ==
    /\ Working /\ u \in up /\ Len(devq) < MaxQueue
    /\ devq' = Append(devq, Note(u, "unit"))
    /\ UNCHANGED <<c, hostq, calq, up, plan>>

Completes(u) ==
    /\ Working /\ u \in up /\ c.queue[u] # <<>>
    /\ devq' = Append(devq, Finishing(u, Head(c.queue[u]), "ok"))
    /\ c' = [c EXCEPT !.queue[u] = Tail(@)]
    /\ UNCHANGED <<hostq, calq, up, plan>>

\* What a worker owes is answered when it stops.
Drained(u) ==
    [i \in DOMAIN c.queue[u] |-> Finishing(u, c.queue[u][i], "cancelled")]

\* A write or the polls fail: the worker answers its jobs and retires.
Retires(u) ==
    /\ Working /\ u \in up /\ Fault
    /\ \E failing \in BOOLEAN :
          devq' = devq \o (IF failing /\ c.queue[u] # <<>>
                           THEN [Drained(u) EXCEPT ![1].result = "failed"]
                           ELSE Drained(u)) \o <<Note(u, "retired")>>
    /\ c' = [c EXCEPT !.queue[u] = <<>>]
    /\ up' = up \ {u}
    /\ UNCHANGED <<hostq, calq>>

HostAnswers ==
    /\ Working /\ c.host # <<>>
    /\ \E result \in {"ok", "failed"} :
          hostq' = Append(hostq, [id |-> Head(c.host), result |-> result])
    /\ c' = [c EXCEPT !.host = Tail(@)]
    /\ UNCHANGED <<devq, calq, up, plan>>

\* A recording of a session that was replaced or ended is cancelled.
Records ==
    /\ Working /\ c.tapes # <<>>
    /\ \E result \in IF Head(c.tapes) = c.session THEN {"ok", "failed"} ELSE {"cancelled"} :
          calq' = Append(calq, [session |-> Head(c.tapes), result |-> result])
    /\ c' = [c EXCEPT !.tapes = Tail(@)]
    /\ UNCHANGED <<devq, hostq, up, plan>>

-----------------------------------------------------------------------------
(* Start and shutdown.                                                     *)

Moves(there) == at' = there /\ UNCHANGED sent

\* The factory made a backend.
StartUp ==
    /\ at = "starting" /\ Moves("loop")
    /\ UNCHANGED <<admission, channel, c, Answers, up, closer, plan>>

\* It did not: admission is closed, and what was sent is rejected.
FailStart ==
    /\ at = "starting" /\ Moves("refusing") /\ Fault
    /\ admission' = [admission EXCEPT !.accepting = FALSE, !.stopped = TRUE]
    /\ UNCHANGED <<channel, c, Answers, up, closer>>

\* freeze.
Frozen(s) ==
    IF s.frozen THEN s
    ELSE LET t == CancelPending([s EXCEPT !.frozen = TRUE, !.held = {},
                                          !.handover = "none"], DOMAIN s.pending)
         IN  EndCalibration(t, "cancelled")

\* Shutdown, PrepareUninstall, ConfirmUninstall: admission is frozen.
BeginShutdown ==
    /\ at = "loop" /\ channel # <<>> /\ Head(channel).kind \in Closers
    /\ c' = Frozen(Begun)
    /\ closer' = [id |-> Id, kind |-> Head(channel).kind, ok |-> TRUE]
    /\ channel' = Tail(channel)
    /\ admission' = [admission EXCEPT !.accepting = FALSE]
    /\ Moves("stopping")
    /\ UNCHANGED <<Answers, up, plan>>

\* The request names another installation, or its preparation failed.
RefuseRemoval ==
    /\ at = "loop" /\ channel # <<>> /\ Head(channel).kind \in Closers \ {"shutdown"}
    /\ Applies(Rejected, Id)
    /\ channel' = Tail(channel)
    /\ UNCHANGED <<admission, Answers, up, at, closer, plan>>

\* Backend::shutdown: every worker answers what it owes and is joined.
StopWorkers ==
    /\ at = "stopping" /\ Moves("absorbing")
    /\ \/ Saves /\ UNCHANGED closer
       \/ Fault /\ closer' = [closer EXCEPT !.ok = FALSE]
    /\ devq' = FoldSet(LAMBDA u, q : q \o Drained(u), devq, up)
    /\ hostq' = hostq \o [i \in DOMAIN c.host |-> [id |-> c.host[i], result |-> "cancelled"]]
    /\ calq' = calq \o [i \in DOMAIN c.tapes |->
                          [session |-> c.tapes[i], result |-> "cancelled"]]
    /\ c' = [c EXCEPT !.queue = [u \in Units |-> <<>>], !.host = <<>>, !.tapes = <<>>]
    /\ up' = {}
    /\ UNCHANGED <<admission, channel>>

\* The rest of shutdown: requests that are still open are answered, then the
\* one that asked; removal runs between.
Unfinished(s) ==
    LET scenes == {id \in DOMAIN s.requests \ {closer.id} : s.requests[id].scene}
        t == FinishAll(s, DOMAIN s.requests \ (scenes \cup {closer.id}), "cancelled")
    IN  FinishAll(t, scenes, "scene")

Absorbed == at = "absorbing" /\ Answers = <<<<>>, <<>>, <<>>>>

ShutdownFails ==
    /\ Absorbed /\ Moves("loop")
    /\ IF closer.ok THEN closer.kind = "confirm" /\ Fault ELSE Saves
    /\ c' = Finish(Unfinished(c), closer.id, "rejected")
    /\ UNCHANGED <<admission, channel, Answers, up, closer>>

ShutdownDone ==
    /\ Absorbed /\ closer.ok /\ Moves("closing")
    /\ c' = Finish(Unfinished(c), closer.id, "applied")
    /\ UNCHANGED <<admission, channel, Answers, up, closer, plan>>

Closed(a) == [a EXCEPT !.accepting = FALSE, !.stopped = TRUE]

\* The end of run: nobody can send any more, then what was sent is answered.
CloseAdmission ==
    /\ at = "closing" /\ Moves("sweeping")
    /\ admission' = Closed(admission)
    /\ UNCHANGED <<channel, c, Answers, up, closer, plan>>

Sweep ==
    /\ at \in {"sweeping", "refusing"} /\ Moves("done")
    /\ LET outcome == IF at = "sweeping" THEN "cancelled" ELSE "rejected"
           ids == {channel[i].id : i \in DOMAIN channel}
       IN  c' = [c EXCEPT !.told = [id \in Ids |-> IF id \in ids THEN Append(@[id], outcome)
                                                    ELSE @[id]]]
    /\ channel' = <<>>
    /\ UNCHANGED <<admission, Answers, up, closer, plan>>

-----------------------------------------------------------------------------

Execute ==
    \/ \E u \in Units : Drag(u) \/ SetGain(u) \/ SelectUnit(u)
    \/ \E row \in Members \cup {Twin} :
          \/ SetRow(row)
          \/ \E u \in Units, named \in BOOLEAN : ApplyScene(u, row, named)
    \/ DragFx \/ EditFx \/ AskHost \/ SetGainLock
    \/ StartCalibration \/ Record \/ CancelCalibration
    \/ Refuse \/ RefuseRemoval \/ BeginShutdown

Closing == StopWorkers \/ ShutdownFails \/ ShutdownDone \/ CloseAdmission \/ Sweep

Next ==
    \/ \E kind \in plan.menu : Submit(kind)
    \/ Execute
    \/ \E key \in Units \cup {Fx} : Due(key)
    \/ HandleDevice \/ HandleHost \/ HandleCalibration \/ HandleGraph
    \/ \E u \in Units : Polls(u) \/ Completes(u) \/ Retires(u)
    \/ HostAnswers \/ Records
    \/ StartUp \/ FailStart \/ Closing

Spec == Init /\ [][Next]_vars

\* What the controller's steps do to its channels: no other action does it.
Reads(q) == at \in {"loop", "absorbing"} /\ q # <<>> /\ q' = Tail(q)
ReadsCommand == at = "loop" /\ channel # <<>> /\ channel' = Tail(channel)

\* Where the controller thread waits for nobody.
Passing == {"starting", "refusing", "stopping", "closing", "sweeping"}

\* The controller's thread never stays where it need not wait; its loop applies
\* the edits that are due, and reads events and commands in turn; and every
\* worker works on what it was given.
Fairness ==
    /\ []<>(at \notin Passing) /\ []<>~Absorbed
    /\ \A key \in Units \cup {Fx} : []<>(at # "loop" \/ key \notin DOMAIN c.pending)
    /\ WF_channel(ReadsCommand)
    /\ WF_devq(Reads(devq)) /\ WF_hostq(Reads(hostq)) /\ WF_calq(Reads(calq))
    /\ \A u \in Units : WF_vars(Completes(u))
    /\ WF_vars(HostAnswers) /\ WF_vars(Records)

FairSpec == Spec /\ Fairness

-----------------------------------------------------------------------------
(* Properties.                                                             *)

Admitted == 1..admission.next - 1

\* Every admitted command is in one place: in the channel, open, or answered
\* once.
OnePlace ==
    \A id \in Ids :
        LET sentTo == IF \E i \in DOMAIN channel : channel[i].id = id THEN 1 ELSE 0
            isOpen == IF id \in DOMAIN c.requests THEN 1 ELSE 0
        IN  sentTo + isOpen + Len(c.told[id]) = IF id \in Admitted THEN 1 ELSE 0

\* Gains reach a unit in the order of their commands: "Superseded unsent edits
\* are cancelled so they cannot overwrite the recalled state"
\* (docs/ARCHITECTURE.md).
LaterGainWins ==
    \A u \in Units : \A i, j \in DOMAIN sent[u] : i < j => sent[u][i].id < sent[u][j].id

\* Debounced or immediate, of the user or of a scene, gains reach a unit in the
\* order of their commands, unless a handover held one of them.
LaterEditWins ==
    \A u \in Units : \A i, j \in DOMAIN sent[u] :
        i < j /\ ~sent[u][i].held /\ ~sent[u][j].held => sent[u][i].id < sent[u][j].id

\* A command is answered when all its device jobs are, and not before: nothing
\* of it is left in a worker's queue or on its way back.  Shutdown answers what
\* is left, and so does a command that takes the place of a held capture.
CompletionWaits ==
    [][\A id \in Ids \ c.held :
          at = "loop" /\ c'.told[id] # c.told[id] =>
             \A k \in DOMAIN c'.jobs : c'.jobs[k].owner # id]_vars

\* A request that waits for a handover to let it open something.
HeldBack(id) ==
    id \in c.held \/ \E k \in DOMAIN c.jobs : c.jobs[k].owner = id /\ c.jobs[k].held

\* Commands are bounded: in the end every one that was admitted has its answer,
\* or waits for a handover.
EveryCommandEnds ==
    <>[](\A id \in Admitted : c.told[id] # <<>> \/ HeldBack(id))
=============================================================================
