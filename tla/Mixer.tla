-------------------------------- MODULE Mixer --------------------------------
(***************************************************************************)
(* The mixer thread (crates/openwave-runtime/src/mixer.rs) between the     *)
(* controller, which tells it what is desired and takes over what it       *)
(* reports of the masters, and the audio server, where sinks, streams,     *)
(* captures, other clients and the thread's own children come and go.      *)
(*                                                                         *)
(* A cycle takes a snapshot and then works from it, in the order of the    *)
(* code: sinks and masters, filters, the silencing barrier, intakes and    *)
(* routes, what is no longer wanted, the report.  The controller and the   *)
(* world may act between any two of these.                                 *)
(***************************************************************************)
EXTENDS MixerSteps, SequencesExt, GroupRules

CONSTANTS
    Settings,    \* settings of a master that somebody may choose
    Plans,       \* what is there and what may happen
    MaxQueue     \* unread events before the next cycle

ASSUME MixerAssumption == MaxQueue \in Nat \ {0} /\ Factory \notin Settings

VARIABLES world, mixer, sample, desk, plan
vars == <<world, mixer, sample, desk, plan>>

-----------------------------------------------------------------------------
(* Starting.                                                               *)

StartWorld(p) ==
    [cookie |-> 1, next |-> 2,
     sinks |-> [n \in Names |->
        IF n \in p.config THEN {[id |-> 1, by |-> "config", set |-> Factory]} ELSE {}],
     caps |-> [s \in Devices |-> IF s \in p.plugged THEN 1 ELSE 0],
     nodes |-> [k \in Keys |-> None], filters |-> [s \in Devices |-> None],
     streams |-> [t \in Streams |-> IF t \in DOMAIN p.playing THEN p.playing[t] ELSE None],
     outs |-> Outputs]

\* A new Reconciler; the fields from avail to lost live for one cycle.
Idle(m) ==
    [m EXCEPT !.avail = {}, !.ready = {}, !.blocked = {}, !.retained = {},
              !.effective = [s \in Devices |-> None], !.lost = FALSE, !.failed = FALSE]

Nothing == [n \in Names |-> None]

Reconciler(want, defined) ==
    [pc |-> "idle", want |-> want, rev |-> 0, cookie |-> 0, defined |-> defined,
     handles |-> Nothing, persistent |-> [n \in Names |-> 0],
     removed |-> [n \in Names |-> 0],
     masters |-> [mx \in Mixes |-> None], reports |-> {},
     routes |-> [k \in Keys |-> None], effects |-> [s \in Devices |-> None],
     tried |-> [s \in Devices |-> 0], moved |-> [t \in Streams |-> None], rounds |-> 0,
     avail |-> {}, ready |-> {}, blocked |-> {}, retained |-> {},
     effective |-> [s \in Devices |-> None], lost |-> FALSE, failed |-> FALSE]

NoSample == [cookie |-> 0]

Init ==
    \E p \in Plans :
      /\ plan = p
      /\ world = StartWorld(p)
      /\ mixer = Reconciler(p.want, p.config)
      /\ sample = NoSample
      /\ desk = [want |-> p.want, rev |-> 1, wake |-> TRUE, stopped |-> FALSE,
                 known |-> FALSE, ids |-> [mx \in Mixes |-> 0], inbox |-> <<>>]

Spend(field) == plan[field] > 0 /\ plan' = [plan EXCEPT ![field] = @ - 1]

\* No call fails, or the one for some element of S does.
Fault(bad, S) ==
    \/ bad = None /\ UNCHANGED plan
    \/ bad \in S /\ Spend("faults")

-----------------------------------------------------------------------------
(* The loop.                                                               *)

\* update: sinks of the definition file whose mix is gone are to be removed.
Update(m, want, rev) ==
    IF m.rev = rev THEN m ELSE
    [m EXCEPT !.want = want, !.rev = rev,
              !.removed = [n \in Names |->
                 IF n \notin want.mixes /\ m.persistent[n] # 0 THEN m.persistent[n]
                 ELSE m.removed[n]]]

LeveledRows(old, new) == {s \in Sources : new.rows[s].on /\ old.rows[s].level # new.rows[s].level}

OnlyLevels(old, new) ==
    /\ new = [old EXCEPT !.rows = [s \in Sources |->
                                     [old.rows[s] EXCEPT !.level = new.rows[s].level]]]
    /\ \A s \in LeveledRows(old, new) : old.rows[s].level > 0 /\ new.rows[s].level > 0

\* Routes whose level the edit moves.
Leveled(m, want) == {k \in want.cells : k[1] \in LeveledRows(m.want, want)}

Tunable(m, w, want, k) ==
    /\ m.routes[k] # None /\ m.routes[k].applied # None /\ m.routes[k].known
    /\ Alive(w, k, m.routes[k].id)
    /\ m.routes[k].applied.muted = want.rows[k[1]].muted

\* The volumes that retune has to write.
Volumes(m, want) ==
    {k \in Leveled(m, want) : m.routes[k].applied.level # want.rows[k[1]].level}

CanRetune(m, w, want) ==
    /\ OnlyLevels(m.want, want) /\ LeveledRows(m.want, want) # {}
    /\ \A k \in Leveled(m, want) : Tunable(m, w, want, k)
    /\ Volumes(m, want) # {}

WriteVolumes(w, m, want, S) ==
    [w |-> [w EXCEPT !.nodes = [k \in Keys |->
               IF k \in S THEN [w.nodes[k] EXCEPT !.level = want.rows[k[1]].level]
               ELSE w.nodes[k]]],
     m |-> [m EXCEPT !.routes = [k \in Keys |->
               IF k \in S THEN [m.routes[k] EXCEPT !.applied.level = want.rows[k[1]].level]
               ELSE m.routes[k]]]]

Awake == mixer.pc = "idle" /\ ~desk.stopped /\ Len(desk.inbox) < MaxQueue

\* run: an edit that only moves levels is written straight to its routes.
Retune ==
    /\ Awake /\ desk.wake /\ CanRetune(mixer, world, desk.want)
    /\ LET x == WriteVolumes(world, mixer, desk.want, Volumes(mixer, desk.want))
       IN world' = x.w /\ mixer' = Update(x.m, desk.want, desk.rev)
    /\ desk' = [desk EXCEPT !.wake = FALSE]
    /\ UNCHANGED <<sample, plan>>

\* A write fails: the node id is not trusted again, and a cycle follows.
RetuneFails ==
    /\ Awake /\ desk.wake /\ CanRetune(mixer, world, desk.want)
    /\ Spend("faults")
    /\ \E k \in Volumes(mixer, desk.want), done \in SUBSET Volumes(mixer, desk.want) :
         /\ k \notin done
         /\ LET x == WriteVolumes(world, mixer, desk.want, done)
            IN /\ world' = x.w
               /\ mixer' = [Update(x.m, desk.want, desk.rev) EXCEPT
                              !.routes[k].known = FALSE, !.pc = "again"]
    /\ desk' = [desk EXCEPT !.wake = FALSE]
    /\ UNCHANGED sample

\* The wake of an edit, the interval, or what is owed after a retune.
Begins ==
    \/ Awake /\ desk' = [desk EXCEPT !.wake = FALSE]
    \/ mixer.pc = "again" /\ UNCHANGED desk

Told == IF mixer.pc = "again" THEN mixer ELSE Update(mixer, desk.want, desk.rev)

\* cycle: the snapshot.  What another client did before it is no longer news.
Sample ==
    /\ Begins
    /\ world' = [world EXCEPT !.nodes = [k \in Keys |->
                   IF world.nodes[k] = None THEN None
                   ELSE [world.nodes[k] EXCEPT !.alien = FALSE]]]
    /\ sample' = world'
    /\ mixer' = [Told EXCEPT !.pc = "sinks", !.reports = {}]
    /\ UNCHANGED plan

Lost == [kind |-> "lost"]

\* No snapshot: nothing is known, so nothing is touched.
SampleFails ==
    /\ Awake \/ mixer.pc = "again"
    /\ Spend("faults")
    /\ desk' = [desk EXCEPT !.wake = IF mixer.pc = "again" THEN @ ELSE FALSE,
                            !.inbox = Append(@, Lost)]
    /\ mixer' = [Told EXCEPT !.pc = "idle", !.reports = {}]
    /\ UNCHANGED <<world, sample>>

-----------------------------------------------------------------------------
(* The cycle.                                                              *)

State == [w |-> world, m |-> mixer, err |-> FALSE]

\* What was done before an element whose call fails.
Order(bad, S) == IF bad \in S THEN SUBSET (S \ {bad}) ELSE {{}}

\* An error ends the reconciliation, and the cycle reports what it can.
Becomes(x, pc) ==
    /\ world' = x.w
    /\ mixer' = [x.m EXCEPT !.pc = IF x.err THEN "report" ELSE pc, !.failed = x.err]
    /\ UNCHANGED <<sample, desk>>

\* stop_routes, stop_effects: one that cannot be ended does not spare the rest.
EndRoutes(x, bad) ==
    [FoldSet(LAMBDA k, y : IF k = bad THEN y ELSE EndRoute(y, k), x,
             {k \in Keys : x.m.routes[k] # None})
       EXCEPT !.err = bad \in Keys /\ x.m.routes[bad] # None]

EndFilters(x, bad) ==
    [FoldSet(LAMBDA s, y : IF s = bad THEN y ELSE DropFilter(y, s, None),
             [x EXCEPT !.err = FALSE], Devices)
       EXCEPT !.err = bad \in Devices /\ x.m.effects[bad] # None]

EndAll(x, bad) == IF x.err THEN x ELSE EndFilters(x, bad)

Forgotten(m) ==
    [m EXCEPT !.handles = Nothing, !.persistent = [n \in Names |-> 0],
              !.removed = [n \in Names |-> 0], !.masters = [mx \in Mixes |-> None],
              !.moved = [t \in Streams |-> None]]

\* observe_cookie: another server has none of the things we know.
Recognized(x, g, bad) ==
    LET ended == EndAll(EndRoutes(x, bad), bad) IN
    IF x.m.cookie \in {0, g.cookie} THEN [x EXCEPT !.m.cookie = g.cookie]
    ELSE IF ended.err THEN ended
    ELSE [ended EXCEPT !.m = [Forgotten(ended.m) EXCEPT !.cookie = g.cookie]]

\* The definition file is brought up to date before sinks are looked for.
MakeSinks(x, g, bad) ==
    FoldSet(LAMBDA n, y : EnsureSink(y, g, n, bad),
            IF x.err THEN x ELSE [x EXCEPT !.m.defined = x.m.want.mixes], x.m.want.mixes)

SyncMasters(x, g, bad) ==
    IF x.err THEN x
    ELSE FoldSet(LAMBDA mx, y : SyncMaster(y, g, mx, bad),
                 [x EXCEPT !.m.masters = [mx \in Mixes |->
                             IF mx \in x.m.want.mixes THEN @[mx] ELSE None]],
                 x.m.want.mixes)

Sinks ==
    /\ mixer.pc = "sinks"
    /\ \E bad \in Keys \cup Devices \cup Mixes \cup {None} :
         /\ Fault(bad, Keys \cup Devices \cup Mixes)
         /\ Becomes(SyncMasters(MakeSinks(Recognized(State, sample, bad), sample, bad),
                                sample, bad), "filters")

Filters ==
    /\ mixer.pc = "filters"
    /\ \E bad \in Devices \cup {None} : \E done \in Order(bad, Devices) :
         /\ Fault(bad, Devices)
         /\ Becomes(Sweep(LAMBDA s, x : SyncFilter(x, sample, s, bad), State,
                          Devices, bad, done), "barrier")

\* Nothing is opened before everything that has to be silent is.
Barrier ==
    /\ mixer.pc = "barrier"
    /\ \E bad \in Keys \cup {None} : \E done \in Order(bad, Keys) :
         /\ Fault(bad, Keys)
         /\ Becomes(Sweep(LAMBDA k, x : Silence(x, sample, k, bad), State,
                          Keys, bad, done), "connect")

OnApps(want) == {a \in Apps : want.rows[a].on}

Intakes(x, g, bad) ==
    FoldSet(LAMBDA t, y : MoveIn(y, g, t, bad),
            FoldSet(LAMBDA a, y : EnsureSink(y, g, a, bad), x, OnApps(x.m.want)),
            Streams)

Connect ==
    /\ mixer.pc = "connect"
    /\ \E bad \in Apps \cup Streams \cup Keys \cup {None} :
         /\ Fault(bad, Apps \cup Streams \cup Keys)
         /\ Becomes(FoldSet(LAMBDA k, x : Route(x, sample, k, bad),
                            Intakes(State, sample, bad), Keys), "retire")

Stale(x, g) == {k \in Keys : x.m.routes[k] # None /\ ~Wanted(x, g, k)}

DropStale(x, g, bad, done) ==
    Sweep(LAMBDA k, y : DropRoute(y, k, bad), x, Stale(x, g), bad, done)

RestoreStreams(x, g, claims, kept, bad) ==
    IF x.err THEN x
    ELSE FoldSet(LAMBDA t, y : Restore(y, g, t, claims, kept, bad), x, Streams)

CleanUp(x, wanted, bad) ==
    FoldSet(LAMBDA n, y : UnloadSink(y, n, wanted, bad),
            FoldSet(LAMBDA n, y : DestroySink(y, n, wanted, bad), x, Names), Names)

\* The streams that rows claim in this snapshot.
Claims == {t \in Streams : sample.streams[t] # None /\ Claimed(mixer, t)}

CleanedUp(x, bad) == CleanUp(x, Kept(x.m) \cup x.m.retained, bad)

Retire ==
    /\ mixer.pc = "retire"
    /\ \E bad \in Keys \cup Streams \cup Names \cup {None} : \E done \in Order(bad, Keys) :
         /\ Fault(bad, Keys \cup Streams \cup Names)
         /\ Becomes(CleanedUp(RestoreStreams(DropStale(State, sample, bad, done),
                                             sample, Claims, Kept(mixer), bad), bad), "report")

\* cleanup_sinks takes snapshots of its own: one of them fails.
RetireFails ==
    /\ mixer.pc = "retire" /\ Spend("faults")
    /\ LET x == RestoreStreams(DropStale(State, sample, None, {}),
                               sample, Claims, Kept(mixer), None)
       IN /\ \E n \in Names \ (Kept(mixer) \cup x.m.retained) :
                x.m.handles[n] # None \/ x.m.removed[n] # 0
          /\ Becomes([x EXCEPT !.err = TRUE, !.m.lost = TRUE], "report")

\* mix_identities.
Identities ==
    [mx \in Mixes |-> IF mx \in mixer.want.mixes /\ Proven(mixer, sample, mx)
                      THEN SinkAt(sample, mx).id ELSE 0]

\* A master is reported only if it was sampled under the latest orders.
Reported == IF desk.rev = mixer.rev /\ ~desk.stopped THEN mixer.reports ELSE {}

Emitted(reports) ==
    [mx \in Mixes |->
       IF \E r \in reports : r.mix = mx
       THEN LET r == CHOOSE r \in reports : r.mix = mx
            IN [mixer.masters[mx] EXCEPT !.emitted = r.set, !.rev = mixer.rev]
       ELSE mixer.masters[mx]]

Seen == [kind |-> "seen", ids |-> Identities]
Observed(r) == [kind |-> "master", mix |-> r.mix, id |-> r.id, set |-> r.set, rev |-> mixer.rev]

Report ==
    /\ mixer.pc = "report"
    /\ IF mixer.lost
       THEN /\ desk' = [desk EXCEPT !.inbox = Append(@, Lost)]
            /\ mixer' = [Idle(mixer) EXCEPT !.pc = "idle", !.reports = {}]
       ELSE /\ desk' = [desk EXCEPT !.inbox =
                          @ \o <<Seen>> \o SetToSeq({Observed(r) : r \in Reported})]
            /\ mixer' = [Idle(mixer) EXCEPT !.pc = "idle", !.reports = {},
                                            !.masters = Emitted(Reported)]
    /\ sample' = NoSample
    /\ UNCHANGED <<world, plan>>

-----------------------------------------------------------------------------
(* Stopping: Mixer::stop and teardown, retried until they succeed.         *)

Stopping ==
    /\ mixer.pc = "idle" /\ desk.stopped
    /\ mixer' = [mixer EXCEPT !.pc = IF mixer.cookie = 0 THEN "stopped" ELSE "down"]
    /\ UNCHANGED <<world, sample, desk, plan>>

NoChildren(m) ==
    m.routes = [k \in Keys |-> None] /\ m.effects = [s \in Devices |-> None]

StopChildren ==
    /\ mixer.pc = "down"
    /\ \E bad \in Keys \cup Devices \cup {None} :
         /\ Fault(bad, Keys \cup Devices)
         /\ LET x == EndFilters(EndRoutes(State, bad), bad)
            IN /\ world' = x.w
               /\ mixer' = [x.m EXCEPT !.rounds = 3,
                              !.pc = IF NoChildren(x.m) THEN "restore" ELSE "failed"]
    /\ UNCHANGED <<sample, desk>>

\* A round of restore_streams from a fresh snapshot of the same server.
RestoreAll ==
    /\ mixer.pc = "restore"
    /\ \E bad \in Streams \cup {None} :
         /\ Fault(bad, Streams)
         /\ LET x == RestoreStreams([State EXCEPT !.m.retained = {}], world, {}, {}, bad)
            IN IF world.cookie # mixer.cookie
               THEN mixer' = [mixer EXCEPT !.pc = "failed"] /\ UNCHANGED world
               ELSE /\ world' = x.w
                    /\ mixer' = [x.m EXCEPT !.rounds = @ - 1,
                                   !.pc = IF x.m.retained = {} \/ mixer.rounds = 1
                                          THEN "unload" ELSE "restore"]
    /\ UNCHANGED <<sample, desk>>

\* Definitions stay; what we loaded goes.  A stop that left anything is no success.
Unload ==
    /\ mixer.pc = "unload"
    /\ \E bad \in Names \cup {None} :
         /\ Fault(bad, Names)
         /\ LET x == CleanUp([State EXCEPT !.m.removed = [n \in Names |-> 0]],
                             mixer.retained, bad)
            IN /\ world' = x.w
               /\ mixer' = [x.m EXCEPT !.lost = FALSE, !.retained = {},
                              !.pc = IF ~x.err /\ x.m.handles = Nothing /\ mixer.retained = {}
                                     THEN "stopped" ELSE "failed"]
    /\ UNCHANGED <<sample, desk>>

Retry ==
    /\ mixer.pc = "failed"
    /\ mixer' = [mixer EXCEPT !.pc = "down"]
    /\ UNCHANGED <<world, sample, desk, plan>>

-----------------------------------------------------------------------------
(* The controller.                                                         *)

\* commit and route: the mixer is told before the next event is read.
Commit(want) ==
    desk' = [desk EXCEPT !.want = want, !.rev = @ + 1, !.wake = TRUE]

MayEdit(kind) == ~desk.stopped /\ kind \in plan.menu /\ Spend("edits")

SetMaster(mx, set) ==
    /\ MayEdit("master") /\ mx \in desk.want.mixes
    /\ Commit([desk.want EXCEPT !.saved[mx] = set])
    /\ UNCHANGED <<world, mixer, sample>>

MuteRow(s, muted) ==
    /\ MayEdit("mute") /\ desk.want.rows[s].on /\ desk.want.rows[s].muted # muted
    /\ Commit([desk.want EXCEPT !.rows = SetMuted(@, s, muted)])
    /\ UNCHANGED <<world, mixer, sample>>

SetLevel(s, level) ==
    /\ MayEdit("level") /\ desk.want.rows[s].on /\ desk.want.rows[s].level # level
    /\ Commit([desk.want EXCEPT !.rows[s].level = level])
    /\ UNCHANGED <<world, mixer, sample>>

SetFx(s) ==
    /\ MayEdit("fx") /\ desk.want.rows[s].on
    /\ Commit([desk.want EXCEPT !.rows[s].fx = ~@])
    /\ UNCHANGED <<world, mixer, sample>>

\* A row that is removed takes its cells along; one that is added has none.
ToggleRow(s) ==
    /\ MayEdit("row")
    /\ Commit([desk.want EXCEPT !.rows[s].on = ~@, !.rows[s].muted = TRUE,
                                !.cells = {k \in @ : k[1] # s}])
    /\ UNCHANGED <<world, mixer, sample>>

ToggleSend(k) ==
    /\ MayEdit("send") /\ desk.want.rows[k[1]].on /\ k[2] \in desk.want.mixes
    /\ Commit([desk.want EXCEPT !.cells = IF k \in @ THEN @ \ {k} ELSE @ \cup {k}])
    /\ UNCHANGED <<world, mixer, sample>>

RemoveMix(mx) ==
    /\ MayEdit("mix") /\ mx \in desk.want.mixes /\ desk.want.mixes # {mx}
    /\ Commit([desk.want EXCEPT !.mixes = @ \ {mx}, !.saved[mx] = None,
                                !.cells = {k \in @ : k[2] # mx}])
    /\ UNCHANGED <<world, mixer, sample>>

AddMix(mx) ==
    /\ MayEdit("mix") /\ mx \notin desk.want.mixes
    /\ Commit([desk.want EXCEPT !.mixes = @ \cup {mx}])
    /\ UNCHANGED <<world, mixer, sample>>

Edit ==
    \/ \E mx \in Mixes, set \in Settings : SetMaster(mx, set)
    \/ \E s \in Sources, muted \in BOOLEAN : MuteRow(s, muted)
    \/ \E s \in Sources, level \in 0..2 : SetLevel(s, level)
    \/ \E s \in Devices : SetFx(s)
    \/ \E s \in Sources : ToggleRow(s)
    \/ \E k \in Keys : ToggleSend(k)
    \/ \E mx \in Mixes : RemoveMix(mx) \/ AddMix(mx)

Accepts_AnyRevision(event) == desk.known /\ desk.ids[event.mix] = event.id

\* The guard of BackendEvent::Master.
Accepts(event) ==
    /\ desk.known /\ event.rev = desk.rev
    /\ desk.ids[event.mix] = event.id
    /\ event.mix \in desk.want.mixes

Read ==
    /\ desk.inbox # <<>>
    /\ LET event == Head(desk.inbox)
           rest == [desk EXCEPT !.inbox = Tail(@)]
       IN desk' =
            CASE event.kind = "lost" ->
                   [rest EXCEPT !.known = FALSE, !.ids = [mx \in Mixes |-> 0]]
              [] event.kind = "seen" -> [rest EXCEPT !.known = TRUE, !.ids = event.ids]
              [] event.kind = "master" ->
                   IF /\ ~desk.stopped /\ Accepts(event)
                      /\ desk.want.saved[event.mix] # event.set
                   THEN [rest EXCEPT !.want.saved[event.mix] = event.set,
                                     !.rev = @ + 1, !.wake = TRUE]
                   ELSE rest
    /\ UNCHANGED <<world, mixer, sample, plan>>

Stop ==
    /\ ~desk.stopped /\ plan.stop
    /\ desk' = [desk EXCEPT !.stopped = TRUE]
    /\ UNCHANGED <<world, mixer, sample, plan>>

-----------------------------------------------------------------------------
(* The world.                                                              *)

World(w) == world' = Tidied(w) /\ UNCHANGED <<mixer, sample, desk>>

Appears(k) ==
    /\ world.nodes[k] # None /\ ~world.nodes[k].seen
    /\ World([world EXCEPT !.nodes[k].seen = TRUE])
    /\ UNCHANGED plan

FilterAppears(s) ==
    /\ world.filters[s] # None /\ ~world.filters[s].seen
    /\ World([world EXCEPT !.filters[s].seen = TRUE])
    /\ UNCHANGED plan

\* FX_RETRY passes: a filter may be tried again, a silent one is given up.
RetryDue(s) ==
    /\ mixer.tried[s] # 0
    /\ mixer' = [mixer EXCEPT !.tried[s] = 0]
    /\ UNCHANGED <<world, sample, desk, plan>>

Turn(mx, set) ==
    /\ Spend("hands") /\ SinkAt(world, mx) # None /\ SinkAt(world, mx).set # set
    /\ World([world EXCEPT !.sinks[mx] = {[k EXCEPT !.set = set] : k \in @}])

Upset(kind) == kind \in plan.upset /\ Spend("upsets")

ChildExits(k) ==
    Upset("exit") /\ world.nodes[k] # None /\ World([world EXCEPT !.nodes[k] = None])

FilterExits(s) ==
    Upset("exit") /\ world.filters[s] # None /\ World([world EXCEPT !.filters[s] = None])

\* Another client unmutes a node of ours.
Unmute(k) ==
    /\ Upset("unmute") /\ world.nodes[k] # None /\ world.nodes[k].muted
    /\ World([world EXCEPT !.nodes[k].muted = FALSE, !.nodes[k].alien = TRUE])

Unplug(s) == Upset("plug") /\ world.caps[s] # 0 /\ World([world EXCEPT !.caps[s] = 0])

\* The next capture of that name: numbers count the server's lives too.
Plug(s) ==
    /\ Upset("plug") /\ world.caps[s] = 0
    /\ World([world EXCEPT !.caps[s] = world.next, !.next = @ + 1])

SinkLost(n) ==
    Upset("sink") /\ world.sinks[n] # {} /\ World([world EXCEPT !.sinks[n] = {}])

Squat(n) ==
    /\ Upset("squat")
    /\ World([world EXCEPT !.sinks[n] = @ \cup {[id |-> world.next, by |-> "other", set |-> Factory]},
                           !.next = @ + 1])

OutputLost(o) ==
    Upset("output") /\ o \in world.outs /\ world.outs # {o} /\ World([world EXCEPT !.outs = @ \ {o}])

\* A stream starts, ends or is moved by hand.
StreamGoes(t, place) ==
    /\ Upset("stream") /\ place # world.streams[t]
    /\ world.streams[t] = None => mixer.moved[t] = None     \* it is a new one
    /\ place \in Names => world.sinks[place] # {}
    /\ place \in Outputs => place \in world.outs
    /\ World([world EXCEPT !.streams[t] = place])

\* The audio server restarts: only the definitions come back.
Restart ==
    /\ Upset("restart")
    /\ World([world EXCEPT
         !.cookie = @ + 1, !.next = @ + 1,
         !.sinks = [n \in Names |-> IF n \in mixer.defined
                      THEN {[id |-> world.next, by |-> "config", set |-> Factory]} ELSE {}],
         !.caps = [s \in Devices |-> IF @[s] = 0 THEN 0 ELSE world.next],
         !.nodes = [k \in Keys |-> None], !.filters = [s \in Devices |-> None],
         !.streams = [t \in Streams |-> None]])

Upsets ==
    \/ \E k \in Keys : ChildExits(k) \/ Unmute(k)
    \/ \E s \in Devices : FilterExits(s) \/ Unplug(s) \/ Plug(s)
    \/ \E n \in Names : SinkLost(n) \/ Squat(n)
    \/ \E o \in Outputs : OutputLost(o)
    \/ \E t \in Streams, place \in Names \cup Outputs \cup {None} : StreamGoes(t, place)
    \/ Restart

Cycle == Retune \/ Sample \/ Sinks \/ Filters \/ Barrier \/ Connect \/ Retire \/ Report

Fails == RetuneFails \/ SampleFails \/ RetireFails

Teardown == Stopping \/ StopChildren \/ RestoreAll \/ Unload \/ Retry

Time ==
    \/ \E k \in Keys : Appears(k)
    \/ \E s \in Devices : FilterAppears(s) \/ RetryDue(s)

Next ==
    \/ Cycle \/ Fails \/ Teardown \/ Edit \/ Read \/ Stop \/ Time \/ Upsets
    \/ \E mx \in Mixes, set \in Settings : Turn(mx, set)

Spec == Init /\ [][Next]_vars

Points == {"idle", "again", "sinks", "filters", "barrier", "connect", "retire", "report",
           "down", "restore", "unload", "failed", "stopped"}

\* The code waits for a child: a route for Patience snapshots, a filter for FX_RETRY.
InTime ==
    /\ mixer.pc = "connect" =>
         \A k \in Keys :
            mixer.routes[k] # None /\ mixer.routes[k].missing = Patience - 1 =>
               Owned(sample, k, mixer.routes[k].id)
    /\ mixer.pc = "filters" =>
         \A s \in Devices :
            mixer.effects[s] # None /\ mixer.tried[s] = 0 =>
               FilterAlive(sample, s, mixer.effects[s].id) /\ sample.filters[s].seen

\* What goes on for ever, each as what it comes to: the thread never stays at one
\* point, its events are read, FX_RETRY passes, and after a while no child is given
\* up for coming up too late.
Fairness ==
    /\ \A p \in Points \ {"stopped"} : []<>(mixer.pc # p)
    /\ []<>(Len(desk.inbox) < MaxQueue)
    /\ \A s \in Devices : []<>(mixer.tried[s] = 0)
    /\ <>[]InTime

FairSpec == Spec /\ Fairness

-----------------------------------------------------------------------------
(* Properties.                                                             *)

\* A route is heard when its node is up, linked at both ends and not muted.
Heard(w, k) ==
    LET n == w.nodes[k] IN
    n # None /\ n.seen /\ ~n.muted /\ n.level > 0 /\ n.src # None /\ n.dst # 0

HeardRows(w) == {s \in Sources : \E mx \in Mixes : Heard(w, <<s, mx>>)}

\* A row of a group is opened only into silence: when a cycle makes it heard, no
\* other row of its group is heard, whatever failed in the cycle, except through
\* a client that unmuted it behind the snapshot.
Tampered(s) == \E mx \in Mixes : world.nodes[<<s, mx>>] # None /\ world.nodes[<<s, mx>>].alien

SameGroup(s, t) ==
    /\ mixer.want.rows[s].group = mixer.want.rows[t].group
    /\ mixer.want.rows[s].group # NoGroup

OpensIntoSilence ==
    [][mixer.pc = "connect" /\ mixer'.pc # "connect" =>
         \A s \in HeardRows(world') \ HeardRows(world) :
            \A t \in HeardRows(world') \ {s} : SameGroup(s, t) => Tampered(s) \/ Tampered(t)]_vars

\* Nothing is heard at the gain a child or a sink comes up with: gain is set
\* before audio is linked, and a mix is not used before its master is restored.
HeardAsSaved ==
    \A k \in Keys : Heard(world, k) =>
       /\ world.nodes[k].level # Unity
       /\ plan.want.saved[k[2]] # None /\ desk.want.saved[k[2]] # None =>
            \A n \in world.sinks[k[2]] : n.id = world.nodes[k].dst => n.set # Factory

\* The factory setting of a new sink never replaces a setting that was saved,
\* whatever is lost, restarted or turned while the sink is being restored.
FactoryNeverSaved ==
    [][\A mx \in Mixes :
         desk.want.saved[mx] \in Settings => desk'.want.saved[mx] # Factory]_vars

\* With effects on, a row is not heard past its filter.
NoRawLeak ==
    mixer.pc = "retire" =>
       \A k \in Devices \X Mixes :
          mixer.want.rows[k[1]].fx /\ Heard(world, k) => world.nodes[k].src[1] = "fx"

\* A stop that succeeds leaves no child and no sink of ours, so no stream in one;
\* only what a cycle loaded into a server it had not sampled stays behind.
CleanStop ==
    mixer.pc = "stopped" =>
       /\ \A k \in Keys : world.nodes[k] = None
       /\ \A s \in Devices : world.filters[s] = None
       /\ \A n \in Names : \A k \in world.sinks[n] : k.by # "us"

\* The name is held by a sink that the code refuses to touch.
Squatted == \E n \in Names : \E k \in world.sinks[n] : k.by \in {"other", "late"}

ShouldHear(k) ==
    LET row == desk.want.rows[k[1]] IN
    /\ row.on /\ ~row.muted /\ row.level > 0
    /\ k \in desk.want.cells /\ k[2] \in desk.want.mixes
    /\ k[1] \in Devices => world.caps[k[1]] # 0

RoutesSettled ==
    \A k \in Keys :
       /\ Heard(world, k) <=> ShouldHear(k)
       /\ Heard(world, k) =>
             /\ world.nodes[k].level = desk.want.rows[k[1]].level
             /\ desk.want.rows[k[1]].fx /\ k[1] \in Devices => world.nodes[k].src[1] = "fx"

MastersSettled ==
    \A mx \in desk.want.mixes :
       SinkAt(world, mx) # None /\ SinkAt(world, mx).set = desk.want.saved[mx]

\* Claimed streams are in their intake, and nothing else is in anything of ours
\* that is not wanted.
StreamsSettled ==
    /\ \A t \in Streams :
          world.streams[t] # None =>
             IF desk.want.rows[ClaimOf[t]].on THEN world.streams[t] = ClaimOf[t]
             ELSE world.streams[t] \notin Apps
    /\ \A n \in Names \ Kept(mixer) : \A k \in world.sinks[n] : k.by # "us"

Excused == desk.stopped \/ Squatted

\* When commands, hands and accidents are over, the world comes to be as desired;
\* a sink of the definition file goes with its mix, if it was ever made out and
\* nobody plays into it.
Settles ==
    /\ <>[](Excused \/ (RoutesSettled /\ MastersSettled /\ StreamsSettled))
    /\ \A n \in Mixes :
          mixer.persistent[n] # 0 ~>
             (Excused \/ n \in desk.want.mixes \/ world.sinks[n] = {} \/ Occupied(world, n))
=============================================================================
