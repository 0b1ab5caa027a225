----------------------------- MODULE MixerSteps -----------------------------
(***************************************************************************)
(* The parts of one reconciliation of mixer.rs: what it does about sinks,  *)
(* masters, filters, routes and streams, each as an operator from the      *)
(* state x before it to the state after it.                                *)
(*   x.w     the audio server and the children, as they are now            *)
(*   x.m     the Reconciler                                                *)
(*   x.err   an error has ended the reconciliation (Rust's ?)              *)
(* g is the snapshot the cycle works from: the world as it was, which is   *)
(* why every call that names something of g may find it gone.  `bad` is    *)
(* the element whose next call fails for a reason of its own.              *)
(*                                                                         *)
(* Identities are numbers.  A child has one node in its life, so its       *)
(* number is the owner token, the identity and the runtime id of its node. *)
(* Level and mute of a master are one setting; readback rounds below the   *)
(* tolerance of the code (0.001) and is exact here.                        *)
(***************************************************************************)
EXTENDS Naturals, FiniteSets, FiniteSetsExt, Functions

CONSTANTS
    Mixes,       \* mix identities, also the names of their sinks
    Devices,     \* capture rows
    Apps,        \* application rows, also the names of their intakes
    Streams,     \* playback streams of applications
    Outputs,     \* outputs that are not OpenWave's
    ClaimOf,     \* the application row that claims a stream
    None

Names == Mixes \cup Apps
Sources == Devices \cup Apps
Keys == Sources \X Mixes

Factory == "factory"     \* what a new sink comes up with
Unity == 3               \* what a new loopback comes up with
Patience == 3            \* snapshots a handle may be missing from

\* Applied in any order, except that what follows a failure is skipped.
Sweep(Op(_, _), x, S, bad, done) ==
    IF bad \in S
    THEN FoldSet(Op, Op(bad, FoldSet(Op, x, done)), S \ (done \cup {bad}))
    ELSE FoldSet(Op, x, S)

-----------------------------------------------------------------------------
(* The world.                                                              *)

\* The sink of that name, unless the name is ambiguous.
SinkAt(w, n) ==
    IF Cardinality(w.sinks[n]) = 1 THEN CHOOSE k \in w.sinks[n] : TRUE ELSE None

Exists(w, n, id) == \E k \in w.sinks[n] : k.id = id
Alive(w, k, id) == w.nodes[k] # None /\ w.nodes[k].id = id
Owned(g, k, id) == Alive(g, k, id) /\ g.nodes[k].seen
FilterAlive(w, s, id) == w.filters[s] # None /\ w.filters[s].id = id
Default(w) == CHOOSE o \in w.outs : TRUE

\* What a route takes its audio from: a capture, a filter or an intake.
SourceLive(w, s, src) ==
    CASE src[1] = "raw"  -> w.caps[s] = src[2]
      [] src[1] = "fx"   -> FilterAlive(w, s, src[2])
      [] src[1] = "sink" -> Exists(w, s, src[2])

\* Links end with their ends; the streams of a sink that is gone fall back.
Tidied(w) ==
    [w EXCEPT
       !.filters = [s \in Devices |->
          IF w.filters[s] # None /\ w.filters[s].raw # w.caps[s]
          THEN [w.filters[s] EXCEPT !.raw = 0] ELSE w.filters[s]],
       !.nodes = [k \in Keys |->
          IF w.nodes[k] = None THEN None
          ELSE [w.nodes[k] EXCEPT
                  !.src = IF @ # None /\ SourceLive(w, k[1], @) THEN @ ELSE None,
                  !.dst = IF Exists(w, k[2], @) THEN @ ELSE 0]],
       !.streams = [t \in Streams |->
          IF \/ w.streams[t] \in Names /\ w.sinks[w.streams[t]] = {}
             \/ w.streams[t] \in Outputs \ w.outs
          THEN Default(w) ELSE w.streams[t]]]

\* The smallest number that nothing still refers to.
Unused(S) == CHOOSE i \in 1..(Cardinality(S) + 1) :
                i \notin S /\ \A j \in 1..(i - 1) : j \in S

\* A cycle that outlived the server it sampled makes a sink that it cannot know again.
Created(w, n, cookie) ==
    [w EXCEPT !.next = @ + 1,
              !.sinks[n] = @ \cup {[id |-> w.next, set |-> Factory,
                                    by |-> IF cookie = w.cookie THEN "us" ELSE "late"]}]

Removed(w, n, id) ==
    Tidied([w EXCEPT !.sinks[n] = {k \in @ : k.id # id}])

-----------------------------------------------------------------------------
(* Sinks and masters.                                                      *)

\* The handle is proven by the snapshot, or the definition file made the sink.
Proven(m, g, n) ==
    /\ SinkAt(g, n) # None
    /\ \/ m.handles[n] # None /\ m.handles[n].id = SinkAt(g, n).id
       \/ m.persistent[n] = SinkAt(g, n).id

MadeByUs(m, node, n) ==
    node # None /\ m.handles[n] # None /\ m.handles[n].id = node.id

Configured(m, node, n) ==
    node # None /\ m.handles[n] = None /\ n \in Mixes /\ node.by = "config"

\* A snapshot without the sink; only after several is it made anew.
MissSink(x, n, bad) ==
    IF x.m.handles[n] # None /\ x.m.handles[n].missing + 1 < Patience
    THEN [x EXCEPT !.m.handles[n].missing = @ + 1]
    ELSE IF bad = n THEN [x EXCEPT !.m.handles[n] = None]
    ELSE [x EXCEPT !.m.handles[n] = [id |-> x.w.next, missing |-> 0],
                   !.w = Created(x.w, n, x.m.cookie)]

\* ensure_sink; a foreign, unproven or ambiguous sink of that name is left alone.
EnsureSink(x, g, n, bad) ==
    IF x.err THEN x
    ELSE IF MadeByUs(x.m, SinkAt(g, n), n)
    THEN [x EXCEPT !.m.handles[n].missing = 0, !.m.avail = @ \cup {n}]
    ELSE IF Configured(x.m, SinkAt(g, n), n)
    THEN [x EXCEPT !.m.persistent[n] = SinkAt(g, n).id, !.m.avail = @ \cup {n}]
    ELSE IF g.sinks[n] = {} THEN MissSink(x, n, bad) ELSE x

Saved(m, mx, observed) ==
    IF m.want.saved[mx] = None THEN observed ELSE m.want.saved[mx]

\* The controller took over what it was told: that is not a new edit.
Acknowledged(master, desired, observed) ==
    IF master.confirmed /\ master.emitted = desired /\ observed = desired
    THEN [master EXCEPT !.requested = desired] ELSE master

\* The reports owed for a master that is in order.
Owes_Once(m, master, observed) ==
    ~master.confirmed \/ master.emitted # observed

Owes(m, master, observed) ==
    \/ ~master.confirmed
    \/ master.emitted # observed
    \/ master.rev # m.rev

\* A master is confirmed by an observation after the write, never by the write.
Confirms(master, desired, observed) ==
    /\ master.requested = desired
    /\ master.confirmed \/ observed = desired

WriteMaster(x, mx, id, desired, restored, bad) ==
    IF bad = mx \/ ~Exists(x.w, mx, id)
    THEN [x EXCEPT !.m.masters[mx] = None]
    ELSE [x EXCEPT
            !.w.sinks[mx] = {IF k.id = id THEN [k EXCEPT !.set = desired] ELSE k : k \in @},
            !.m.masters[mx] = [id |-> id, requested |-> desired, confirmed |-> FALSE,
                               restored |-> restored, emitted |-> None, rev |-> 0],
            !.m.ready = IF restored THEN @ \cup {mx} ELSE @]

KeepMaster(x, mx, master, observed) ==
    [x EXCEPT
       !.m.masters[mx] = [master EXCEPT !.confirmed = TRUE, !.restored = TRUE],
       !.m.ready = @ \cup {mx},
       !.m.reports = IF Owes(x.m, master, observed)
                     THEN @ \cup {[mix |-> mx, id |-> master.id, set |-> observed]}
                     ELSE @]

\* What is remembered about this very sink.
MasterOf(m, mx, id) ==
    IF m.masters[mx] # None /\ m.masters[mx].id = id THEN m.masters[mx] ELSE None

\* sync_masters, for one mix.
SyncMaster(x, g, mx, bad) ==
    LET sink == SinkAt(g, mx)
        desired == Saved(x.m, mx, sink.set)
        old == MasterOf(x.m, mx, sink.id)
        master == Acknowledged(old, desired, sink.set)
    IN
    IF mx \notin x.m.avail THEN [x EXCEPT !.m.masters[mx] = None]
    ELSE IF old # None /\ Confirms(master, desired, sink.set)
         THEN KeepMaster(x, mx, master, sink.set)
         ELSE WriteMaster(x, mx, sink.id, desired, old # None /\ old.restored, bad)

-----------------------------------------------------------------------------
(* Children: routes and filters.                                           *)

EndRoute_Forgets(x, k) == [x EXCEPT !.m.routes[k] = None]

EndRoute(x, k) == [x EXCEPT !.w.nodes[k] = None, !.m.routes[k] = None]

\* drop_route: a child that is not known to have ended stays owned.
DropRoute(x, k, bad) ==
    IF x.err \/ x.m.routes[k] = None THEN x
    ELSE IF bad = k THEN [x EXCEPT !.err = TRUE] ELSE EndRoute(x, k)

\* drop_effect.
DropFilter(x, s, bad) ==
    IF x.err \/ x.m.effects[s] = None THEN x
    ELSE IF bad = s THEN [x EXCEPT !.err = TRUE]
    ELSE [x EXCEPT !.w = Tidied([x.w EXCEPT !.filters[s] = None]), !.m.effects[s] = None]

WantsFilter(x, g, s) ==
    x.m.want.rows[s].on /\ x.m.want.rows[s].fx /\ g.caps[s] # 0

ReplaceFilter(x, g, s, bad) ==
    LET e == x.m.effects[s] IN
    IF e # None /\ (e.raw # g.caps[s] \/ ~FilterAlive(x.w, s, e.id))
    THEN DropFilter(x, s, bad) ELSE x

\* A filter that ended is started again only after a while.
StartFilter(x, g, s, bad) ==
    IF \/ x.err \/ x.m.effects[s] # None
       \/ x.m.tried[s] = g.caps[s]
       \/ g.filters[s] # None /\ g.filters[s].seen
    THEN x
    ELSE LET id == Unused({f.id : f \in {g.filters[s]} \ {None}})
             tried == [x EXCEPT !.m.tried[s] = g.caps[s]]
         IN IF bad = s THEN tried
            ELSE [tried EXCEPT !.m.effects[s] = [id |-> id, raw |-> g.caps[s]],
                               !.w.filters[s] = [id |-> id, seen |-> FALSE, raw |-> 0]]

\* The filter counts once both its ends are seen and the capture is linked in.
LinkFilter(x, g, s, bad) ==
    LET e == x.m.effects[s]
        seen == FilterAlive(g, s, e.id) /\ g.filters[s].seen
        linked == seen /\ g.filters[s].raw = e.raw
        works == seen /\ bad # s /\ FilterAlive(x.w, s, e.id) /\ x.w.caps[s] = e.raw
    IN
    IF x.err \/ e = None THEN x
    ELSE IF linked THEN [x EXCEPT !.m.effective[s] = <<"fx", e.id>>]
    ELSE IF works THEN [x EXCEPT !.m.effective[s] = <<"fx", e.id>>, !.w.filters[s].raw = e.raw]
    ELSE IF x.m.tried[s] = 0 THEN DropFilter(x, s, None)
    ELSE x

\* sync_effects, for one capture row.
SyncFilter(x, g, s, bad) ==
    IF WantsFilter(x, g, s)
    THEN LinkFilter(StartFilter(ReplaceFilter(x, g, s, bad), g, s, bad), g, s, bad)
    ELSE [DropFilter(x, s, bad) EXCEPT !.m.tried[s] = 0]

Level(m, k) == m.want.rows[k[1]].level
Mute(m, k) == m.want.rows[k[1]].muted \/ Level(m, k) = 0

WriteRoute(x, k, level, muted) ==
    [x EXCEPT !.w.nodes[k].level = level, !.w.nodes[k].muted = muted,
              !.w.nodes[k].alien = FALSE,
              !.m.routes[k].applied = [level |-> level, muted |-> muted]]

\* Nothing that feeds this route can be shown to be the right thing.
Orphaned_KeepsRaw(x, g, k) ==
    \/ ~x.m.want.rows[k[1]].on \/ k \notin x.m.want.cells \/ k[2] \notin x.m.ready
    \/ k[1] \in Devices /\ g.caps[k[1]] = 0

Orphaned(x, g, k) ==
    \/ ~x.m.want.rows[k[1]].on \/ k \notin x.m.want.cells \/ k[2] \notin x.m.ready
    \/ k[1] \in Devices /\
          \/ g.caps[k[1]] = 0
          \/ x.m.want.rows[k[1]].fx /\ x.m.effective[k[1]] = None

\* Cached intent is no proof of silence: the node must be seen muted as well.
ProvenMuted_Cached(g, r, k, level) == r.applied = [level |-> level, muted |-> TRUE]

ProvenMuted(g, r, k, level) ==
    g.nodes[k].muted /\ r.applied = [level |-> level, muted |-> TRUE]

\* The silencing barrier, for one route.
Silence(x, g, k, bad) ==
    LET r == x.m.routes[k]
        known == [x EXCEPT !.m.routes[k].known = TRUE]
    IN
    IF x.err \/ r = None THEN x
    ELSE IF Orphaned(x, g, k) THEN DropRoute(x, k, bad)
    ELSE IF ~Mute(x.m, k) THEN x
    ELSE IF ~Alive(x.w, k, r.id) \/ ~Owned(g, k, r.id) THEN DropRoute(x, k, bad)
    ELSE IF ProvenMuted(g, r, k, Level(x.m, k)) THEN known
    ELSE IF bad = k THEN [x EXCEPT !.err = TRUE]
    ELSE WriteRoute(known, k, Level(x.m, k), TRUE)

\* The node a row is captured from in this cycle.
CaptureOf(x, g, s) ==
    IF s \in Devices
    THEN IF g.caps[s] = 0 THEN None
         ELSE IF x.m.want.rows[s].fx THEN x.m.effective[s] ELSE <<"raw", g.caps[s]>>
    ELSE IF s \in x.m.avail THEN <<"sink", SinkAt(g, s).id>> ELSE None

Wanted(x, g, k) ==
    /\ x.m.want.rows[k[1]].on /\ k \in x.m.want.cells /\ k[2] \in x.m.ready
    /\ CaptureOf(x, g, k[1]) # None

SpecOf(x, g, k) == [src |-> CaptureOf(x, g, k[1]), dst |-> SinkAt(g, k[2]).id]

Blocked(x, k) == [x EXCEPT !.m.blocked = @ \cup {k[1]}]

SpawnRoute(x, g, k, bad) ==
    IF \/ bad = k
       \/ g.nodes[k] # None /\ g.nodes[k].seen      \* the name is still taken
    THEN Blocked(x, k)
    ELSE LET id == Unused({n.id : n \in {g.nodes[k]} \ {None}})
         IN [x EXCEPT
               !.m.routes[k] = [id |-> id, spec |-> SpecOf(x, g, k), applied |-> None,
                                missing |-> 0, known |-> FALSE],
               !.w.nodes[k] = [id |-> id, seen |-> FALSE, level |-> Unity, muted |-> FALSE,
                               src |-> None, dst |-> 0, alien |-> FALSE]]

\* link_nodes, towards the mix and then from the source.
LinkSource(x, g, k, spec, bad) ==
    IF g.nodes[k].src = spec.src THEN x
    ELSE IF bad # k /\ SourceLive(x.w, k[1], spec.src) /\ Alive(x.w, k, x.m.routes[k].id)
         THEN [x EXCEPT !.w.nodes[k].src = spec.src] ELSE Blocked(x, k)

LinkRoute(x, g, k, spec, bad) ==
    IF g.nodes[k].dst = spec.dst THEN LinkSource(x, g, k, spec, bad)
    ELSE IF bad # k /\ Exists(x.w, k[2], spec.dst) /\ Alive(x.w, k, x.m.routes[k].id)
         THEN LinkSource([x EXCEPT !.w.nodes[k].dst = spec.dst], g, k, spec, bad)
         ELSE Blocked(x, k)

\* The node has been seen: gain first, then the links.
TuneRoute_LinksFirst(x, g, k, bad) ==
    LinkRoute(x, g, k, SpecOf(x, g, k), bad)

TuneRoute(x, g, k, bad) ==
    LET known == [x EXCEPT !.m.routes[k].missing = 0, !.m.routes[k].known = TRUE]
        goal == [level |-> Level(x.m, k), muted |-> Mute(x.m, k)]
    IN IF x.m.routes[k].applied = goal THEN LinkRoute(known, g, k, SpecOf(x, g, k), bad)
       ELSE IF bad = k THEN Blocked(known, k)
       ELSE LinkRoute(WriteRoute(known, k, goal.level, goal.muted), g, k, SpecOf(x, g, k), bad)

MissedRoute(x, k, bad) ==
    LET missed == [x EXCEPT !.m.routes[k].known = FALSE, !.m.routes[k].missing = IF @ < Patience THEN @ + 1 ELSE @]
    IN IF missed.m.routes[k].missing < Patience THEN missed
       ELSE IF bad = k THEN Blocked(missed, k) ELSE EndRoute(missed, k)

\* route, for a cell that is wanted.
Route(x, g, k, bad) ==
    LET r == x.m.routes[k]
        replace == r # None /\ (r.spec # SpecOf(x, g, k) \/ ~Alive(x.w, k, r.id))
    IN
    IF x.err \/ ~Wanted(x, g, k) THEN x
    ELSE IF r = None THEN SpawnRoute(x, g, k, bad)
    ELSE IF replace
         THEN IF bad = k THEN Blocked(x, k) ELSE SpawnRoute(EndRoute(x, k), g, k, None)
    ELSE IF Owned(g, k, r.id) THEN TuneRoute(x, g, k, bad)
    ELSE MissedRoute(x, k, bad)

-----------------------------------------------------------------------------
(* Streams and the sinks that are no longer wanted.                        *)

Claimed(m, t) == m.want.rows[ClaimOf[t]].on
Kept(m) == m.want.mixes \cup {a \in Apps : m.want.rows[a].on}

\* A claimed stream is moved into its intake; the first move notes its origin.
MoveIn(x, g, t, bad) ==
    LET a == ClaimOf[t] IN
    IF \/ x.err \/ ~Claimed(x.m, t) \/ a \notin x.m.avail
       \/ g.streams[t] \in {None, a}
       \/ bad = t \/ x.w.streams[t] = None \/ x.w.sinks[a] = {}
    THEN x
    ELSE [x EXCEPT !.w.streams[t] = a,
                   !.m.moved[t] =
                      IF @ # None THEN @
                      ELSE [from |-> IF g.streams[t] \in Outputs THEN g.streams[t] ELSE None]]

Stray(m, g, t, kept) ==
    /\ m.moved[t] = None /\ g.streams[t] \in Names
    /\ m.handles[g.streams[t]] # None /\ g.streams[t] \notin kept

\* The stream is in an intake that it has to leave.
InIntake(m, g, t, kept) ==
    /\ g.streams[t] \in Names
    /\ \/ g.streams[t] \in Apps
       \/ m.handles[g.streams[t]] # None /\ g.streams[t] \notin kept

Origin(g, moved) ==
    IF moved # None /\ moved.from \in g.outs THEN moved.from ELSE Default(g)

Forget(x, t) == [x EXCEPT !.m.moved[t] = None]
Retain(x, n) == [x EXCEPT !.m.retained = @ \cup {n}]

\* restore_streams, for one stream; `claims` are the streams to be left alone.
Restore(x, g, t, claims, kept, bad) ==
    LET at == g.streams[t]
        target == Origin(g, x.m.moved[t])
    IN
    IF t \in claims \/ (x.m.moved[t] = None /\ ~Stray(x.m, g, t, kept)) THEN x
    ELSE IF at = None \/ ~InIntake(x.m, g, t, kept) THEN Forget(x, t)
    ELSE IF \/ ~MadeByUs(x.m, SinkAt(g, at), at)
            \/ bad = t \/ x.w.streams[t] = None \/ target \notin x.w.outs
         THEN Retain(x, at)
         ELSE Forget([x EXCEPT !.w.streams[t] = target], t)

Occupied(w, n) == \E t \in Streams : w.streams[t] = n

\* cleanup_sinks, for a sink of the definition file whose mix is gone.
DestroySink(x, n, wanted, bad) ==
    LET node == SinkAt(x.w, n)
        gone == [x EXCEPT !.m.removed[n] = 0, !.m.persistent[n] = 0]
    IN
    IF x.err \/ x.m.removed[n] = 0 THEN x
    ELSE IF n \in wanted THEN [x EXCEPT !.m.removed[n] = 0]
    ELSE IF x.m.cookie # x.w.cookie THEN [x EXCEPT !.err = TRUE, !.m.lost = TRUE]
    ELSE IF x.w.sinks[n] = {} THEN gone
    ELSE IF \/ node = None \/ bad = n \/ Occupied(x.w, n)
            \/ (node # None /\ (node.id # x.m.removed[n] \/ node.by # "config"))
         THEN x
         ELSE [gone EXCEPT !.w = Removed(x.w, n, node.id)]

\* cleanup_sinks, for a sink of ours: unloaded only as the one we made, and empty.
UnloadSink(x, n, wanted, bad) ==
    LET node == SinkAt(x.w, n)
        gone == [x EXCEPT !.m.handles[n] = None]
    IN
    IF x.err \/ x.m.handles[n] = None \/ n \in wanted THEN x
    ELSE IF x.m.cookie # x.w.cookie THEN [x EXCEPT !.err = TRUE, !.m.lost = TRUE]
    ELSE IF x.w.sinks[n] = {} THEN gone
    ELSE IF \/ node = None \/ bad = n \/ Occupied(x.w, n)
            \/ (node # None /\ node.id # x.m.handles[n].id)
         THEN x
         ELSE [gone EXCEPT !.w = Removed(x.w, n, node.id)]
=============================================================================
