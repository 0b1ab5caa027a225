---------------------------- MODULE MuteHandover ----------------------------
(***************************************************************************)
(* Mute handovers between the members of a group, from the command to the  *)
(* sound: the controller thread (MuteController), one worker per unit, the *)
(* mixer thread, their channels, and the world of units and captures.      *)
(*                                                                         *)
(* Mixer::cycle is split where another thread can change what it reads: it *)
(* takes the control, samples the graph with the names of the requested    *)
(* captures, writes these one by one, and applies the routes and reports.  *)
(***************************************************************************)
EXTENDS MuteController, TLC

CONSTANTS
    Groups,    \* group names
    Plans,     \* what a behaviour starts from and is bounded by
    MaxQueue   \* bound on unread observations, per channel

Kinds == {"mute", "switch", "join", "leave", "remove", "device"}

\* The fields of a plan: the saved rows; the nodes that are plugged in; whether
\* it is calm, that is, the hardware starts as the rows have it and the user
\* waits until all of it is known; the captures numbered so far; the commands
\* the user may issue; and the bounds on commands, on mutes changed by hand, on captures that vanish, and
\* on failed operations.
ASSUME PlansAreBounded ==
    /\ MaxQueue \in Nat
    /\ \A p \in Plans :
          /\ p.nodes \subseteq Nodes /\ p.calm \in BOOLEAN /\ p.menu \subseteq Kinds
          /\ p.born = 1 /\ {p.command, p.press, p.replug, p.fault} \subseteq Nat

VARIABLES
    app,      \* the controller, the mixer's Control and the job queues
    devq,     \* device events, oldest first
    mixq,     \* graph events, oldest first
    mixer,    \* [at, rev, muted, sample, owed]
    routes,   \* rows whose applied routes are open
    hw,       \* mute of every unit
    cap,      \* PipeWire captures: node -> [id, muted]
    up,       \* units whose worker accepts jobs
    loud,     \* nodes opened by hand or plugged in, and not muted since
    plan      \* what is left of the plan

vars == <<app, devq, mixq, mixer, routes, hw, cap, up, loud, plan>>

Channels == <<devq, mixq>>
World == <<hw, cap, up, loud>>
Rows == app.rows

Spend(kind) == plan[kind] > 0 /\ plan' = [plan EXCEPT ![kind] = @ - 1]

-----------------------------------------------------------------------------

\* Controller::new: bindings are refreshed, the saved rows are routed, nothing
\* is observed yet.
Booted(rows) ==
    [rows |-> rows, rev |-> 1, routing |-> 1, known |-> FALSE, graphRev |-> 0,
     captures |-> [n \in Nodes |-> [id |-> 0, muted |-> "unknown"]],
     silent |-> [id \in Ids |-> 0],
     units |-> [u \in UnitNodes |-> "absent"], retired |-> {},
     jobs |-> {}, nextJob |-> [u \in UnitNodes |-> 1],
     intents |-> <<>>, baselines |-> <<>>, held |-> <<>>, handovers |-> <<>>,
     control |-> [rev |-> 1, muted |-> [id \in DOMAIN rows |-> rows[id].muted],
                  owners |-> [n \in Nodes |-> Owners(rows, n)], req |-> <<>>],
     queue |-> [u \in UnitNodes |-> <<>>]]

Rest == [at |-> "rest", rev |-> 0, muted |-> <<>>, sample |-> <<>>, owed |-> {}]

Init ==
    /\ plan \in Plans
    /\ app = Booted(plan.rows)
    /\ devq = <<>> /\ mixq = <<>>
    /\ mixer = Rest
    /\ routes = {}
    /\ hw \in [UnitNodes -> {"muted", "open"}]
    /\ \A u \in UnitNodes : plan.calm \/ u \notin plan.nodes =>
          hw[u] = IF AllMuted(Rows, Owners(Rows, u)) THEN "muted" ELSE "open"
    /\ cap \in [Nodes -> [id : {0, 1}, muted : {"yes", "no"}]]
    /\ \A n \in Nodes : cap[n].id = IF n \in plan.nodes THEN 1 ELSE 0
    /\ \A n \in Nodes \ (plan.nodes \ UnitNodes) : cap[n].muted = "no"
    /\ up = UnitNodes \cap plan.nodes
    /\ loud = {}

-----------------------------------------------------------------------------
(* Commands.                                                               *)

\* Every command ends in advance_handovers.
Handle(s) == app' = AdvanceHandovers(s, up)

Command(kind) ==
    /\ kind \in plan.menu
    /\ plan.calm => /\ app.known
                    /\ \A u \in UnitNodes \cap plan.nodes : app.units[u] # "absent"
    /\ Spend("command")
    /\ UNCHANGED <<Channels, mixer, routes, World>>

\* Commits rows that the user changed, and mirrors them onto the hardware.
ByUser(rows) ==
    SyncMutes(CommitSources(app, rows), Rows, NoUnits, NoCapture, up)

SetMute(id, muted) ==
    /\ Command("mute")
    /\ id \in DOMAIN Rows
    /\ Handle(SetSourceMute(app, id, muted, NoUnits, NoCapture, up))

Switch(g) ==
    /\ Command("switch")
    /\ g # NoGroup /\ Switchable(Rows, g)
    /\ Handle(ByUser(SetMuted(Rows, SwitchTarget(Rows, Above, g), FALSE)))

\* JoinGroup: the group of the target, or one named after it, which may be the
\* name of any group.
Join(source, target, g) ==
    /\ Command("join")
    /\ {source, target} \subseteq DOMAIN Rows /\ source # target
    /\ g # NoGroup /\ Rows[target].group \in {g, NoGroup}
    /\ LET rows == [Rows EXCEPT ![source].group = g, ![target].group = g]
       IN  Handle(ByUser(SetMuted(rows, target, FALSE)))

Leave(id) ==
    /\ Command("leave")
    /\ id \in DOMAIN Rows
    /\ Handle(CommitSources(app, [Rows EXCEPT ![id].group = NoGroup]))

\* remove_source: the rows shrink, bindings are refreshed, routing is sent; the
\* handovers are left as they are.
RemoveRow(id) ==
    /\ Command("remove")
    /\ id \in DOMAIN Rows
    /\ LET rows  == Without(Rows, id)
           bound(n) == Owners(rows, n)
       IN  Handle(Route([app EXCEPT
                !.rows = rows, !.rev = @ + 1,
                !.intents = RestrictDomain(@, LAMBDA n : @[n].owners = bound(n)),
                !.baselines = RestrictDomain(@, LAMBDA i :
                    i # id /\ @[i].owners = bound(NodeOf[i]))]))

\* device_setting with a mute: every row of the unit is set in turn, the unit
\* itself is written once with what its rows came to.
DeviceMute(u, muted) ==
    /\ Command("device")
    /\ app.units[u] # "absent"
    /\ LET ids    == SelectSeq(Order, LAMBDA id : id \in MuteRows(app, u))
           rows   == FoldLeft(LAMBDA r, id : SetMuted(r, id, muted), Rows, ids)
           before == [id \in DOMAIN Rows |->
                        IF id \in MuteRows(app, u)
                        THEN [Rows[id] EXCEPT !.muted = rows[id].muted]
                        ELSE Rows[id]]
           t      == SyncMutes(CommitSources(app, rows), before, {u}, NoCapture, up)
       IN  Handle(IF ids = <<>> THEN QueueDevice(app, u, muted, up)
                  ELSE QueueDevice(t, u, AllMuted(rows, MuteRows(app, u)), up))

-----------------------------------------------------------------------------
(* Events.                                                                 *)

Finished_KeepsJob(s, e) ==
    IF e.state # "unknown" /\ s.units[e.unit] # "absent"
    THEN ObserveUnit(s, e.unit, e.state, up) ELSE s

\* DeviceFinished: nothing is done for a job that is held or not known.
Finished(s, e) ==
    LET mine == {j \in s.jobs : j.unit = e.unit /\ j.k = e.k /\ ~j.held}
        t    == [s EXCEPT !.jobs = @ \ mine]
    IN  IF mine = {} THEN s
        ELSE IF e.state # "unknown" /\ s.units[e.unit] # "absent"
             THEN ObserveUnit(t, e.unit, e.state, up)
        ELSE IF s.units[e.unit] # "absent" THEN [t EXCEPT !.units[e.unit] = "unknown"]
        ELSE t

Retired(s, u) == [s EXCEPT !.retired = @ \cup {u}, !.units[u] = "absent"]

HandleDeviceEvent ==
    /\ devq # <<>>
    /\ LET e == Head(devq) IN
       Handle(CASE e.kind = "unit"     -> ObserveUnit(app, e.unit, e.state, up)
                [] e.kind = "finished" -> Finished(app, e)
                [] e.kind = "retired"  -> Retired(app, e.unit))
    /\ devq' = Tail(devq)
    /\ UNCHANGED <<mixq, mixer, routes, World, plan>>

\* next_event takes device events first.
HandleGraph ==
    /\ devq = <<>> /\ mixq # <<>>
    /\ Handle(ObserveGraph(app, Head(mixq), up))
    /\ mixq' = Tail(mixq)
    /\ UNCHANGED <<devq, mixer, routes, World, plan>>

-----------------------------------------------------------------------------
(* Unit workers.                                                           *)

Event(u, k, state) == [kind |-> "finished", unit |-> u, k |-> k, state |-> state]

Apply(u) ==
    /\ u \in up /\ app.queue[u] # <<>>
    /\ LET job == Head(app.queue[u])
           set == IF job.muted THEN "muted" ELSE "open"
       IN  /\ hw' = [hw EXCEPT ![u] = set]
           /\ devq' = Append(devq, Event(u, job.k, set))
    /\ app' = [app EXCEPT !.queue[u] = Tail(@)]
    /\ loud' = IF Head(app.queue[u]).muted THEN loud \ {u} ELSE loud
    /\ UNCHANGED <<mixq, mixer, routes, cap, up, plan>>

Poll(u) ==
    /\ u \in up /\ Len(devq) < MaxQueue
    /\ devq' = Append(devq, [kind |-> "unit", unit |-> u, k |-> 0, state |-> hw[u]])
    /\ UNCHANGED <<app, mixq, mixer, routes, World, plan>>

\* A failed write, failed polls or an unplugged device: the worker answers
\* every job it was given and retires.
Retire(u) ==
    /\ u \in up /\ Spend("fault")
    /\ LET answers == [i \in DOMAIN app.queue[u] |->
                         Event(u, app.queue[u][i].k, "unknown")]
       IN  devq' = devq \o answers \o
                   <<[kind |-> "retired", unit |-> u, k |-> 0, state |-> "unknown"]>>
    /\ app' = [app EXCEPT !.queue[u] = <<>>]
    /\ up' = up \ {u}
    /\ UNCHANGED <<mixq, mixer, routes, hw, cap, loud>>

-----------------------------------------------------------------------------
(* The mixer thread.                                                       *)

Mixing(at) == mixer.at = at /\ UNCHANGED <<devq, hw, up>>

Take ==
    /\ Mixing("rest") /\ Len(mixq) < MaxQueue
    /\ mixer' = [mixer EXCEPT !.at = "taken", !.rev = app.control.rev,
                              !.muted = app.control.muted]
    /\ UNCHANGED <<app, mixq, routes, cap, loud, plan>>

Sample ==
    /\ Mixing("taken")
    /\ mixer' = [mixer EXCEPT !.at = "writing", !.sample = cap,
                              !.owed = DOMAIN app.control.req]
    /\ UNCHANGED <<app, mixq, routes, cap, loud, plan>>

NoProof == [id \in Ids |-> 0]

Observation(ok, captures, silent) ==
    [ok |-> ok, rev |-> mixer.rev, captures |-> captures, silent |-> silent]

\* The snapshot failed: the graph is unknown and nothing is touched.
SampleFails ==
    /\ Mixing("taken") /\ Spend("fault")
    /\ mixq' = Append(mixq, Observation(FALSE, cap, NoProof))
    /\ mixer' = Rest
    /\ UNCHANGED <<app, routes, cap, loud>>

\* The request is gone, or its capture is not in the sample.
Skip(n) == n \notin DOMAIN app.control.req \/ mixer.sample[n].id = 0

\* The sample shows what this request wrote to this very capture.
Shown(req, seen) ==
    req.written = seen.id /\ seen.muted = (IF req.muted THEN "yes" ELSE "no")

\* sync_capture_mutes, for one capture: a request that is shown is dropped, any
\* other is written and its sample masked; only a write that was done is noted.
WriteCapture(n) ==
    LET req   == app.control.req[n]
        seen  == mixer.sample[n]
        done  == cap[n].id = seen.id
        tried == [mixer EXCEPT !.owed = @ \ {n}, !.sample[n].muted = "unknown"]
    IN  /\ Mixing("writing") /\ n \in mixer.owed
        /\ IF Skip(n)
           THEN mixer' = [mixer EXCEPT !.owed = @ \ {n}] /\ UNCHANGED <<app, cap, loud>>
           ELSE IF Shown(req, seen)
           THEN /\ mixer' = [mixer EXCEPT !.owed = @ \ {n}]
                /\ app' = [app EXCEPT !.control.req = Without(@, n)]
                /\ UNCHANGED <<cap, loud>>
           ELSE IF done
           THEN /\ mixer' = tried
                /\ app' = [app EXCEPT !.control.req[n].written = seen.id]
                /\ cap' = [cap EXCEPT ![n].muted = IF req.muted THEN "yes" ELSE "no"]
                /\ loud' = IF req.muted /\ n \notin UnitNodes THEN loud \ {n} ELSE loud
           ELSE mixer' = tried /\ UNCHANGED <<app, cap, loud>>
        /\ UNCHANGED <<mixq, routes, plan>>

WriteFails(n) ==
    /\ Mixing("writing") /\ n \in mixer.owed /\ ~Skip(n) /\ Spend("fault")
    /\ ~Shown(app.control.req[n], mixer.sample[n])
    /\ mixer' = [mixer EXCEPT !.owed = @ \ {n}, !.sample[n].muted = "unknown"]
    /\ UNCHANGED <<app, mixq, routes, cap, loud>>

\* Rows with an input to route and nothing that mutes them.
Playing == {id \in DOMAIN mixer.muted :
              /\ ~mixer.muted[id]
              /\ IsDevice(id) => mixer.sample[NodeOf[id]].id # 0}

\* silent_sources: muted rows of a present capture with no route left open.
Proof(open) ==
    [id \in Ids |->
        IF /\ id \in DOMAIN mixer.muted /\ mixer.muted[id] /\ IsDevice(id)
           /\ id \notin open
        THEN mixer.sample[NodeOf[id]].id ELSE 0]

\* The end of a cycle: the routes are what they are now, and the sample is
\* reported, masked where a mute is still to be confirmed.
Report(open, silent) ==
    /\ routes' = open
    /\ LET asked  == {n \in DOMAIN app.control.req : mixer.sample[n].id # 0}
           masked == [n \in Nodes |->
                        IF n \in asked THEN [mixer.sample[n] EXCEPT !.muted = "unknown"]
                        ELSE mixer.sample[n]]
       IN  mixq' = Append(mixq, Observation(TRUE, masked, silent))
    /\ mixer' = Rest
    /\ UNCHANGED <<app, cap, loud>>

\* reconcile: every route that must be silent is, before any is opened.
Reconcile ==
    /\ Mixing("writing") /\ mixer.owed = {}
    /\ Report(Playing, Proof(Playing))
    /\ UNCHANGED plan

\* A route could not be silenced: nothing is opened and nothing is proved.
ReconcileFails ==
    /\ Mixing("writing") /\ mixer.owed = {} /\ Spend("fault")
    /\ \E stuck \in SUBSET (routes \ Playing) :
          Report((routes \cap Playing) \cup stuck, NoProof)

Mixer ==
    \/ Take \/ Sample \/ SampleFails \/ Reconcile \/ ReconcileFails
    \/ \E n \in Nodes : WriteCapture(n) \/ WriteFails(n)

-----------------------------------------------------------------------------
(* The world.                                                              *)

Flip(state) ==
    CASE state = "muted" -> "open" [] state = "open" -> "muted"
      [] state = "yes" -> "no" [] state = "no" -> "yes"

Hand == UNCHANGED <<app, Channels, mixer, routes, up>>

PressUnit(u) ==
    /\ Hand /\ Spend("press") /\ u \in up
    /\ hw' = [hw EXCEPT ![u] = Flip(@)]
    /\ loud' = IF hw[u] = "muted" THEN loud \cup {u} ELSE loud \ {u}
    /\ UNCHANGED cap

PressCapture(n) ==
    /\ Hand /\ Spend("press") /\ n \notin UnitNodes /\ cap[n].id # 0
    /\ cap' = [cap EXCEPT ![n].muted = Flip(@)]
    /\ loud' = IF cap[n].muted = "yes" THEN loud \cup {n} ELSE loud \ {n}
    /\ UNCHANGED hw

Vanish(n) ==
    /\ Hand /\ Spend("replug") /\ cap[n].id > 0
    /\ cap' = [cap EXCEPT ![n] = [id |-> 0, muted |-> "no"]]
    /\ UNCHANGED <<hw, loud>>

Appear(n) ==
    /\ Hand /\ n \in plan.nodes /\ cap[n].id = 0
    /\ plan' = [plan EXCEPT !.born = @ + 1]
    /\ cap' = [cap EXCEPT ![n] = [id |-> plan.born + 1, muted |-> "no"]]
    /\ loud' = loud \cup {n}
    /\ UNCHANGED hw

-----------------------------------------------------------------------------

Next ==
    \/ \E id \in Ids, muted \in BOOLEAN : SetMute(id, muted)
    \/ \E g \in Groups : Switch(g)
    \/ \E a, b \in Ids, g \in Groups : Join(a, b, g)
    \/ \E id \in Ids : Leave(id)
    \/ \E id \in Ids : RemoveRow(id)
    \/ \E u \in UnitNodes, muted \in BOOLEAN : DeviceMute(u, muted)
    \/ HandleDeviceEvent
    \/ HandleGraph
    \/ \E u \in UnitNodes : Apply(u) \/ Poll(u) \/ Retire(u) \/ PressUnit(u)
    \/ Mixer
    \/ \E n \in Nodes : PressCapture(n) \/ Vanish(n) \/ Appear(n)

Spec == Init /\ [][Next]_vars

\* What the threads' steps do to their channels: no other action does it.
ReadsDeviceEvent == devq # <<>> /\ devq' = Tail(devq)
ReadsGraph == devq = <<>> /\ mixq # <<>> /\ mixq' = Tail(mixq)
Answers(u) ==
    /\ u \in up /\ app.queue[u] # <<>>
    /\ LET job == Head(app.queue[u])
       IN  devq' = Append(devq, Event(u, job.k, IF job.muted THEN "muted" ELSE "open"))
Observes(u) ==
    /\ u \in up /\ Len(devq) < MaxQueue
    /\ devq' = Append(devq, [kind |-> "unit", unit |-> u, k |-> 0, state |-> hw[u]])

\* Threads keep running: the controller reads its channels, and reads them
\* faster than the polls of the workers fill them; the workers answer and poll;
\* the mixer cycles at its interval: it never stays at one point.
Fairness ==
    /\ WF_devq(ReadsDeviceEvent) /\ SF_mixq(ReadsGraph)
    /\ \A u \in UnitNodes : WF_devq(Answers(u)) /\ SF_devq(Observes(u))
    /\ []<>(mixer.at # "taken") /\ []<>(mixer.at # "writing")
    /\ []<>(mixer.at # "rest" \/ Len(mixq) = MaxQueue)

FairSpec == Spec /\ Fairness

-----------------------------------------------------------------------------
(* Properties.                                                             *)

InHandover(id) ==
    /\ id \in DOMAIN Rows
    /\ Rows[id].group \in DOMAIN app.handovers
    /\ ~app.handovers[Rows[id].group].invalid

\* A write that was held is held for a handover that can still end: none is
\* left behind, never sent and never cancelled.
NothingStranded ==
    /\ \A j \in app.jobs : j.held => \E o \in j.opens : InHandover(o[1])
    /\ \A n \in DOMAIN app.held : \E id \in app.held[n] : InHandover(id)

HardwareSilent(n) ==
    cap[n].id = 0 \/ cap[n].muted = "yes" \/ (n \in UnitNodes /\ hw[n] = "muted")

\* A peer of an opening row is silent: its input is, or another open row keeps
\* the input and this row's own route is closed, or someone opened it by hand.
PeerSilent(p) ==
    \/ HardwareSilent(NodeOf[p])
    \/ NodeOf[p] \in loud
    \/ /\ p \notin routes
       /\ \E o \in DOMAIN Rows' : /\ o # p /\ NodeOf[o] = NodeOf[p]
                                  /\ ~Rows'[o].muted

\* Rows whose route, unit or capture this step lets open.
LetOpen ==
    {id \in DOMAIN Rows \cap DOMAIN Rows' :
       /\ ~Rows'[id].muted /\ Rows'[id].group # NoGroup
       /\ \/ app.control.muted[id] /\ ~app.control.muted'[id]
          \/ /\ NodeOf[id] \in UnitNodes
             /\ Len(app.queue'[NodeOf[id]]) > Len(app.queue[NodeOf[id]])
             /\ ~app.queue'[NodeOf[id]][Len(app.queue'[NodeOf[id]])].muted
          \/ /\ NodeOf[id] \in DOMAIN app.control.req'
             /\ ~app.control.req'[NodeOf[id]].muted
             /\ \/ NodeOf[id] \notin DOMAIN app.control.req
                \/ app.control.req[NodeOf[id]].muted}

OpenPeers(id) ==
    {p \in InGroup(Rows', Rows'[id].group) :
       IsDevice(p) /\ NodeOf[p] # NodeOf[id]}

\* "Software-initiated handovers hold opening writes and routes until the
\* required departing inputs acknowledge silence" (docs/ARCHITECTURE.md): the
\* inputs are silent in the world, not only in what the controller last heard.
\* A row that joins the group while the handover is pending is not one of its
\* members and is not waited for: behaviours with joins are left out.
OpeningWaits ==
    [][\A id \in LetOpen, p \in Ids :
         "join" \notin plan.menu /\ p \in OpenPeers(id) => PeerSilent(p)]_vars

\* In calm, with nobody at the hardware and nothing failing, only commands
\* change rows: no late observation of an earlier write is taken for a hand.
NoFeedback == [][plan.calm /\ plan.command' = plan.command => Rows' = Rows]_vars

Aggregate(n) == AllMuted(Rows, Owners(Rows, n))

\* In calm, handovers end, and a unit comes to agree with its rows.  One that
\* lost a member to a later edit fails closed and stays, until the next command.
Settles ==
    plan.calm =>
    <>[](/\ \A g \in DOMAIN app.handovers : "remove" \in plan.menu /\ app.handovers[g].invalid
         /\ \A u \in UnitNodes \cap plan.nodes :
              Owners(Rows, u) # {} => hw[u] = (IF Aggregate(u) THEN "muted" ELSE "open"))
=============================================================================
