--------------------------- MODULE MuteController ---------------------------
(***************************************************************************)
(* What the controller thread does about mutes: controller/state/mutes.rs  *)
(* and the parts of state.rs and mutations.rs that lead into it.           *)
(*                                                                         *)
(* A handler of the controller runs to its end before the next one, and    *)
(* calls its helpers in sequence.  Every helper is an operator from the    *)
(* state `s` before the call to the state after it.  The fields of s:      *)
(*   rows       committed sources: id -> [group, muted]                    *)
(*   rev        view.revision                                              *)
(*   routing    routing_revision, of the last routing sent to the mixer    *)
(*   known      graph_observation is Known                                 *)
(*   graphRev   graph_revision, 0 for None                                 *)
(*   captures   view.captures: node -> [id, muted]; id 0 is absent, muted  *)
(*              is "yes", "no" or "unknown"                                *)
(*   silent     silent_sources: id -> capture identity proved silent, 0    *)
(*   units      unit -> "absent", "unknown", "muted" or "open"             *)
(*   retired    units that retired                                         *)
(*   jobs       mute jobs: [unit, k, muted, held, opens]                   *)
(*   nextJob    number of the next job, per unit                           *)
(*   intents    capture_intents: node -> [owners, muted]                   *)
(*   baselines  capture_baselines: id -> [owners, id, muted]               *)
(*   held       held_captures: node -> owners                              *)
(*   handovers  group -> [opening, members, invalid, asked]                *)
(*   control    the mixer's Control, written under its lock                *)
(*   queue      job queue of every unit, written under its lock            *)
(* A unit is named by the capture node its serial matches: one incarnation *)
(* of one unit per node.  Rows never change their node here, and a removed *)
(* row does not come back, so the owners of a node name its binding epoch. *)
(***************************************************************************)
EXTENDS GroupRules, FiniteSetsExt, SequencesExt

CONSTANTS
    Order,       \* source identities in row order
    Nodes,       \* capture node names
    UnitNodes,   \* those whose capture belongs to a vendor unit
    NodeOf,      \* node of a capture row; NoNode for an application row
    NoNode

Ids == {Order[k] : k \in DOMAIN Order}
Above == {<<Order[p[1]], Order[p[2]]>> : p \in {q \in (DOMAIN Order) \X (DOMAIN Order) : q[1] < q[2]}}

Kept(f, S) == Restrict(f, DOMAIN f \cap S)
Without(f, x) == Restrict(f, DOMAIN f \ {x})

\* bindings: the owners of a node; no owner means no binding.
Owners(rows, n) == {id \in DOMAIN rows : NodeOf[id] = n}

IsDevice(id) == NodeOf[id] # NoNode

-----------------------------------------------------------------------------
(* Targets.                                                                *)

\* bound_unit: the unit of the exact capture this row names.
Bound(s, id) ==
    /\ NodeOf[id] \in UnitNodes
    /\ s.known
    /\ s.captures[NodeOf[id]].id # 0
    /\ s.units[NodeOf[id]] # "absent"

UnitRows(s, u) == {id \in DOMAIN s.rows : NodeOf[id] = u /\ Bound(s, id)}

AllMuted(rows, ids) == \A id \in ids : rows[id].muted

\* mute_target.
Target(s, id) ==
    IF ~s.known THEN <<"missing">>
    ELSE IF Bound(s, id) THEN <<"unit", NodeOf[id]>>
    ELSE IF ~IsDevice(id) \/ s.captures[NodeOf[id]].id = 0 THEN <<"absent">>
    ELSE <<"capture", NodeOf[id], s.captures[NodeOf[id]].id>>

Nowhere(target) == target \in {<<"absent">>, <<"missing">>}

MutePending_SentOnly(s, u) == \E j \in s.jobs : j.unit = u /\ ~j.held

\* unit_mute_pending.
MutePending(s, u) == \E j \in s.jobs : j.unit = u

BindingCurrent(s, g, m) ==
    /\ m.source \in DOMAIN s.rows
    /\ Owners(s.rows, m.node) = m.owners
    /\ s.rows[m.source].group = g

MemberCurrent(s, g, m) ==
    BindingCurrent(s, g, m) /\ Target(s, m.source) = m.target

\* mute_sources_for_unit.
MuteRows(s, u) ==
    UnitRows(s, u) \cup
    UNION {{m.source : m \in {x \in s.handovers[g].members :
                                /\ x.target = <<"unit", u>>
                                /\ BindingCurrent(s, g, x)}}
             : g \in DOMAIN s.handovers}

OpenOwner(s, m) ==
    /\ ~Nowhere(m.target)
    /\ \E id \in DOMAIN s.rows : ~s.rows[id].muted /\ Target(s, id) = m.target

\* A graph observation of the routing that was sent last.
Current(s) == s.graphRev = s.routing

MemberSilent_Shared(s, m) ==
    OpenOwner(s, m) \/ (m.target[1] = "unit" /\ s.units[m.target[2]] = "muted")

\* member_silent: what counts as acknowledged silence.
MemberSilent(s, m) ==
    LET seen == s.captures[m.node] IN
    IF OpenOwner(s, m)
    THEN Current(s) /\ seen.id # 0 /\ s.silent[m.source] = seen.id
    ELSE CASE m.target[1] = "unit" ->
                ~MutePending(s, m.target[2]) /\ s.units[m.target[2]] = "muted"
           [] m.target[1] = "capture" ->
                /\ Current(s)
                /\ m.node \notin DOMAIN s.intents
                /\ seen = [id |-> m.target[3], muted |-> "yes"]
           [] m.target[1] = "absent" -> s.known /\ Current(s) /\ seen.id = 0
           [] OTHER -> FALSE

-----------------------------------------------------------------------------
(* Dispatch.                                                               *)

\* route: the mixer's set_desired.  The opening row of a handover is routed
\* muted; capture requests of an older binding are dropped.
Route(s) ==
    LET opening == {s.handovers[g].opening : g \in DOMAIN s.handovers}
        owners  == [n \in Nodes |-> Owners(s.rows, n)]
    IN  [s EXCEPT
           !.routing = s.rev,
           !.control = [rev |-> s.rev,
                        muted |-> [id \in DOMAIN s.rows |->
                                     s.rows[id].muted \/ id \in opening],
                        owners |-> owners,
                        req |-> RestrictDomain(s.control.req,
                                  LAMBDA n : s.control.req[n].owners = owners[n])]]

\* The rows that a write to a unit opens, with their groups.
Opens(s, u, muted) ==
    {<<id, s.rows[id].group>> :
        id \in {x \in MuteRows(s, u) : ~muted /\ ~s.rows[x].muted}}

\* queue_device with one mute.  An opening whose group is handing over is held.
QueueJob(s, job, up) ==
    IF s.units[job.unit] = "absent" \/ (~job.held /\ job.unit \notin up)
    THEN s
    ELSE [s EXCEPT
            !.jobs = @ \cup {job},
            !.nextJob[job.unit] = @ + 1,
            !.queue[job.unit] = IF job.held THEN @
                                ELSE Append(@, [k |-> job.k, muted |-> job.muted])]

QueueDevice(s, u, muted, up) ==
    LET opens == Opens(s, u, muted) IN
    QueueJob(s, [unit |-> u, k |-> s.nextJob[u], muted |-> muted, opens |-> opens,
                 held |-> \E o \in opens : o[2] \in DOMAIN s.handovers], up)

\* queue_capture and the mixer's set_capture_mute.
QueueCapture(s, n, owners, muted) ==
    IF ~muted /\ \E id \in owners \cap DOMAIN s.rows :
                    s.rows[id].group \in DOMAIN s.handovers
    THEN [s EXCEPT !.held = (n :> owners) @@ @]
    ELSE IF s.captures[n].id = 0 \/ ~s.known \/ s.control.owners[n] # owners
    THEN s
    ELSE [s EXCEPT
            !.control.req = (n :> [owners |-> owners, muted |-> muted,
                                   written |-> 0]) @@ @,
            !.intents = (n :> [owners |-> owners, muted |-> muted]) @@ @]

-----------------------------------------------------------------------------
(* Committing rows.                                                        *)

StillOpening(s, g) ==
    LET id == s.handovers[g].opening IN
    id \in DOMAIN s.rows /\ ~s.rows[id].muted /\ s.rows[id].group = g

Peers(s, g) == {id \in InGroup(s.rows, g) : IsDevice(id)}

\* A row that was not open in this group before.
NewlyOpen(s, before, id) ==
    /\ ~s.rows[id].muted
    /\ s.rows[id].group # NoGroup
    /\ id \in DOMAIN before =>
          before[id].muted \/ before[id].group # s.rows[id].group

\* update_handovers: a row that is newly open in its group starts one.
UpdateHandovers(s, before) ==
    LET opening == {id \in DOMAIN s.rows : NewlyOpen(s, before, id)}
        member(id) == [source |-> id, node |-> NodeOf[id],
                       owners |-> Owners(s.rows, NodeOf[id]),
                       target |-> Target(s, id)]
        started == [g \in {s.rows[id].group : id \in opening} |->
                      [opening |-> CHOOSE id \in opening : s.rows[id].group = g,
                       members |-> {member(id) : id \in Peers(s, g)},
                       invalid |-> FALSE, asked |-> FALSE]]
    IN  [s EXCEPT !.handovers =
            started @@ RestrictDomain(@, LAMBDA g : StillOpening(s, g))]

\* The rows are exclusive as they are decided here, so that saving them leaves
\* them alone (SourceGroups, where saving normalizes).
CommitSources(s, rows) ==
    Route(UpdateHandovers([s EXCEPT !.rows = rows, !.rev = @ + 1], s.rows))

\* sync_mutes_excluding: mirror the changed rows onto units and captures,
\* except the unit or the capture the change came from.
SyncMutes(s, before, excluded, seen, up) ==
    LET changed  == {id \in DOMAIN s.rows :
                        /\ IsDevice(id)
                        /\ id \in DOMAIN before => before[id].muted # s.rows[id].muted}
        units    == {NodeOf[id] : id \in {x \in changed : Bound(s, x)}} \ excluded
        captures == {n \in {NodeOf[id] : id \in {x \in changed : ~Bound(s, x)}} :
                        seen # <<n, s.captures[n].id>>}
        write(u, t) == QueueDevice(t, u, AllMuted(t.rows, UnitRows(t, u)), up)
        mirror(n, t) == QueueCapture(t, n, Owners(t.rows, n),
                                     AllMuted(t.rows, Owners(t.rows, n)))
    IN  FoldSet(mirror, FoldSet(write, s, units), captures)

\* set_source_mute.
SetSourceMute(s, id, muted, excluded, seen, up) ==
    LET rows == SetMuted(s.rows, id, muted) IN
    IF rows = s.rows THEN s
    ELSE SyncMutes(CommitSources(s, rows), s.rows, excluded, seen, up)

NoUnits == {}
NoCapture == <<>>

-----------------------------------------------------------------------------
(* Handovers.                                                              *)

\* Peers are asked once to fall silent, whatever their own rows changed.
Waits(s, h, m) ==
    /\ m.source # h.opening
    /\ \A o \in h.members : o.source = h.opening => o.target # m.target

RequestSilence(s, up) ==
    LET owed == UNION {{m \in s.handovers[g].members :
                          /\ ~s.handovers[g].invalid
                          /\ ~s.handovers[g].asked
                          /\ Waits(s, s.handovers[g], m)
                          /\ MemberCurrent(s, g, m)
                          /\ ~MemberSilent(s, m)
                          /\ ~OpenOwner(s, m)} : g \in DOMAIN s.handovers}
        units    == {m.target[2] : m \in {x \in owed : x.target[1] = "unit"}}
        captures == {<<m.node, m.owners>> :
                       m \in {x \in owed : x.target[1] = "capture"}}
        write(u, t) == IF MutePending(s, u) THEN t ELSE QueueDevice(t, u, TRUE, up)
        mirror(c, t) == IF c[1] \in DOMAIN s.intents THEN t
                        ELSE QueueCapture(t, c[1], c[2], TRUE)
        asked == [s EXCEPT !.handovers =
                    [g \in DOMAIN @ |-> [@[g] EXCEPT !.asked = TRUE]]]
    IN  IF ~s.known THEN s ELSE FoldSet(mirror, FoldSet(write, asked, units), captures)

\* A handover whose members are no longer what they were.
Broken(s, g) == \E m \in s.handovers[g].members : ~MemberCurrent(s, g, m)

\* The peers are silent, nothing is ambiguous, the opening row has an input.
Released(s, g) ==
    \A m \in s.handovers[g].members :
        /\ Waits(s, s.handovers[g], m) => MemberSilent(s, m)
        /\ m.target # <<"missing">>
        /\ m.source = s.handovers[g].opening => m.target # <<"absent">>

InvalidGroup(s, g) == g \in DOMAIN s.handovers /\ s.handovers[g].invalid

Superseded_EditsOnly(s, j) ==
    \E o \in j.opens : \/ o[1] \notin DOMAIN s.rows
                       \/ s.rows[o[1]].muted
                       \/ s.rows[o[1]].group # o[2]

\* What a held job was to open is no longer asked for, or cannot be.
Superseded(s, j) ==
    \/ s.units[j.unit] = "absent"
    \/ \E o \in j.opens :
          \/ o[1] \notin DOMAIN s.rows
          \/ s.rows[o[1]].muted
          \/ s.rows[o[1]].group # o[2]
          \/ s.known /\ ~Bound(s, o[1])
          \/ InvalidGroup(s, o[2])

\* Settles the jobs that were held: cancelled, still held, or dispatched.
SettleJobs(s, up) ==
    LET waiting(j) == \E o \in j.opens : o[2] \in DOMAIN s.handovers
        heldJobs == {j \in s.jobs : j.held}
        gone  == {j \in heldJobs : Superseded(s, j) \/ ~waiting(j)}
        going == {j \in gone : ~Superseded(s, j) /\ j.unit \in up}
        send(j, q) == [q EXCEPT ![j.unit] = Append(@, [k |-> j.k, muted |-> j.muted])]
    IN  [s EXCEPT !.jobs = (@ \ gone) \cup {[j EXCEPT !.held = FALSE] : j \in going},
                  !.queue = FoldSet(send, @, going)]

AllOwnersMuted(s, owners) == \A id \in owners : id \in DOMAIN s.rows => s.rows[id].muted

CaptureSuperseded(s, n, owners) ==
    \/ Owners(s.rows, n) # owners
    \/ AllOwnersMuted(s, owners)
    \/ \E id \in owners \cap DOMAIN s.rows : InvalidGroup(s, s.rows[id].group)

\* Settles the capture openings that were held.
SettleCaptures(s) ==
    LET again(n, t) == IF CaptureSuperseded(s, n, s.held[n]) THEN t
                       ELSE QueueCapture(t, n, s.held[n], FALSE)
    IN  FoldSet(again, [s EXCEPT !.held = <<>>], DOMAIN s.held)

Settle(s, up) == SettleCaptures(SettleJobs(s, up))

\* Handovers whose peers are silent end, those that lost a member are invalid;
\* what was held for them is settled, and an end is routed.
EndHandovers(s, up) ==
    LET live  == {g \in DOMAIN s.handovers : ~s.handovers[g].invalid /\ s.known}
        stale == {g \in live : Broken(s, g) /\ Current(s)}
        ready == {g \in live : ~Broken(s, g) /\ Released(s, g)}
        ended == [s EXCEPT !.handovers =
                    [g \in DOMAIN @ \ ready |->
                        [@[g] EXCEPT !.invalid = @ \/ g \in stale]]]
    IN  IF ready = {} THEN Settle(ended, up)
        ELSE Route([Settle(ended, up) EXCEPT !.rev = @ + 1])

\* advance_handovers ends every handler.
AdvanceHandovers(s, up) == EndHandovers(RequestSilence(s, up), up)

-----------------------------------------------------------------------------
(* Observations.                                                           *)

\* observe_unit: rows follow hardware that disagrees with their aggregate.
ObserveUnit(s, u, state, up) ==
    LET t       == [s EXCEPT !.units[u] = state]
        targets == SelectSeq(Order, LAMBDA id : id \in UnitRows(t, u))
        desired == AllMuted(t.rows, UnitRows(t, u))
        muted   == state = "muted"
        follow(x, id) ==
            IF ~MutePending(x, u) /\ x.rows[id].muted # muted
            THEN SetSourceMute(x, id, muted, {u}, NoCapture, up) ELSE x
    IN  IF u \in s.retired THEN s
        ELSE IF state = "unknown" \/ desired = muted THEN t
        ELSE FoldLeft(follow, t, targets)

\* An edge is a change seen under one binding and one capture identity.
Follows(old, now) ==
    old.owners = now.owners /\ old.id = now.id /\ old.muted # now.muted

\* follow_capture_mutes: rows follow the edges of captures without a unit.
FollowCaptures(s, up) ==
    LET NoBaseline == [owners |-> {}, id |-> 0, muted |-> "unknown"]
        follow(x, id) ==
            LET n   == NodeOf[id]
                now == [owners |-> Owners(x.rows, n), id |-> s.captures[n].id,
                        muted |-> s.captures[n].muted]
                old == IF id \in DOMAIN x.baselines THEN x.baselines[id]
                       ELSE NoBaseline
                y   == [x EXCEPT !.baselines = (id :> now) @@ @]
            IN  IF ~IsDevice(id) \/ Bound(x, id) \/ now.id = 0 \/ now.muted = "unknown"
                THEN x
                ELSE IF Follows(old, now) /\ x.rows[id].muted # (now.muted = "yes")
                THEN SetSourceMute(y, id, now.muted = "yes", NoUnits, <<n, now.id>>, up)
                ELSE y
    IN  FoldLeft(follow, s, SelectSeq(Order, LAMBDA id : id \in DOMAIN s.rows))

\* The answer to a capture intent: an observation of the routing sent last,
\* of the same binding, that shows the value asked for.
Confirms(s, e, n) ==
    /\ e.rev = s.routing
    /\ s.intents[n].owners = Owners(s.rows, n)
    /\ e.captures[n].id # 0
    /\ e.captures[n].muted = IF s.intents[n].muted THEN "yes" ELSE "no"

\* observe, BackendEvent::Graph.
ObserveGraph(s, e, up) ==
    LET answered == {n \in DOMAIN s.intents : Confirms(s, e, n)}
        present  == {n \in DOMAIN s.intents : e.captures[n].id # 0}
        masked   == [n \in Nodes |->
                       IF n \in present \ answered
                       THEN [e.captures[n] EXCEPT !.muted = "unknown"]
                       ELSE e.captures[n]]
        t == [s EXCEPT !.known = TRUE, !.graphRev = e.rev, !.captures = masked,
                       !.silent = e.silent,
                       !.intents = Kept(@, DOMAIN @ \ answered)]
    IN  IF ~e.ok
        THEN [s EXCEPT !.known = FALSE, !.graphRev = 0,
                       !.silent = [id \in Ids |-> 0]]
        ELSE IF e.rev = s.routing THEN FollowCaptures(t, up) ELSE t
=============================================================================
