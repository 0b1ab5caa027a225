---------------------------- MODULE SourceGroups ----------------------------
(***************************************************************************)
(* The source rows of the matrix and their mute groups: the decisions of   *)
(* crates/openwave-core/src/routing.rs and the commands that commit them   *)
(* in controller/state/mutations.rs and controller/state/scene.rs.         *)
(*                                                                         *)
(* A row has a group (NoGroup: none) and a software mute.  Rows keep an    *)
(* order, the one of the window, which switching a group follows.  Every   *)
(* command builds a candidate and commits it as one revision; the store    *)
(* normalizes what it saves (Stored::prepare decodes what it encodes), and *)
(* the candidate becomes what was saved.  Two commands build it in a loop, *)
(* one patch after the other: recalling a scene and writing the mute of a  *)
(* unit several rows are bound to.  The loop runs on the controller        *)
(* thread, so nothing else happens while it lasts.                         *)
(* The decisions themselves are in GroupRules.                             *)
(***************************************************************************)
EXTENDS GroupRules

CONSTANTS
    Ids,         \* source identities
    Groups,      \* group names
    MaxPatches   \* longest list of mute patches of a scene

ASSUME GroupsAssumption ==
    /\ NoGroup \notin Groups
    /\ MaxPatches \in Nat

VARIABLES
    sources,     \* the committed rows: id -> [group, muted]
    order,       \* the pairs of rows of which the first is above the second
    candidate,   \* the rows being built by a loop of patches
    todo,        \* patches the loop has not applied: <<id, muted>>
    done         \* patches the loop applied

vars == <<sources, order, candidate, todo, done>>
loopVars == <<candidate, todo, done>>

Row == [group : Groups \cup {NoGroup}, muted : BOOLEAN]

Init ==
    /\ sources = <<>>
    /\ order = {}
    /\ candidate = <<>>
    /\ todo = <<>>
    /\ done = <<>>

-----------------------------------------------------------------------------
(* Commands.                                                               *)

Idle == todo = <<>> /\ done = <<>>

\* commit_sources: rows and their order are saved, and kept as they were saved.
Saved(rows, above) ==
    /\ sources' = Normalized(rows, above)
    /\ order' = above

Commit(rows) == Idle /\ Saved(rows, order) /\ UNCHANGED loopVars

\* AddSource.  A new row is the last, and open.  The dialog lets the user name
\* its group.
AddSource(id, g) ==
    /\ Idle
    /\ id \notin DOMAIN sources
    /\ Saved([i \in DOMAIN sources \cup {id} |->
                IF i = id THEN [group |-> g, muted |-> FALSE] ELSE sources[i]],
             order \cup ((DOMAIN sources) \X {id}))
    /\ UNCHANGED loopVars

EditedMute_Kept(id, g) == sources[id].muted

\* EditSource: a row that joins a group with an open member is muted.
EditedMute(id, g) ==
    \/ sources[id].muted
    \/ /\ g \notin {NoGroup, sources[id].group}
       /\ \E peer \in InGroup(sources, g) \ {id} : ~sources[peer].muted

EditSource(id, g) ==
    /\ id \in DOMAIN sources
    /\ Commit([sources EXCEPT ![id] = [group |-> g, muted |-> EditedMute(id, g)]])

RemoveSource(id) ==
    /\ Idle
    /\ id \in DOMAIN sources
    /\ Saved([i \in DOMAIN sources \ {id} |-> sources[i]],
             {p \in order : id \notin {p[1], p[2]}})
    /\ UNCHANGED loopVars

\* The named rows first, the others after them as they were.
Reordered(first) ==
    LET named(id) == \E k \in DOMAIN first : first[k] = id
    IN  {p \in (DOMAIN sources) \X (DOMAIN sources) :
            \/ \E j, k \in DOMAIN first : j < k /\ first[j] = p[1] /\ first[k] = p[2]
            \/ named(p[1]) /\ ~named(p[2])
            \/ ~named(p[1]) /\ ~named(p[2]) /\ p \in order}

OrderSources(first) == Idle /\ Saved(sources, Reordered(first)) /\ UNCHANGED loopVars

\* SetSourceMute, ToggleSourceMute and the mutes that come from a unit or a
\* capture.
SetSourceMute(id, muted) ==
    /\ id \in DOMAIN sources
    /\ Commit(SetMuted(sources, id, muted))

\* JoinGroup: the target is opened.  Its own group wins; a target without one
\* gives its name to the new group, and that name may already be a group's.
JoinGroup(id, target, g) ==
    /\ {id, target} \subseteq DOMAIN sources
    /\ id # target
    /\ g # NoGroup
    /\ sources[target].group \in {NoGroup, g}
    /\ Commit(SetMuted([sources EXCEPT ![id].group = g, ![target].group = g],
                       target, FALSE))

LeaveGroup(id) ==
    /\ id \in DOMAIN sources
    /\ Commit([sources EXCEPT ![id].group = NoGroup])

SwitchGroup(g) ==
    /\ g # NoGroup
    /\ Switchable(sources, g)
    /\ Commit(SetMuted(sources, SwitchTarget(sources, order, g), FALSE))

\* apply_scene, and device_setting on the rows of a unit: the loop starts.
BeginPatches(patches) ==
    /\ Idle
    /\ patches # <<>>
    /\ todo' = patches
    /\ candidate' = sources
    /\ UNCHANGED <<sources, order, done>>

\* A patch of a row that no longer exists is skipped.
Patched(rows, patch) ==
    IF patch[1] \in DOMAIN rows THEN SetMuted(rows, patch[1], patch[2]) ELSE rows

ApplyPatch ==
    /\ todo # <<>>
    /\ candidate' = Patched(candidate, Head(todo))
    /\ todo' = Tail(todo)
    /\ done' = Append(done, Head(todo))
    /\ UNCHANGED <<sources, order>>

CommitPatches ==
    /\ todo = <<>>
    /\ done # <<>>
    /\ Saved(candidate, order)
    /\ candidate' = <<>>
    /\ done' = <<>>
    /\ UNCHANGED todo

\* The rows cannot be saved, or the program dies in the loop: nothing changed.
AbandonPatches ==
    /\ ~Idle
    /\ todo' = <<>>
    /\ candidate' = <<>>
    /\ done' = <<>>
    /\ UNCHANGED <<sources, order>>

Patches == UNION {[1 .. n -> Ids \X BOOLEAN] : n \in 1 .. MaxPatches}

Orders == {ids \in [1 .. 2 -> Ids] : ids[1] # ids[2]}

\* The commands that save the rows at once, and whose rows all stay.
Edits ==
    \/ \E id \in Ids, g \in Groups \cup {NoGroup} : AddSource(id, g) \/ EditSource(id, g)
    \/ \E id \in Ids : LeaveGroup(id)
    \/ \E ids \in Orders : OrderSources(ids)
    \/ \E id \in Ids, muted \in BOOLEAN : SetSourceMute(id, muted)
    \/ \E id, target \in Ids, g \in Groups : JoinGroup(id, target, g)
    \/ \E g \in Groups : SwitchGroup(g)

Next ==
    \/ Edits
    \/ \E id \in Ids : RemoveSource(id)
    \/ \E patches \in Patches : BeginPatches(patches)
    \/ ApplyPatch
    \/ CommitPatches
    \/ AbandonPatches

Spec == Init /\ [][Next]_vars

-----------------------------------------------------------------------------
(* Properties.                                                             *)

\* "The invariant is at most one open source" (docs/ARCHITECTURE.md, Groups):
\* through edits, joins, name collisions, switches and scenes, and also for a
\* source that is added straight into a group.
AtMostOneOpen == Exclusive(sources)

\* Switching a group again and again opens each of its members before any of them
\* a second time, whatever reorderings and removals went before: switch_group
\* goes round in one cycle, as no fewer members are left only to come back to.
SwitchVisitsAll ==
    \A g \in Groups : Switchable(sources, g) =>
        LET opened(id)    == SetMuted(sources, id, FALSE)
            Successor(id) == SwitchTarget(opened(id), order, g)
        IN  \A turn \in SUBSET InGroup(sources, g) :
                turn # {} /\ (\A id \in turn : Successor(id) \in turn)
                    => turn = InGroup(sources, g)

\* What a list of patches should do, told at once: the last word on a row is
\* its own last patch or a later opening of a peer.
Concerns(rows, patch, id) ==
    \/ patch[1] = id
    \/ /\ patch[1] \in DOMAIN rows \ {id}
       /\ ~patch[2]
       /\ rows[id].group # NoGroup
       /\ rows[patch[1]].group = rows[id].group

RecalledMute(rows, patches, id) ==
    LET said == {k \in DOMAIN patches : Concerns(rows, patches[k], id)}
    IN  \/ said = {} /\ rows[id].muted
        \/ \E k \in said : /\ \A j \in said : j <= k
                           /\ patches[k][1] # id \/ patches[k][2]

\* Saving keeps the first open row of a group, the commands mean another: it
\* must never overrule them.  The row a command opens is open once it is saved;
\* a row that joins a group silences nobody; of the patches of a scene "a later
\* recalled open group member wins" (docs/ARCHITECTURE.md, Scenes).
Decided ==
    /\ \A id \in Ids : SetSourceMute(id, FALSE) => ~sources'[id].muted
    /\ \A id, target \in Ids, g \in Groups :
          JoinGroup(id, target, g) => ~sources'[target].muted
    /\ \A id \in Ids, g \in Groups \cup {NoGroup} :
          AddSource(id, g) \/ EditSource(id, g) =>
             \A peer \in DOMAIN sources \ {id} : sources'[peer] = sources[peer]
    /\ CommitPatches =>
          \A id \in DOMAIN candidate :
             sources'[id] = [group |-> sources[id].group,
                             muted |-> RecalledMute(sources, done, id)]

AsDecided == [][Decided]_vars
=============================================================================
