------------------------------- MODULE Stores -------------------------------
(***************************************************************************)
(* What is kept of the controller's decisions: the files of store.rs and   *)
(* the commands that write them.  Rows, mixes, sends and preferences have  *)
(* a file each.  A file is prepared beside the old one and renamed over    *)
(* it, so it is old or new; a removal and the adoption of a capture write  *)
(* several, one after the other, and any of them may fail or be the last   *)
(* before the program dies.  A file that cannot be read stays as it is.    *)
(*                                                                         *)
(* The rows themselves are those of SourceGroups, each command of which    *)
(* writes their file.  Sends stand for all that belongs to a mix (masters  *)
(* and outputs leave with it the same way); scenes are a file of their own *)
(* that no other command writes.                                           *)
(***************************************************************************)
EXTENDS SourceGroups, FiniteSets

CONSTANTS
    Mixes,         \* mix identities
    DefaultMixes,  \* the mixes of a first start
    Levels,        \* levels of a send
    Captures,      \* protected captures
    NodeOf,        \* the capture a row is bound to, if any
    Protected,     \* the identities of rows the program adds for captures
    Legacy,        \* the row whose sends older versions saved
    Plans          \* what a behaviour starts from and is bounded by

\* A plan names the rows, groups and mixes in use and the longest list of
\* patches; the files that are broken, and whether there are legacy sends; and
\* how many writes fail, how often the program dies, and captures come or go.
ASSUME StoresAssumption ==
    /\ DefaultMixes \subseteq Mixes
    /\ Protected \subseteq Ids
    /\ \A id \in Protected : NodeOf[id] \in Captures
    /\ Legacy \notin Ids
    /\ \A p \in Plans :
          /\ p.rows \subseteq Ids /\ p.groups \subseteq Groups /\ p.mixes \subseteq Mixes
          /\ {p.patches, p.faults, p.crashes, p.plugs} \subseteq Nat

VARIABLES
    plan,     \* the plan of this behaviour
    left,     \* what is left of its faults, crashes and plugs
    file,     \* whether a file is there, missing or broken
    disk,     \* what the files hold; the defaults where there is none to read
    up,       \* the controller runs
    bad,      \* the files it could not read, or seed
    kept,     \* the stores of mixes, sends and preferences (rows: sources, order)
    shown,    \* view: the desired state given to the window and the mixer
    present,  \* the captures that are connected
    job       \* what a command has still to publish

storeVars == <<plan, left, file, disk, up, bad, kept, shown, present, job>>
storesVars == <<vars, storeVars>>

Files == {"sources", "mixes", "matrix", "preferences"}

Spend(what) == left[what] > 0 /\ left' = [left EXCEPT ![what] = @ - 1]

-----------------------------------------------------------------------------
(* Stores.                                                                 *)

Writable(files) == files \cap bad = {}

\* The record with the fields of another in place of its own.
Updated(record, new) ==
    [x \in DOMAIN record |-> IF x \in DOMAIN new THEN new[x] ELSE record[x]]

\* Stored::publish, the rows apart: the file and the value in memory.
Put(name, new) ==
    /\ file' = [file EXCEPT ![name] = "there"]
    /\ disk' = Updated(disk, new)
    /\ kept' = Updated(kept, new)

\* ConfigStore::desired
Desired ==
    [rows |-> sources, order |-> order, sends |-> kept.sends, offered |-> kept.offered,
     mixes |-> IF "mixes" \in bad THEN {} ELSE kept.mixes]

Ready == up /\ job = <<>> /\ Idle

-----------------------------------------------------------------------------
(* Commands that write one file.  When the write fails nothing changes.    *)

\* A new row has an identity that was never in use.
Fresh(id) == \A key \in DOMAIN kept.sends : key[1] # id

InPlan ==
    /\ DOMAIN sources' \subseteq plan.rows
    /\ \A id \in DOMAIN sources' : sources'[id].group \in plan.groups \cup {NoGroup}
    /\ \A id \in DOMAIN sources' \ DOMAIN sources : id \notin Protected /\ Fresh(id)

SaveRows ==
    /\ up /\ job = <<>>
    /\ Writable({"sources"})
    /\ Edits \/ CommitPatches
    /\ InPlan
    /\ Put("sources", [rows |-> sources', order |-> order'])
    /\ UNCHANGED <<plan, left, up, bad, present, job>>
    /\ shown' = Desired'

BeginScene ==
    /\ Ready
    /\ \E patches \in Patches :
          /\ Len(patches) <= plan.patches
          /\ \A k \in DOMAIN patches : patches[k][1] \in plan.rows
          /\ BeginPatches(patches)
    /\ UNCHANGED storeVars

GoOn == up /\ ApplyPatch /\ UNCHANGED storeVars

\* The rows of a scene cannot be saved.
GiveUp ==
    /\ up
    /\ todo = <<>>
    /\ AbandonPatches
    /\ IF Writable({"sources"}) THEN Spend("faults") ELSE UNCHANGED left
    /\ UNCHANGED <<plan, file, disk, up, bad, kept, shown, present, job>>

\* SetCell and its kin, and the sends of a scene.
SetCell(id, mix, level) ==
    /\ Ready
    /\ Writable({"sources", "mixes", "matrix"})
    /\ id \in DOMAIN sources
    /\ mix \in kept.mixes \cap plan.mixes
    /\ Put("matrix", [sends |-> [key \in DOMAIN kept.sends \cup {<<id, mix>>} |->
                                   IF key = <<id, mix>> THEN level ELSE kept.sends[key]]])
    /\ UNCHANGED <<vars, plan, left, up, bad, present, job>>
    /\ shown' = Desired'

AddMix(mix) ==
    /\ Ready
    /\ Writable({"mixes"})
    /\ mix \in plan.mixes \ kept.mixes
    /\ \A key \in DOMAIN kept.sends : key[2] # mix
    /\ Put("mixes", [mixes |-> kept.mixes \cup {mix}])
    /\ UNCHANGED <<vars, plan, left, up, bad, present, job>>
    /\ shown' = Desired'

\* SetGainLock, SetPreferences: the saved preferences with the change.
SetPreferences ==
    /\ Ready
    /\ Writable({"preferences"})
    /\ Put("preferences", [offered |-> kept.offered])
    /\ shown' = [shown EXCEPT !.offered = kept.offered]
    /\ UNCHANGED <<vars, plan, left, up, bad, present, job>>

-----------------------------------------------------------------------------
(* Commands that write several files.  Their first write aborts them when  *)
(* it fails; of the others each is tried.                                  *)

Write(name, new) == [file |-> name, new |-> new]

Begin(writes, marks) ==
    job' = [writes |-> writes, marks |-> marks, saved |-> FALSE, failed |-> FALSE]

Sends(keys) == [sends |-> [key \in keys |-> kept.sends[key]]]

\* remove_source forgets that the capture was offered with its last row.
Forgets(id) ==
    /\ NodeOf[id] \in shown.offered
    /\ \A other \in DOMAIN sources \ {id} : NodeOf[other] # NodeOf[id]

RowsWithout(id) ==
    LET above == {p \in order : id \notin {p[1], p[2]}}
    IN  Write("sources",
              [rows |-> Normalized([i \in DOMAIN sources \ {id} |-> sources[i]], above),
               order |-> above])

SendsWithout(id) == Write("matrix", Sends({key \in DOMAIN kept.sends : key[1] # id}))

Preferences(id) ==
    IF Forgets(id)
    THEN <<Write("preferences", [offered |-> shown.offered \ {NodeOf[id]}])>>
    ELSE <<>>

RemovalWrites_SendsFirst(id) == <<SendsWithout(id), RowsWithout(id)>> \o Preferences(id)

RemovalWrites(id) == <<RowsWithout(id), SendsWithout(id)>> \o Preferences(id)

\* Everything is prepared before anything is published.  A protected row goes
\* only when its capture is gone.
BeginRemoval(id) ==
    /\ Ready
    /\ id \in DOMAIN sources
    /\ id \in Protected => NodeOf[id] \notin present
    /\ Writable({RemovalWrites(id)[k].file : k \in DOMAIN RemovalWrites(id)})
    /\ Begin(RemovalWrites(id), {})
    /\ UNCHANGED <<vars, plan, left, file, disk, up, bad, kept, shown, present>>

BeginMixRemoval(mix) ==
    /\ Ready
    /\ Writable({"mixes", "matrix"})
    /\ mix \in kept.mixes
    /\ kept.mixes # {mix}
    /\ Begin(<<Write("mixes", [mixes |-> kept.mixes \ {mix}]),
               Write("matrix", Sends({key \in DOMAIN kept.sends : key[2] # mix}))>>, {})
    /\ UNCHANGED <<vars, plan, left, file, disk, up, bad, kept, shown, present>>

LegacyKeys == {key \in DOMAIN kept.sends : key[1] = Legacy}

\* The sends of the legacy row become those of the first capture's.
Migrated(id) ==
    LET moved == {<<id, key[2]>> : key \in {k \in LegacyKeys : k[2] \in kept.mixes}}
    IN  [sends |-> [key \in (DOMAIN kept.sends \ LegacyKeys) \cup moved |->
                      IF key \in moved THEN kept.sends[<<Legacy, key[2]>>]
                      ELSE kept.sends[key]]]

RowsWith(id) ==
    LET above == order \cup ((DOMAIN sources) \X {id})
    IN  Write("sources",
              [rows |-> Normalized([i \in DOMAIN sources \cup {id} |->
                            IF i = id THEN [group |-> NoGroup, muted |-> FALSE] ELSE sources[i]],
                            above),
               order |-> above])

\* auto_add_captures: a capture without a row that was not offered before.
Adopt(id) ==
    LET node == NodeOf[id] IN
    /\ Ready
    /\ Writable({"sources", "mixes", "matrix"})
    /\ id \in (Protected \cap plan.rows) \ DOMAIN sources
    /\ Fresh(id)
    /\ node \in present \ shown.offered
    /\ \A other \in DOMAIN sources : NodeOf[other] # node
    /\ Begin(<<RowsWith(id)>>
               \o (IF present = {node} /\ LegacyKeys # {}
                   THEN <<Write("matrix", Migrated(id))>> ELSE <<>>)
               \o (IF Writable({"preferences"})
                   THEN <<Write("preferences", [offered |-> kept.offered \cup {node}])>> ELSE <<>>),
             {node})
    /\ UNCHANGED <<vars, plan, left, file, disk, up, bad, kept, shown, present>>

Publish ==
    /\ job # <<>>
    /\ job.writes # <<>>
    /\ LET new == Head(job.writes).new IN
         /\ Put(Head(job.writes).file, new)
         /\ IF Head(job.writes).file = "sources"
            THEN sources' = new.rows /\ order' = new.order
            ELSE UNCHANGED <<sources, order>>
    /\ job' = [job EXCEPT !.writes = Tail(@), !.saved = TRUE]
    /\ UNCHANGED <<loopVars, plan, left, up, bad, shown, present>>

PublishFails ==
    /\ job # <<>>
    /\ job.writes # <<>>
    /\ Spend("faults")
    /\ job' = [job EXCEPT !.writes = IF job.saved THEN Tail(@) ELSE <<>>, !.failed = TRUE]
    /\ UNCHANGED <<vars, plan, file, disk, up, bad, kept, shown, present>>

\* The desired state is given on whenever the first write was done.
GivesOn_WhenAllSaved == job.saved /\ ~job.failed

GivesOn == job.saved

Finish ==
    /\ job # <<>>
    /\ job.writes = <<>>
    /\ job' = <<>>
    /\ shown' = IF GivesOn THEN [Desired EXCEPT !.offered = @ \cup job.marks] ELSE shown
    /\ UNCHANGED <<vars, plan, left, file, disk, up, bad, kept, present>>

-----------------------------------------------------------------------------
(* Starting and ending.                                                    *)

Broken == {name \in Files : file[name] = "broken"}

\* ConfigStore::load.  Only the mixes are seeded.
Start ==
    /\ ~up
    /\ up' = TRUE
    /\ sources' = Normalized(disk.rows, disk.order)
    /\ order' = disk.order
    /\ kept' = Updated(kept, disk)
    /\ \/ /\ file["mixes"] # "missing"
          /\ bad' = Broken
          /\ UNCHANGED <<file, left>>
       \/ /\ file["mixes"] = "missing"
          /\ file' = [file EXCEPT !["mixes"] = "there"]
          /\ bad' = Broken
          /\ UNCHANGED left
       \/ /\ file["mixes"] = "missing"
          /\ Spend("faults")
          /\ bad' = Broken \cup {"mixes"}
          /\ UNCHANGED file
    /\ UNCHANGED <<loopVars, plan, disk, present, job>>
    /\ shown' = Desired'

\* freeze saves the preferences of the view.
Stop ==
    /\ Ready
    /\ up' = FALSE
    /\ \/ /\ Writable({"preferences"})
          /\ Put("preferences", [offered |-> shown.offered])
          /\ UNCHANGED left
       \/ /\ IF Writable({"preferences"}) THEN Spend("faults") ELSE UNCHANGED left
          /\ UNCHANGED <<file, disk, kept>>
    /\ UNCHANGED <<vars, plan, bad, shown, present, job>>

Crash ==
    /\ up
    /\ Spend("crashes")
    /\ up' = FALSE
    /\ job' = <<>>
    /\ AbandonPatches \/ (Idle /\ UNCHANGED vars)
    /\ UNCHANGED <<plan, file, disk, bad, kept, shown, present>>

Plug(node) ==
    /\ Spend("plugs")
    /\ present' = IF node \in present THEN present \ {node} ELSE present \cup {node}
    /\ UNCHANGED <<vars, plan, file, disk, up, bad, kept, shown, job>>

StoresInit ==
    /\ Init
    /\ plan \in Plans
    /\ left = [what \in {"faults", "crashes", "plugs"} |-> plan[what]]
    /\ file = [name \in Files |->
                 IF name = plan.broken THEN "broken"
                 ELSE IF name = "matrix" /\ plan.legacy # <<>> THEN "there" ELSE "missing"]
    /\ disk = [rows |-> <<>>, order |-> {}, mixes |-> DefaultMixes,
               sends |-> plan.legacy, offered |-> {}]
    /\ up = FALSE
    /\ bad = {}
    /\ kept = [mixes |-> {}, sends |-> <<>>, offered |-> {}]
    /\ shown = [rows |-> <<>>, order |-> {}, mixes |-> {}, sends |-> <<>>, offered |-> {}]
    /\ present = {}
    /\ job = <<>>

StoresNext ==
    \/ SaveRows \/ BeginScene \/ GoOn \/ GiveUp
    \/ \E id \in Ids, mix \in Mixes, level \in Levels : SetCell(id, mix, level)
    \/ \E mix \in Mixes : AddMix(mix) \/ BeginMixRemoval(mix)
    \/ SetPreferences
    \/ \E id \in Ids : BeginRemoval(id) \/ Adopt(id)
    \/ Publish \/ PublishFails \/ Finish
    \/ Start \/ Stop \/ Crash
    \/ \E node \in Captures : Plug(node)

StoresSpec == StoresInit /\ [][StoresNext]_storesVars

-----------------------------------------------------------------------------
(* Properties.                                                             *)

\* Whatever failed or died before, when no command is being carried out the
\* files hold what the program works with, so that a restart changes nothing;
\* the window and the mixer have it too; and "invalid persistent data is not an
\* invitation to overwrite it with defaults" (docs/ARCHITECTURE.md): no command
\* wrote a file that could not be read.
Durable ==
    (up /\ job = <<>>) =>
       /\ disk.rows = sources /\ disk.order = order
       /\ Updated(kept, disk) = kept
       /\ Updated(Desired, [offered |-> shown.offered]) = shown
       /\ kept.offered \subseteq shown.offered
       /\ \A name \in bad : file[name] # "there"

\* The sends a restart would find for a row and a mix that stay are the ones last
\* set: no other command, and no removal that fails or dies half-way, takes them.
Send(d, id, mix) == IF <<id, mix>> \in DOMAIN d.sends THEN d.sends[<<id, mix>>] ELSE 0

SendsKept ==
    [][\A id \in DOMAIN disk.rows \cap DOMAIN disk'.rows, mix \in disk.mixes \cap disk'.mixes :
          Send(disk, id, mix) # Send(disk', id, mix) =>
             \/ \E level \in Levels : SetCell(id, mix, level)
             \/ job # <<>> /\ NodeOf[id] \in job.marks]_storesVars
=============================================================================
