---------------------------- MODULE Stores_proof ----------------------------
(***************************************************************************)
(* The rules about rows, in the first part: at most one source of a group  *)
(* is open, and saving never overrules what a command decided, for any     *)
(* number of rows and groups and scenes of any length; and switching a     *)
(* group visits each of its members, whatever order the rows have.         *)
(*                                                                         *)
(* The stores, in the second: Stores implements SourceGroups, files,       *)
(* failures and restarts change nothing of what the rows may do.  And the  *)
(* files are what the program works with, for any rows, mixes, captures,   *)
(* failures and broken files.                                              *)
(***************************************************************************)
EXTENDS Stores, FiniteSetTheorems, SequenceTheorems, TLAPS

\* Two open rows may only share the group of the row t.
ExclusiveBut(rows, t) ==
    \A a, b \in DOMAIN rows :
        a # b /\ rows[a].group = rows[b].group
              /\ rows[a].group \notin {NoGroup, rows[t].group}
            => rows[a].muted \/ rows[b].muted

\* Rows and candidates are rows, and the order speaks of rows that exist.
TypeOK ==
    /\ sources \in [DOMAIN sources -> Row]
    /\ order \subseteq {p \in (DOMAIN sources) \X (DOMAIN sources) : p[1] # p[2]}
    /\ candidate \in [DOMAIN candidate -> Row]
    /\ todo \in Seq(Ids \X BOOLEAN)
    /\ done \in Seq(Ids \X BOOLEAN)

\* The committed rows, and the candidate of a running loop at every turn of it:
\* when it is committed nothing is left to normalize.
Settled == Exclusive(sources) /\ Exclusive(candidate)

\* The candidate is what the patches applied so far say of the rows.
Recalled ==
    ~Idle => /\ DOMAIN candidate = DOMAIN sources
             /\ \A id \in DOMAIN sources :
                   candidate[id] = [group |-> sources[id].group,
                                    muted |-> RecalledMute(sources, done, id)]

IInv == TypeOK /\ Settled /\ Recalled

\* Rows stay rows when one of them changes its group.
LEMMA RegroupedType ==
    ASSUME NEW rows, rows \in [DOMAIN rows -> Row], NEW id \in DOMAIN rows,
           NEW g \in Groups \cup {NoGroup}
    PROVE  /\ [rows EXCEPT ![id].group = g] \in [DOMAIN rows -> Row]
           /\ DOMAIN [rows EXCEPT ![id].group = g] = DOMAIN rows
           /\ [rows EXCEPT ![id].group = g][id].group = g
  BY DEF Row

\* set_source_muted yields rows again.
LEMMA SetMutedType ==
    ASSUME NEW rows, rows \in [DOMAIN rows -> Row], NEW t, NEW m \in BOOLEAN
    PROVE  /\ SetMuted(rows, t, m) \in [DOMAIN rows -> Row]
           /\ DOMAIN SetMuted(rows, t, m) = DOMAIN rows
  BY DEF SetMuted, Row

\* Opening a row settles its own group, whatever was open in it before.
LEMMA OpeningSettles ==
    ASSUME NEW rows, rows \in [DOMAIN rows -> Row], NEW t \in DOMAIN rows,
           ExclusiveBut(rows, t)
    PROVE  Exclusive(SetMuted(rows, t, FALSE))
  BY DEF SetMuted, Row, Exclusive, ExclusiveBut

\* set_source_muted keeps every group exclusive.
LEMMA SetMutedExclusive ==
    ASSUME NEW rows, rows \in [DOMAIN rows -> Row], Exclusive(rows),
           NEW t, NEW m \in BOOLEAN
    PROVE  Exclusive(SetMuted(rows, t, m))
<1>1. CASE m
  BY <1>1 DEF SetMuted, Row, Exclusive
<1>2. CASE ~m /\ t \in DOMAIN rows
  <2>1. ExclusiveBut(rows, t)
    BY DEF Exclusive, ExclusiveBut
  <2>2. m = FALSE
    BY <1>2
  <2> QED
    BY <1>2, <2>1, <2>2, OpeningSettles
<1>3. CASE ~m /\ t \notin DOMAIN rows
  BY <1>3 DEF SetMuted, Row, Exclusive
<1> QED
  BY <1>1, <1>2, <1>3

\* Nothing is left to normalize in rows that are exclusive.
Irreflexive(above) == \A a : <<a, a>> \notin above

LEMMA NothingToNormalize ==
    ASSUME NEW rows, rows \in [DOMAIN rows -> Row], Exclusive(rows),
           NEW above, Irreflexive(above)
    PROVE  Normalized(rows, above) = rows
<1>1. ASSUME NEW id \in DOMAIN rows, rows[id].group # NoGroup, Outranked(rows, above, id)
      PROVE  [rows[id] EXCEPT !.muted = TRUE] = rows[id]
  <2>1. PICK peer \in DOMAIN rows : /\ rows[peer].group = rows[id].group
                                    /\ <<peer, id>> \in above /\ ~rows[peer].muted
    BY <1>1 DEF Outranked, InGroup
  <2>2. peer # id
    BY <2>1 DEF Irreflexive
  <2>3. rows[id].muted
    BY <1>1, <2>1, <2>2 DEF Exclusive
  <2>4. rows[id] \in Row
    OBVIOUS
  <2>5. rows[id].muted = TRUE
    BY <2>3, <2>4 DEF Row
  <2> QED
    BY <2>4, <2>5 DEF Row
<1> QED
  BY <1>1 DEF Normalized

\* Normalizing yields rows again.
LEMMA NormalizedType ==
    ASSUME NEW rows, rows \in [DOMAIN rows -> Row], NEW above
    PROVE  /\ Normalized(rows, above) \in [DOMAIN rows -> Row]
           /\ DOMAIN Normalized(rows, above) = DOMAIN rows
  BY DEF Normalized, Row

\* The rows with one more, and their order.
With(rows, id, g) ==
    [i \in DOMAIN rows \cup {id} |->
        IF i = id THEN [group |-> g, muted |-> FALSE] ELSE rows[i]]
Below(above, rows, id) == above \cup ((DOMAIN rows) \X {id})

OrderOf(rows) == {p \in (DOMAIN rows) \X (DOMAIN rows) : p[1] # p[2]}
Untouched(rows, saved) == \A i \in DOMAIN rows : saved[i] = rows[i]

\* A newcomer below the other rows silences none of them, and is silenced by an
\* open one of its group.
LEMMA Newcomer ==
    ASSUME NEW rows, rows \in [DOMAIN rows -> Row], Exclusive(rows),
           NEW above, above \subseteq OrderOf(rows),
           NEW id, id \notin DOMAIN rows, NEW g \in Groups \cup {NoGroup},
           NEW more, more = With(rows, id, g), NEW below, below = Below(above, rows, id)
    PROVE  /\ more \in [DOMAIN more -> Row]
           /\ below \subseteq OrderOf(more)
           /\ Untouched(rows, Normalized(more, below))
           /\ Exclusive(Normalized(more, below))
<1> USE DEF With, Below, OrderOf
<1> DEFINE saved == Normalized(more, below)
<1>1. more \in [DOMAIN more -> Row] /\ DOMAIN more = DOMAIN rows \cup {id}
  BY DEF Row
<1>2. below \subseteq {p \in (DOMAIN more) \X (DOMAIN more) : p[1] # p[2]}
  BY <1>1
<1>3. ASSUME NEW i \in DOMAIN rows
      PROVE  saved[i] = rows[i]
  <2>1. CASE rows[i].group # NoGroup /\ Outranked(more, below, i)
    <3>1. PICK peer \in DOMAIN more : /\ more[peer].group = more[i].group
                                      /\ <<peer, i>> \in below /\ ~more[peer].muted
      BY <2>1 DEF Outranked, InGroup
    <3>2. peer \in DOMAIN rows /\ peer # i
      BY <3>1
    <3>3. more[peer] = rows[peer] /\ more[i] = rows[i]
      BY <3>2
    <3>4. rows[i].muted
      BY <2>1, <3>1, <3>2, <3>3 DEF Exclusive
    <3>5. rows[i] \in Row
      OBVIOUS
    <3>6. [rows[i] EXCEPT !.muted = TRUE] = rows[i]
      BY <3>4, <3>5 DEF Row
    <3> QED
      BY <2>1, <3>3, <3>6 DEF Normalized
  <2>2. CASE ~(rows[i].group # NoGroup /\ Outranked(more, below, i))
    <3>1. more[i] = rows[i] /\ i \in DOMAIN more
      OBVIOUS
    <3> QED
      BY <2>2, <3>1 DEF Normalized
  <2> QED
    BY <2>1, <2>2
<1>4. ASSUME NEW i \in DOMAIN rows, rows[i].group = g, g # NoGroup, ~rows[i].muted
      PROVE  saved[id].muted
  <2>1. /\ more[id] = [group |-> g, muted |-> FALSE] /\ more[i] = rows[i]
        /\ {i, id} \subseteq DOMAIN more
    OBVIOUS
  <2>2. Outranked(more, below, id)
    BY <1>4, <2>1 DEF Outranked, InGroup
  <2> QED
    BY <1>4, <2>1, <2>2 DEF Normalized
<1>5. saved[id].group = g /\ DOMAIN saved = DOMAIN rows \cup {id}
  <2>1. more[id] = [group |-> g, muted |-> FALSE] /\ id \in DOMAIN more
    OBVIOUS
  <2> QED
    BY <1>1, <2>1 DEF Normalized
<1> HIDE DEF saved
<1>6. Exclusive(saved)
  <2> SUFFICES ASSUME NEW a \in DOMAIN saved, NEW b \in DOMAIN saved, a # b,
                      saved[a].group = saved[b].group, saved[a].group # NoGroup
               PROVE  saved[a].muted \/ saved[b].muted
    BY DEF Exclusive
  <2>1. CASE a \in DOMAIN rows /\ b \in DOMAIN rows
    BY <1>3, <2>1 DEF Exclusive
  <2>2. CASE a = id
    BY <1>3, <1>4, <1>5, <2>2
  <2>3. CASE b = id
    BY <1>3, <1>4, <1>5, <2>3
  <2> QED
    BY <1>5, <2>1, <2>2, <2>3
<1> QED
  BY <1>1, <1>2, <1>3, <1>6 DEF saved, Untouched

\* A commit of exclusive rows saves them as they are.
LEMMA SavedAsGiven ==
    ASSUME TypeOK, NEW rows, rows \in [DOMAIN rows -> Row], Exclusive(rows),
           NEW above, above \subseteq {p \in (DOMAIN rows) \X (DOMAIN rows) : p[1] # p[2]},
           Saved(rows, above)
    PROVE  sources' = rows /\ order' = above
<1>1. Irreflexive(above)
  BY DEF Irreflexive
<1> QED
  BY <1>1, NothingToNormalize DEF Saved

\* One patch more: it has the last word on the rows it concerns.
LEMMA OneMorePatch ==
    ASSUME NEW rows, NEW patches \in Seq(Ids \X BOOLEAN), NEW p \in Ids \X BOOLEAN,
           NEW id \in DOMAIN rows
    PROVE  RecalledMute(rows, Append(patches, p), id)
             <=> IF Concerns(rows, p, id) THEN p[1] # id \/ p[2]
                 ELSE RecalledMute(rows, patches, id)
<1> DEFINE more == Append(patches, p)
           n == Len(patches) + 1
           said == {k \in DOMAIN patches : Concerns(rows, patches[k], id)}
           after == {k \in DOMAIN more : Concerns(rows, more[k], id)}
<1>1. /\ DOMAIN more = DOMAIN patches \cup {n} /\ more[n] = p
      /\ \A k \in DOMAIN patches : more[k] = patches[k] /\ k < n /\ k \in Nat
      /\ n \in Nat
  OBVIOUS
<1>2. after = IF Concerns(rows, p, id) THEN said \cup {n} ELSE said
  BY <1>1
<1>3. RecalledMute(rows, more, id) <=>
        \/ after = {} /\ rows[id].muted
        \/ \E k \in after : /\ \A j \in after : j <= k
                            /\ more[k][1] # id \/ more[k][2]
  BY DEF RecalledMute
<1>4. RecalledMute(rows, patches, id) <=>
        \/ said = {} /\ rows[id].muted
        \/ \E k \in said : /\ \A j \in said : j <= k
                           /\ patches[k][1] # id \/ patches[k][2]
  BY DEF RecalledMute
<1>5. \A k \in said : k \in DOMAIN patches
  OBVIOUS
<1> HIDE DEF more, n, said, after
<1>6. CASE Concerns(rows, p, id)
  <2>1. after = said \cup {n}
    BY <1>2, <1>6
  <2>2. \A k \in after : k \in Nat /\ k <= n
    BY <1>1, <1>5, <2>1
  <2>3. \A k \in after : (\A j \in after : j <= k) <=> k = n
    BY <1>1, <2>1, <2>2
  <2> QED
    BY <1>1, <1>3, <1>6, <2>1, <2>3 DEF more
<1>7. CASE ~Concerns(rows, p, id)
  <2>1. after = said
    BY <1>2, <1>7
  <2>2. \A k \in said : more[k] = patches[k]
    BY <1>1, <1>5
  <2> QED
    BY <1>3, <1>4, <1>7, <2>1, <2>2 DEF more
<1> QED
  BY <1>6, <1>7

LEMMA RowsBegin == Init => IInv
  BY DEF Init, IInv, TypeOK, Settled, Recalled, Exclusive, Idle

\* Every command keeps the groups exclusive, and a loop its candidate as told.
LEMMA RowsStep ==
    ASSUME IInv, [Next]_vars
    PROVE  IInv'
<1> USE GroupsAssumption DEF IInv, TypeOK, Settled
<1>c. ASSUME NEW rows, rows \in [DOMAIN rows -> Row], Exclusive(rows),
             NEW above, above \subseteq {p \in (DOMAIN rows) \X (DOMAIN rows) : p[1] # p[2]},
             Saved(rows, above), UNCHANGED loopVars, Idle
      PROVE  IInv'
  <2>1. sources' = rows /\ order' = above
    BY <1>c, SavedAsGiven
  <2>2. candidate' = candidate /\ todo' = todo /\ done' = done
    BY <1>c DEF loopVars
  <2>3. Settled' /\ TypeOK'
    BY <1>c, <2>1, <2>2 DEF Exclusive
  <2>4. Idle'
    BY <1>c, <2>2 DEF Idle
  <2> QED
    BY <2>3, <2>4 DEF Recalled
<1>1. ASSUME NEW id \in Ids, NEW g \in Groups \cup {NoGroup}, AddSource(id, g)
      PROVE  IInv'
  <2> DEFINE more == With(sources, id, g)
             below == Below(order, sources, id)
  <2>1. id \notin DOMAIN sources /\ Saved(more, below) /\ UNCHANGED loopVars /\ Idle
    BY <1>1 DEF AddSource, With, Below
  <2>a. more = With(sources, id, g) /\ below = Below(order, sources, id)
    OBVIOUS
  <2>b. /\ sources \in [DOMAIN sources -> Row] /\ Exclusive(sources)
        /\ order \subseteq OrderOf(sources)
    BY DEF OrderOf
  <2> HIDE DEF more, below
  <2>2. /\ more \in [DOMAIN more -> Row]
        /\ below \subseteq OrderOf(more)
        /\ Exclusive(Normalized(more, below))
    BY ONLY <1>1, <2>1, <2>a, <2>b, Newcomer
  <2>3. sources' = Normalized(more, below) /\ order' = below
    BY <2>1 DEF Saved
  <2>4. sources' \in [DOMAIN sources' -> Row] /\ DOMAIN sources' = DOMAIN more
    BY <2>2, <2>3, NormalizedType
  <2>5. candidate' = candidate /\ todo' = todo /\ done' = done
    BY <2>1 DEF loopVars
  <2>6. Settled' /\ TypeOK'
    BY <2>2, <2>3, <2>4, <2>5 DEF Exclusive, OrderOf
  <2>7. Idle'
    BY <2>1, <2>5 DEF Idle
  <2> QED
    BY <2>6, <2>7 DEF Recalled
<1>2. ASSUME NEW id \in Ids, NEW g \in Groups \cup {NoGroup}, EditSource(id, g)
      PROVE  IInv'
  <2> DEFINE rows == [sources EXCEPT ![id] = [group |-> g, muted |-> EditedMute(id, g)]]
  <2>1. id \in DOMAIN sources /\ Saved(rows, order) /\ UNCHANGED loopVars /\ Idle
    BY <1>2 DEF EditSource, Commit
  <2>2. EditedMute(id, g) \in BOOLEAN
    BY <2>1 DEF EditedMute, Row
  <2>3. rows \in [DOMAIN rows -> Row] /\ DOMAIN rows = DOMAIN sources
    BY <2>1, <2>2 DEF Row
  <2>4. Exclusive(rows)
    BY <2>1, <2>2 DEF Exclusive, EditedMute, InGroup, Row
  <2> HIDE DEF rows
  <2> QED
    BY <1>c, <2>1, <2>3, <2>4
<1>3. ASSUME NEW id \in Ids, RemoveSource(id)
      PROVE  IInv'
  <2> DEFINE rows == [i \in DOMAIN sources \ {id} |-> sources[i]]
             above == {p \in order : id \notin {p[1], p[2]}}
  <2>1. Saved(rows, above) /\ UNCHANGED loopVars /\ Idle
    BY <1>3 DEF RemoveSource
  <2>2. /\ rows \in [DOMAIN rows -> Row] /\ Exclusive(rows)
        /\ above \subseteq {p \in (DOMAIN rows) \X (DOMAIN rows) : p[1] # p[2]}
    BY DEF Exclusive
  <2> HIDE DEF rows, above
  <2> QED
    BY <1>c, <2>1, <2>2
<1>4. ASSUME NEW id \in Ids, LeaveGroup(id)
      PROVE  IInv'
  <2> DEFINE rows == [sources EXCEPT ![id].group = NoGroup]
  <2>1. Saved(rows, order) /\ UNCHANGED loopVars /\ Idle /\ id \in DOMAIN sources
    BY <1>4 DEF LeaveGroup, Commit
  <2>2. rows \in [DOMAIN rows -> Row] /\ DOMAIN rows = DOMAIN sources
    BY <2>1 DEF Row
  <2>3. Exclusive(rows)
    BY <2>1 DEF Exclusive, Row
  <2> HIDE DEF rows
  <2> QED
    BY <1>c, <2>1, <2>2, <2>3
<1>5. ASSUME NEW ids \in Orders, OrderSources(ids)
      PROVE  IInv'
  <2>1. Saved(sources, Reordered(ids)) /\ UNCHANGED loopVars /\ Idle
    BY <1>5 DEF OrderSources
  <2>2. Reordered(ids) \subseteq {p \in (DOMAIN sources) \X (DOMAIN sources) : p[1] # p[2]}
    BY DEF Reordered, Orders
  <2> QED
    BY <1>c, <2>1, <2>2
<1>6. ASSUME NEW id \in Ids, NEW muted \in BOOLEAN, SetSourceMute(id, muted)
      PROVE  IInv'
  <2>1. Saved(SetMuted(sources, id, muted), order) /\ UNCHANGED loopVars /\ Idle
    BY <1>6 DEF SetSourceMute, Commit
  <2> QED
    BY <1>c, <2>1, SetMutedType, SetMutedExclusive
<1>7. ASSUME NEW id \in Ids, NEW target \in Ids, NEW g \in Groups,
             JoinGroup(id, target, g)
      PROVE  IInv'
  <2> DEFINE joined == [sources EXCEPT ![id].group = g, ![target].group = g]
  <2>1. /\ {id, target} \subseteq DOMAIN sources
        /\ Saved(SetMuted(joined, target, FALSE), order)
        /\ UNCHANGED loopVars /\ Idle
    BY <1>7 DEF JoinGroup, Commit
  <2> DEFINE moved == [sources EXCEPT ![id].group = g]
  <2>m. moved \in [DOMAIN moved -> Row] /\ DOMAIN moved = DOMAIN sources
    BY <2>1, RegroupedType
  <2>n. joined = [moved EXCEPT ![target].group = g]
    OBVIOUS
  <2> HIDE DEF moved
  <2>2. joined \in [DOMAIN joined -> Row] /\ DOMAIN joined = DOMAIN sources
    BY ONLY <1>7, <2>1, <2>m, <2>n, RegroupedType
  <2>3. joined[target].group = g
    BY ONLY <1>7, <2>1, <2>m, <2>n, RegroupedType
  <2>4. ExclusiveBut(joined, target)
    BY <2>1, <2>3 DEF ExclusiveBut, Exclusive, Row
  <2>5. target \in DOMAIN joined
    BY <2>1, <2>2
  <2> HIDE DEF joined
  <2> QED
    BY <1>c, <2>1, <2>2, <2>4, <2>5, SetMutedType, OpeningSettles
<1>8. ASSUME NEW g \in Groups, SwitchGroup(g)
      PROVE  IInv'
  <2>1. /\ Saved(SetMuted(sources, SwitchTarget(sources, order, g), FALSE), order)
        /\ UNCHANGED loopVars /\ Idle
    BY <1>8 DEF SwitchGroup, Commit
  <2> QED
    BY <1>c, <2>1, SetMutedType, SetMutedExclusive
<1>9. ASSUME NEW patches \in Patches, BeginPatches(patches)
      PROVE  IInv'
  <2>1. PICK n \in 1 .. MaxPatches : patches \in [1 .. n -> Ids \X BOOLEAN]
    BY DEF Patches
  <2>2. patches \in Seq(Ids \X BOOLEAN)
    BY <2>1
  <2>3. /\ candidate' = sources /\ todo' = patches /\ done' = <<>>
        /\ UNCHANGED <<sources, order>>
    BY <1>9 DEF BeginPatches, Idle
  <2>4. ASSUME NEW id \in DOMAIN sources
        PROVE  sources[id] = [group |-> sources[id].group,
                              muted |-> RecalledMute(sources, <<>>, id)]
    <3>1. RecalledMute(sources, <<>>, id) <=> sources[id].muted
      BY DEF RecalledMute
    <3>2. RecalledMute(sources, <<>>, id) = sources[id].muted
      BY <3>1, <2>4 DEF Row, RecalledMute
    <3> QED
      BY <3>2 DEF Row
  <2>5. Recalled'
    BY <2>3, <2>4 DEF Recalled
  <2> QED
    BY <2>2, <2>3, <2>5 DEF Exclusive
<1>10. ASSUME ApplyPatch
       PROVE  IInv'
  <2> DEFINE p == Head(todo)
  <2>1. /\ candidate' = Patched(candidate, p)
        /\ todo' \in Seq(Ids \X BOOLEAN)
        /\ done' = Append(done, p)
        /\ UNCHANGED <<sources, order>>
        /\ p \in Ids \X BOOLEAN
        /\ done' \in Seq(Ids \X BOOLEAN)
        /\ ~Idle
    BY <1>10 DEF ApplyPatch, Idle
  <2> HIDE DEF p
  <2>2. /\ candidate' \in [DOMAIN candidate' -> Row]
        /\ DOMAIN candidate' = DOMAIN candidate
        /\ Exclusive(candidate)'
    <3>1. CASE p[1] \notin DOMAIN candidate
      BY <2>1, <3>1 DEF Patched, Exclusive
    <3>2. CASE p[1] \in DOMAIN candidate
      <4>1. candidate' = SetMuted(candidate, p[1], p[2])
        BY <2>1, <3>2 DEF Patched
      <4>2. p[2] \in BOOLEAN
        BY <2>1
      <4>3. Exclusive(SetMuted(candidate, p[1], p[2]))
        BY <4>2, SetMutedExclusive
      <4>4. /\ SetMuted(candidate, p[1], p[2]) \in [DOMAIN candidate -> Row]
            /\ DOMAIN SetMuted(candidate, p[1], p[2]) = DOMAIN candidate
        BY <4>2, SetMutedType
      <4> QED
        BY <4>1, <4>3, <4>4 DEF Exclusive
    <3> QED
      BY <3>1, <3>2
  <2>3. /\ DOMAIN candidate = DOMAIN sources
        /\ \A id \in DOMAIN sources :
              candidate[id] = [group |-> sources[id].group,
                               muted |-> RecalledMute(sources, done, id)]
    BY <2>1 DEF Recalled
  <2>4. ASSUME NEW id \in DOMAIN sources
        PROVE  candidate'[id] = [group |-> sources[id].group,
                                 muted |-> RecalledMute(sources, done', id)]
    <3>1. RecalledMute(sources, done', id)
            <=> IF Concerns(sources, p, id) THEN p[1] # id \/ p[2]
                ELSE RecalledMute(sources, done, id)
      BY <2>1, OneMorePatch
    <3>2. RecalledMute(sources, done', id) \in BOOLEAN
      BY DEF RecalledMute
    <3>3. /\ candidate[id].group = sources[id].group
          /\ candidate[id].muted = RecalledMute(sources, done, id)
          /\ \A other \in DOMAIN sources : candidate[other].group = sources[other].group
      BY <2>3
    <3>4. candidate'[id].group = sources[id].group
      BY <2>1, <2>3, <3>3 DEF Patched, SetMuted, Row
    <3>5. candidate'[id].muted <=> IF Concerns(sources, p, id) THEN p[1] # id \/ p[2]
                                   ELSE candidate[id].muted
      <4>1. CASE p[1] \notin DOMAIN sources
        BY <2>1, <2>3, <4>1 DEF Patched, Concerns
      <4>2. CASE p[1] = id
        BY <2>1, <2>3, <4>2 DEF Patched, SetMuted, Concerns, Row
      <4>3. CASE p[1] \in DOMAIN sources \ {id}
        BY <2>1, <2>3, <3>3, <4>3 DEF Patched, SetMuted, Concerns, Row
      <4> QED
        BY <4>1, <4>2, <4>3
    <3>6. candidate'[id] \in Row
      BY <2>2, <2>3
    <3>7. candidate'[id].muted = RecalledMute(sources, done', id)
      BY <3>1, <3>2, <3>3, <3>5, <3>6 DEF Row
    <3> QED
      BY <3>4, <3>6, <3>7 DEF Row
  <2> QED
    BY <2>1, <2>2, <2>3, <2>4 DEF Recalled, Exclusive
<1>11. CASE CommitPatches
  <2>1. /\ Saved(candidate, order) /\ candidate' = <<>> /\ done' = <<>>
        /\ todo' = <<>> /\ ~Idle
    BY <1>11 DEF CommitPatches, Idle
  <2>2. DOMAIN candidate = DOMAIN sources
    BY <2>1 DEF Recalled
  <2>3. sources' = candidate /\ order' = order
    BY <2>1, <2>2, SavedAsGiven
  <2>4. Idle'
    BY <2>1 DEF Idle
  <2> QED
    BY <2>1, <2>2, <2>3, <2>4 DEF Recalled, Exclusive
<1>12. CASE AbandonPatches
  BY <1>12 DEF AbandonPatches, Exclusive, Recalled, Idle
<1>13. CASE UNCHANGED vars
  BY <1>13 DEF vars, Exclusive, Recalled, Idle, RecalledMute, Concerns
<1> QED
  BY <1>1, <1>2, <1>3, <1>4, <1>5, <1>6, <1>7, <1>8, <1>9, <1>10, <1>11,
     <1>12, <1>13 DEF Next, Edits

LEMMA RowsInvariant == Spec => []IInv
  BY RowsBegin, RowsStep, PTL DEF Spec

\* docs/ARCHITECTURE.md, Groups: at most one source of a group is open.
THEOREM GroupsStayExclusive == Spec => []AtMostOneOpen
<1>1. IInv => AtMostOneOpen
  BY DEF IInv, Settled, AtMostOneOpen
<1> QED
  BY <1>1, RowsInvariant, PTL

\* Whatever a command decided survives the normalization of the rows it saves:
\* the row it opens is open, a row that joins silences nobody, and the mutes of
\* a scene are its patches' last words.
THEOREM DecisionsStand == Spec => AsDecided
<1>1. ASSUME IInv, NEW id \in Ids, SetSourceMute(id, FALSE)
      PROVE  ~sources'[id].muted
  <2> DEFINE rows == SetMuted(sources, id, FALSE)
  <2>1. id \in DOMAIN sources /\ Saved(rows, order) /\ sources \in [DOMAIN sources -> Row]
    BY <1>1 DEF SetSourceMute, Commit, IInv, TypeOK
  <2>2. rows \in [DOMAIN rows -> Row] /\ DOMAIN rows = DOMAIN sources /\ Exclusive(rows)
    BY <1>1, <2>1, SetMutedType, SetMutedExclusive DEF IInv, Settled
  <2>3. ~rows[id].muted
    BY <2>1 DEF SetMuted, Row
  <2> HIDE DEF rows
  <2> QED
    BY <1>1, <2>1, <2>2, <2>3, SavedAsGiven DEF IInv, TypeOK
<1>2. ASSUME IInv, NEW id \in Ids, NEW target \in Ids, NEW g \in Groups,
             JoinGroup(id, target, g)
      PROVE  ~sources'[target].muted
  <2> DEFINE joined == [sources EXCEPT ![id].group = g, ![target].group = g]
             rows == SetMuted(joined, target, FALSE)
  <2>1. /\ {id, target} \subseteq DOMAIN sources
        /\ Saved(rows, order) /\ TypeOK /\ Exclusive(sources)
    BY <1>2 DEF JoinGroup, Commit, IInv, Settled
  <2> DEFINE moved == [sources EXCEPT ![id].group = g]
  <2>m. moved \in [DOMAIN moved -> Row] /\ DOMAIN moved = DOMAIN sources
    BY <2>1, RegroupedType DEF TypeOK
  <2>n. joined = [moved EXCEPT ![target].group = g]
    OBVIOUS
  <2> HIDE DEF moved
  <2>2. /\ joined \in [DOMAIN joined -> Row] /\ DOMAIN joined = DOMAIN sources
        /\ joined[target].group = g
    BY ONLY <1>2, <2>1, <2>m, <2>n, RegroupedType
  <2>3. ExclusiveBut(joined, target)
    <3>1. \A a \in DOMAIN joined : joined[a].group # g => joined[a] = sources[a]
      BY <2>1, <2>2 DEF TypeOK, Row
    <3> QED
      BY <2>1, <2>2, <3>1 DEF ExclusiveBut, Exclusive
  <2> HIDE DEF joined
  <2>4. /\ rows \in [DOMAIN rows -> Row] /\ DOMAIN rows = DOMAIN sources
        /\ Exclusive(rows)
    BY <2>1, <2>2, <2>3, SetMutedType, OpeningSettles
  <2>5. ~rows[target].muted
    BY <2>1, <2>2 DEF SetMuted, Row
  <2> HIDE DEF rows
  <2> QED
    BY <2>1, <2>4, <2>5, SavedAsGiven DEF TypeOK
<1>3. ASSUME IInv, NEW id \in Ids, NEW g \in Groups \cup {NoGroup}, AddSource(id, g),
             NEW peer \in DOMAIN sources \ {id}
      PROVE  sources'[peer] = sources[peer]
  <2> DEFINE more == With(sources, id, g)
             below == Below(order, sources, id)
  <2>1. id \notin DOMAIN sources /\ sources' = Normalized(more, below)
    BY <1>3 DEF AddSource, With, Below, Saved
  <2>2. more = With(sources, id, g) /\ below = Below(order, sources, id)
    OBVIOUS
  <2>3. /\ sources \in [DOMAIN sources -> Row] /\ Exclusive(sources)
        /\ order \subseteq OrderOf(sources)
    BY <1>3 DEF IInv, TypeOK, Settled, OrderOf
  <2> HIDE DEF more, below
  <2>4. Untouched(sources, Normalized(more, below))
    BY ONLY <1>3, <2>1, <2>2, <2>3, Newcomer
  <2> QED
    BY <1>3, <2>1, <2>4 DEF Untouched
<1>4. ASSUME IInv, NEW id \in Ids, NEW g \in Groups \cup {NoGroup}, EditSource(id, g),
             NEW peer \in DOMAIN sources \ {id}
      PROVE  sources'[peer] = sources[peer]
  <2> DEFINE rows == [sources EXCEPT ![id] = [group |-> g, muted |-> EditedMute(id, g)]]
  <2>1. id \in DOMAIN sources /\ Saved(rows, order) /\ TypeOK /\ Exclusive(sources)
    BY <1>4 DEF EditSource, Commit, IInv, Settled
  <2>2. EditedMute(id, g) \in BOOLEAN
    BY <2>1 DEF EditedMute, TypeOK, Row
  <2>3. rows \in [DOMAIN rows -> Row] /\ DOMAIN rows = DOMAIN sources
    BY <2>1, <2>2 DEF TypeOK, Row
  <2>4. Exclusive(rows)
    BY <2>1, <2>2 DEF Exclusive, EditedMute, InGroup, TypeOK, Row
  <2>5. rows[peer] = sources[peer]
    BY <2>1, <1>4
  <2> HIDE DEF rows
  <2> QED
    BY <2>1, <2>3, <2>4, <2>5, SavedAsGiven DEF TypeOK
<1>5. ASSUME IInv, CommitPatches, NEW id \in DOMAIN candidate
      PROVE  sources'[id] = [group |-> sources[id].group,
                             muted |-> RecalledMute(sources, done, id)]
  <2>1. Saved(candidate, order) /\ ~Idle /\ TypeOK /\ Exclusive(candidate)
    BY <1>5 DEF CommitPatches, Idle, IInv, Settled
  <2>2. /\ DOMAIN candidate = DOMAIN sources
        /\ candidate[id] = [group |-> sources[id].group,
                            muted |-> RecalledMute(sources, done, id)]
    BY <1>5, <2>1 DEF IInv, Recalled
  <2>3. sources' = candidate
    BY <2>1, <2>2, SavedAsGiven DEF TypeOK
  <2> QED
    BY <2>2, <2>3
<1>6. IInv => Decided
  BY <1>1, <1>2, <1>3, <1>4, <1>5 DEF Decided
<1> QED
  BY <1>6, RowsInvariant, PTL DEF AsDecided

-----------------------------------------------------------------------------
(* Switching a group.                                                      *)

\* A strict total order of S.
StrictlyOrders(above, S) ==
    /\ \A a \in S : <<a, a>> \notin above
    /\ \A a, b, c \in S : <<a, b>> \in above /\ <<b, c>> \in above => <<a, c>> \in above
    /\ \A a, b \in S : a # b => <<a, b>> \in above \/ <<b, a>> \in above

\* The rows are finitely many, and of two rows one is above the other.
Ranked ==
    /\ DOMAIN sources \in SUBSET Ids
    /\ IsFiniteSet(DOMAIN sources)
    /\ StrictlyOrders(order, DOMAIN sources)

\* Of finitely many ordered rows one is above all others.  The sets of rows above
\* a row are well-founded: a least one is empty.
LEMMA Topmost ==
    ASSUME NEW above, NEW T, IsFiniteSet(T), T # {}, StrictlyOrders(above, T)
    PROVE  \E a \in T : \A b \in T \ {a} : <<a, b>> \in above
<1> DEFINE Over(x) == {b \in T : <<b, x>> \in above}
           K == {Over(x) : x \in T}
<1>1. K \subseteq FiniteSubsetsOf(T) /\ K # {}
  <2>1. \A x \in T : Over(x) \in SUBSET T /\ IsFiniteSet(Over(x))
    BY FS_Subset
  <2> QED
    BY <2>1 DEF FiniteSubsetsOf
<1>2. \E k \in K : \A l \in K : <<l, k>> \notin StrictSubsetOrdering(T)
  <2> HIDE DEF K
  <2> QED
    BY <1>1, WFMin, FS_StrictSubsetOrderingWellFounded
<1>3. PICK a \in T : \A x \in T : <<Over(x), Over(a)>> \notin StrictSubsetOrdering(T)
  BY <1>2
<1>4. ASSUME NEW b \in Over(a)
      PROVE  FALSE
  <2>1. b \in T /\ <<b, a>> \in above
    OBVIOUS
  <2>2. Over(b) \subseteq Over(a)
    BY <2>1 DEF StrictlyOrders
  <2>3. b \notin Over(b)
    BY <2>1 DEF StrictlyOrders
  <2>4. Over(b) \subseteq T /\ Over(a) \subseteq T /\ Over(b) # Over(a)
    BY <2>3, <1>4
  <2>5. <<Over(b), Over(a)>> \in StrictSubsetOrdering(T)
    BY <2>2, <2>4 DEF StrictSubsetOrdering
  <2> QED
    BY <1>3, <2>1, <2>5
<1> QED
  BY <1>4 DEF StrictlyOrders

\* And one is below all others.
LEMMA Lowest ==
    ASSUME NEW above, NEW T, IsFiniteSet(T), T # {}, StrictlyOrders(above, T)
    PROVE  \E a \in T : \A b \in T \ {a} : <<b, a>> \in above
<1> DEFINE below == {p \in T \X T : <<p[2], p[1]>> \in above}
<1>1. \A a, b \in T : <<a, b>> \in below <=> <<b, a>> \in above
  OBVIOUS
<1> HIDE DEF below
<1>2. StrictlyOrders(below, T)
  BY <1>1 DEF StrictlyOrders
<1>3. PICK a \in T : \A b \in T \ {a} : <<a, b>> \in below
  BY <1>2, Topmost
<1> QED
  BY <1>1, <1>3

\* The order of rows is one of some of them.
LEMMA OrderOfSome ==
    ASSUME NEW above, NEW S, IsFiniteSet(S), StrictlyOrders(above, S), NEW T \in SUBSET S
    PROVE  IsFiniteSet(T) /\ StrictlyOrders(above, T)
<1>1. IsFiniteSet(T)
  BY FS_Subset
<1>2. StrictlyOrders(above, T)
  BY DEF StrictlyOrders
<1> QED
  BY <1>1, <1>2

\* First chooses the topmost row.
LEMMA FirstIsTopmost ==
    ASSUME NEW above, NEW T, IsFiniteSet(T), T # {}, StrictlyOrders(above, T)
    PROVE  /\ First(T, above) \in T
           /\ \A b \in T \ {First(T, above)} : <<First(T, above), b>> \in above
<1>1. \E a \in T : \A b \in T \ {a} : <<a, b>> \in above
  BY Topmost
<1> QED
  BY <1>1 DEF First

After(T, above, id) == {other \in T : <<id, other>> \in above}
NextOf(T, above, id) ==
    First(IF After(T, above, id) # {} THEN After(T, above, id) ELSE T, above)

\* When id is the open member of its group, switching opens the next one.
LEMMA SwitchOpensNext ==
    ASSUME NEW rows, rows \in [DOMAIN rows -> Row], NEW above, NEW g \in Groups,
           NEW id \in InGroup(rows, g)
    PROVE  SwitchTarget(SetMuted(rows, id, FALSE), above, g)
             = NextOf(InGroup(rows, g), above, id)
<1> DEFINE opened == SetMuted(rows, id, FALSE)
           open == {x \in InGroup(opened, g) : ~opened[x].muted}
           later == {x \in InGroup(opened, g) : <<First(open, above), x>> \in above}
<1>1. id \in DOMAIN rows /\ rows[id].group = g /\ g # NoGroup
  BY GroupsAssumption DEF InGroup
<1>2. DOMAIN opened = DOMAIN rows /\ \A x \in DOMAIN rows : opened[x].group = rows[x].group
  BY DEF SetMuted, Row
<1>3. InGroup(opened, g) = InGroup(rows, g)
  BY <1>2 DEF InGroup
<1>4. \A x \in InGroup(rows, g) : ~opened[x].muted <=> x = id
  BY <1>1 DEF SetMuted, Row, InGroup
<1>5. open = {id}
  BY <1>3, <1>4
<1>6. First({id}, above) = id
  BY DEF First
<1>7. later = After(InGroup(rows, g), above, id)
  BY <1>3, <1>5, <1>6 DEF After
<1>8. SwitchTarget(opened, above, g)
        = First(IF open # {} /\ later # {} THEN later ELSE InGroup(opened, g), above)
  BY DEF SwitchTarget
<1> HIDE DEF opened, open, later
<1>9. SwitchTarget(opened, above, g) = NextOf(InGroup(rows, g), above, id)
  BY <1>3, <1>5, <1>7, <1>8 DEF NextOf
<1> QED
  BY <1>9 DEF opened

\* In a finite order the next rows make one cycle: rows that are left only to
\* come back to them are all rows.  The lowest of them leads to the topmost row,
\* and of rows that were missing the first would be next to one of them.
LEMMA NextIsACycle ==
    ASSUME NEW above, NEW T, IsFiniteSet(T), StrictlyOrders(above, T),
           NEW S \in SUBSET T, S # {}, \A x \in S : NextOf(T, above, x) \in S
    PROVE  S = T
<1>o. \A R \in SUBSET T : IsFiniteSet(R) /\ StrictlyOrders(above, R)
  BY OrderOfSome
<1>i. \A x, y \in T : ~(<<x, y>> \in above /\ <<y, x>> \in above)
  BY DEF StrictlyOrders
<1>1. ASSUME NEW x \in T, After(T, above, x) # {}
      PROVE  LET next == NextOf(T, above, x)
             IN  /\ next \in T /\ <<x, next>> \in above
                 /\ \A b \in After(T, above, x) \ {next} : <<next, b>> \in above
  <2> DEFINE A == After(T, above, x)
  <2>1. A \in SUBSET T /\ \A b \in A : <<x, b>> \in above
    BY DEF After
  <2>2. IsFiniteSet(A) /\ StrictlyOrders(above, A)
    BY <2>1, OrderOfSome
  <2>3. NextOf(T, above, x) = First(A, above)
    BY <1>1 DEF NextOf
  <2>4. /\ First(A, above) \in A
        /\ \A b \in A \ {First(A, above)} : <<First(A, above), b>> \in above
    BY <1>1, <2>2, FirstIsTopmost
  <2> QED
    BY <2>1, <2>3, <2>4
<1>2. ASSUME NEW x \in T, After(T, above, x) = {}
      PROVE  LET next == NextOf(T, above, x)
             IN  next \in T /\ \A b \in T \ {next} : <<next, b>> \in above
  <2>1. NextOf(T, above, x) = First(T, above)
    BY <1>2 DEF NextOf
  <2> QED
    BY <2>1, FirstIsTopmost
<1>3. PICK first \in S : \A b \in T \ {first} : <<first, b>> \in above
  <2>s. IsFiniteSet(S) /\ StrictlyOrders(above, S) /\ S # {}
    BY <1>o
  <2>l. \E a \in S : \A b \in S \ {a} : <<b, a>> \in above
    BY <2>s, Lowest
  <2>1. PICK last \in S : \A b \in S \ {last} : <<b, last>> \in above
    BY <2>l
  <2> DEFINE next == NextOf(T, above, last)
  <2>2. next \in S /\ last \in T
    BY <2>1
  <2>3. After(T, above, last) = {}
    <3> SUFFICES ASSUME After(T, above, last) # {} PROVE FALSE
      OBVIOUS
    <3>1. <<last, next>> \in above
      BY <1>1, <2>2
    <3> HIDE DEF next
    <3>2. next = last \/ <<next, last>> \in above
      BY <2>1, <2>2
    <3> QED
      BY <1>i, <2>2, <3>1, <3>2
  <2>4. \A b \in T \ {next} : <<next, b>> \in above
    BY <1>2, <2>2, <2>3
  <2> HIDE DEF next
  <2> QED
    BY <2>2, <2>4
<1> SUFFICES ASSUME T \ S # {} PROVE FALSE
  OBVIOUS
<1>4. PICK missed \in T \ S : \A b \in (T \ S) \ {missed} : <<missed, b>> \in above
  <2>1. T \ S \in SUBSET T
    OBVIOUS
  <2>2. IsFiniteSet(T \ S) /\ StrictlyOrders(above, T \ S)
    BY <1>o, <2>1
  <2> QED
    BY <2>2, Topmost
<1> DEFINE before == {x \in T : <<x, missed>> \in above}
<1>5. PICK prev \in before : \A b \in before \ {prev} : <<b, prev>> \in above
  <2>1. before \in SUBSET T
    OBVIOUS
  <2>2. first \in before
    BY <1>3, <1>4
  <2>3. IsFiniteSet(before) /\ StrictlyOrders(above, before) /\ before # {}
    BY <1>o, <2>1, <2>2
  <2> HIDE DEF before
  <2>4. \E a \in before : \A b \in before \ {a} : <<b, a>> \in above
    BY <2>3, Lowest
  <2> QED
    BY <2>4
<1>6. prev \in T /\ <<prev, missed>> \in above
  BY <1>5
<1>7. prev \in S
  <2> SUFFICES ASSUME prev \notin S PROVE FALSE
    OBVIOUS
  <2>1. prev = missed \/ <<missed, prev>> \in above
    BY <1>4, <1>6
  <2> QED
    BY <1>i, <1>4, <1>6, <2>1
<1> DEFINE next == NextOf(T, above, prev)
<1>8. next \in S
  BY <1>7
<1>9. missed \in After(T, above, prev)
  BY <1>4, <1>6 DEF After
<1>10. <<prev, next>> \in above /\ (missed # next => <<next, missed>> \in above)
  BY <1>1, <1>6, <1>9
<1> HIDE DEF next
<1>11. missed # next
  BY <1>4, <1>8
<1>12. next \in before
  BY <1>8, <1>10, <1>11
<1>13. next = prev \/ <<next, prev>> \in above
  BY <1>5, <1>12
<1> QED
  BY <1>i, <1>6, <1>8, <1>10, <1>13

\* Rows that are ranked can be switched through.
LEMMA RankedRowsTakeTurns ==
    ASSUME TypeOK, Ranked
    PROVE  SwitchVisitsAll
<1> DEFINE Opens(g, id) == SwitchTarget(SetMuted(sources, id, FALSE), order, g)
<1> SUFFICES ASSUME NEW g \in Groups, NEW turn \in SUBSET InGroup(sources, g), turn # {},
                    \A id \in turn : Opens(g, id) \in turn
             PROVE  turn = InGroup(sources, g)
  BY DEF SwitchVisitsAll
<1> DEFINE T == InGroup(sources, g)
<1>1. T \in SUBSET DOMAIN sources
  BY DEF InGroup
<1>2. IsFiniteSet(T) /\ StrictlyOrders(order, T)
  BY <1>1, OrderOfSome DEF Ranked
<1>3. \A id \in T : Opens(g, id) = NextOf(T, order, id)
  BY SwitchOpensNext DEF TypeOK
<1>4. \A id \in turn : NextOf(T, order, id) \in turn
  BY <1>3
<1>5. turn \in SUBSET T
  OBVIOUS
<1> HIDE DEF T
<1>6. turn = T
  BY <1>2, <1>4, <1>5, NextIsACycle
<1> QED
  BY <1>6 DEF T

\* Rows that come and go, and the rows the user moves up, leave a ranking.
LEMMA RankingKept ==
    ASSUME IInv, Ranked, [Next]_vars
    PROVE  Ranked'
<1> USE DEF Ranked
<1>t. TypeOK
  BY DEF IInv
<1>1. ASSUME DOMAIN sources' = DOMAIN sources, order' = order
      PROVE  Ranked'
  BY <1>1 DEF StrictlyOrders
<1>2. ASSUME NEW rows, rows \in [DOMAIN rows -> Row], DOMAIN rows = DOMAIN sources, Commit(rows)
      PROVE  Ranked'
  <2>1. DOMAIN sources' = DOMAIN sources /\ order' = order
    BY <1>2, NormalizedType DEF Commit, Saved
  <2> QED
    BY <1>1, <2>1
<1>3. ASSUME NEW id \in Ids, NEW g \in Groups \cup {NoGroup}, AddSource(id, g)
      PROVE  Ranked'
  <2>1. /\ id \notin DOMAIN sources
        /\ sources' = Normalized(With(sources, id, g), Below(order, sources, id))
        /\ order' = order \cup ((DOMAIN sources) \X {id})
    BY <1>3 DEF AddSource, Saved, With, Below
  <2>2. DOMAIN sources' = DOMAIN sources \cup {id}
    BY <2>1 DEF Normalized, With
  <2>3. IsFiniteSet(DOMAIN sources')
    BY <2>2, FS_AddElement
  <2>4. \A a, b : <<a, b>> \in order' <=>
                    <<a, b>> \in order \/ (a \in DOMAIN sources /\ b = id)
    BY <2>1
  <2>5. \A a, b : <<a, b>> \in order => a \in DOMAIN sources /\ b \in DOMAIN sources
    BY <1>t DEF TypeOK
  <2>6. StrictlyOrders(order', DOMAIN sources')
    BY <2>1, <2>2, <2>4, <2>5 DEF StrictlyOrders
  <2>7. DOMAIN sources' \in SUBSET Ids
    BY <2>2
  <2> QED
    BY <2>3, <2>6, <2>7
<1>4. ASSUME NEW id \in Ids, RemoveSource(id)
      PROVE  Ranked'
  <2>1. /\ DOMAIN sources' = DOMAIN sources \ {id}
        /\ order' = {p \in order : id \notin {p[1], p[2]}}
    BY <1>4 DEF RemoveSource, Saved, Normalized
  <2>2. IsFiniteSet(DOMAIN sources')
    BY <2>1, FS_RemoveElement
  <2>3. StrictlyOrders(order', DOMAIN sources')
    BY <2>1 DEF StrictlyOrders
  <2>4. DOMAIN sources' \in SUBSET Ids
    BY <2>1
  <2> QED
    BY <2>2, <2>3, <2>4
<1>5. ASSUME NEW ids \in Orders, OrderSources(ids)
      PROVE  Ranked'
  <2>1. DOMAIN sources' = DOMAIN sources /\ order' = Reordered(ids)
    BY <1>5, <1>t, NormalizedType DEF OrderSources, Saved, TypeOK
  <2>2. DOMAIN ids = {1, 2} /\ ids[1] # ids[2]
    BY DEF Orders
  <2>3. \A a, b \in DOMAIN sources : <<a, b>> \in order' <=>
           \/ a = ids[1] /\ b = ids[2]
           \/ a \in {ids[1], ids[2]} /\ b \notin {ids[1], ids[2]}
           \/ a \notin {ids[1], ids[2]} /\ b \notin {ids[1], ids[2]} /\ <<a, b>> \in order
    BY <2>1, <2>2 DEF Reordered
  <2>4. StrictlyOrders(order', DOMAIN sources)
    BY <2>2, <2>3 DEF StrictlyOrders
  <2> QED
    BY <2>1, <2>4
<1>6. ASSUME NEW id \in Ids, NEW g \in Groups \cup {NoGroup}, EditSource(id, g)
      PROVE  Ranked'
  <2> DEFINE rows == [sources EXCEPT ![id] = [group |-> g, muted |-> EditedMute(id, g)]]
  <2>1. id \in DOMAIN sources /\ Commit(rows)
    BY <1>6 DEF EditSource
  <2>2. DOMAIN sources' = DOMAIN sources /\ order' = order
    BY <2>1 DEF Commit, Saved, Normalized
  <2> QED
    BY <1>1, <2>2
<1>7. ASSUME NEW id \in Ids, LeaveGroup(id)
      PROVE  Ranked'
  <2>1. DOMAIN sources' = DOMAIN sources /\ order' = order
    BY <1>7 DEF LeaveGroup, Commit, Saved, Normalized
  <2> QED
    BY <1>1, <2>1
<1>8. ASSUME NEW id \in Ids, NEW muted \in BOOLEAN, SetSourceMute(id, muted)
      PROVE  Ranked'
  BY <1>2, <1>8, <1>t, SetMutedType DEF SetSourceMute, TypeOK
<1>9. ASSUME NEW id \in Ids, NEW target \in Ids, NEW g \in Groups, JoinGroup(id, target, g)
      PROVE  Ranked'
  <2>1. DOMAIN sources' = DOMAIN sources /\ order' = order
    BY <1>9 DEF JoinGroup, Commit, Saved, Normalized, SetMuted
  <2> QED
    BY <1>1, <2>1
<1>10. ASSUME NEW g \in Groups, SwitchGroup(g)
       PROVE  Ranked'
  BY <1>2, <1>10, <1>t, SetMutedType DEF SwitchGroup, TypeOK
<1>11. ASSUME CommitPatches
       PROVE  Ranked'
  <2>1. DOMAIN candidate = DOMAIN sources
    BY <1>11 DEF CommitPatches, IInv, Recalled, Idle
  <2>2. DOMAIN sources' = DOMAIN sources /\ order' = order
    BY <1>11, <2>1, <1>t, NormalizedType DEF CommitPatches, Saved, TypeOK
  <2> QED
    BY <1>1, <2>2
<1>12. ASSUME \/ \E patches \in Patches : BeginPatches(patches)
              \/ ApplyPatch
              \/ AbandonPatches
              \/ UNCHANGED vars
       PROVE  Ranked'
  BY <1>1, <1>12 DEF BeginPatches, ApplyPatch, AbandonPatches, vars
<1> QED
  BY <1>3, <1>4, <1>5, <1>6, <1>7, <1>8, <1>9, <1>10, <1>11, <1>12 DEF Next, Edits

LEMMA RankingInvariant == Spec => []Ranked
<1>1. Init => Ranked
  BY FS_EmptySet DEF Init, Ranked, StrictlyOrders
<1>2. IInv /\ Ranked /\ [Next]_vars => Ranked'
  BY RankingKept
<1> QED
  BY <1>1, <1>2, RowsInvariant, PTL DEF Spec

\* switch_group goes round the members of a group in one cycle, however many
\* they are: every one of them is opened before the first again, after any
\* additions, removals and reorderings.
THEOREM SwitchTakesTurns == Spec => []SwitchVisitsAll
<1>1. IInv /\ Ranked => SwitchVisitsAll
  BY RankedRowsTakeTurns DEF IInv
<1> QED
  BY <1>1, RowsInvariant, RankingInvariant, PTL

-----------------------------------------------------------------------------
(* The stores.                                                             *)

DiskFields == {"rows", "order", "mixes", "sends", "offered"}

KeptFields == {"mixes", "sends", "offered"}

\* The fields of the record of contents that a file holds.
FieldsOf(name) ==
    CASE name = "sources" -> {"rows", "order"}
      [] name = "mixes" -> {"mixes"}
      [] name = "matrix" -> {"sends"}
      [] name = "preferences" -> {"offered"}

\* Records have their fields.
Shape ==
    /\ up \in BOOLEAN
    /\ disk = [x \in DiskFields |-> disk[x]]
    /\ kept = [x \in KeptFields |-> kept[x]]
    /\ shown = [x \in DiskFields |-> shown[x]]
    /\ file = [name \in Files |-> file[name]]

\* A write of rows adds one or removes one, and is the first of its command.
RowsWrite(w) ==
    \E id \in Ids : \/ id \in DOMAIN sources /\ w = RowsWithout(id)
                    \/ id \notin DOMAIN sources /\ w = RowsWith(id)

GoodWrite(j, k) ==
    /\ j.writes[k].file \in Files \ bad
    /\ DOMAIN j.writes[k].new = FieldsOf(j.writes[k].file)
    /\ j.writes[k].file = "sources" => k = 1 /\ ~j.saved /\ RowsWrite(j.writes[k])

GoodJob(j) ==
    /\ \E W : j.writes \in Seq(W)
    /\ j = [writes |-> j.writes, marks |-> j.marks, saved |-> j.saved, failed |-> j.failed]
    /\ j.saved \in BOOLEAN
    /\ \A k \in 1 .. Len(j.writes) : GoodWrite(j, k)

Working == job # <<>> => up /\ Idle /\ GoodJob(job)

\* Memory and files agree, also between two writes of a command; the rows agree
\* while the program is down, too.
Agree ==
    /\ disk.rows = sources /\ disk.order = order
    /\ up => \A x \in KeptFields : kept[x] = disk[x]

\* Until the first write of a command the view is of the stores.
Given ==
    up /\ (job = <<>> \/ ~job.saved) =>
       /\ \A x \in DiskFields \ {"offered"} : shown[x] = Desired[x]
       /\ kept.offered \subseteq shown.offered

BrokenStay == up => \A name \in bad : name \in Files /\ file[name] # "there"

KInv == IInv /\ Shape /\ Working /\ Agree /\ Given /\ BrokenStay

\* A write of one file changes the fields of that file, on disk and in memory.
LEMMA PutFields ==
    ASSUME Shape, up, Agree, NEW name \in Files, NEW new, DOMAIN new = FieldsOf(name),
           Put(name, new)
    PROVE  /\ disk' = [x \in DiskFields |-> disk'[x]]
           /\ kept' = [x \in KeptFields |-> kept'[x]]
           /\ file' = [other \in Files |-> file'[other]]
           /\ \A x \in KeptFields : kept'[x] = disk'[x]
           /\ \A x \in DiskFields :
                 disk'[x] = IF x \in FieldsOf(name) THEN new[x] ELSE disk[x]
           /\ \A other \in Files \ {name} : file'[other] = file[other]
  BY DEF Shape, Agree, Put, Updated, DiskFields, KeptFields

LEMMA Fields ==
    /\ FieldsOf("sources") = {"rows", "order"}
    /\ FieldsOf("mixes") = {"mixes"}
    /\ FieldsOf("matrix") = {"sends"}
    /\ FieldsOf("preferences") = {"offered"}
  BY DEF FieldsOf

\* The view of the stores has the fields of the view.
LEMMA DesiredFields ==
    ASSUME shown' = Desired'
    PROVE  /\ shown' = [x \in DiskFields |-> shown'[x]]
           /\ \A x \in DiskFields : shown'[x] = Desired'[x]
           /\ kept'.offered = shown'.offered
  BY DEF Desired, DiskFields

\* A command that writes one file and gives the desired state on.
LEMMA OneWrite ==
    ASSUME KInv, up, job = <<>>, UNCHANGED <<up, bad, job>>, IInv',
           NEW name \in Files \ bad, NEW new, DOMAIN new = FieldsOf(name), Put(name, new),
           disk'.rows = sources', disk'.order = order',
           shown' = Desired'
    PROVE  KInv'
<1>1. /\ disk' = [x \in DiskFields |-> disk'[x]]
      /\ kept' = [x \in KeptFields |-> kept'[x]]
      /\ file' = [other \in Files |-> file'[other]]
      /\ \A x \in KeptFields : kept'[x] = disk'[x]
      /\ \A other \in Files \ {name} : file'[other] = file[other]
  BY PutFields DEF KInv
<1>2. shown' = [x \in DiskFields |-> shown'[x]]
  BY DesiredFields
<1>3. Shape'
  BY <1>1, <1>2 DEF KInv, Shape
<1>4. Working'
  BY DEF Working
<1>5. Agree'
  BY <1>1 DEF Agree
<1>6. Given'
  BY DesiredFields DEF Given
<1>7. BrokenStay'
  BY <1>1 DEF KInv, BrokenStay
<1> QED
  BY <1>3, <1>4, <1>5, <1>6, <1>7 DEF KInv

LEMMA SaveRowsKeeps ==
    ASSUME KInv, SaveRows
    PROVE  KInv' /\ Next
<1>1. Next
  BY DEF SaveRows, Next
<1>2. IInv'
  BY <1>1, RowsStep DEF KInv
<1> DEFINE new == [rows |-> sources', order |-> order']
<1>3. "sources" \in Files \ bad /\ DOMAIN new = FieldsOf("sources")
  BY Fields DEF SaveRows, Writable, Files
<1>4. Put("sources", new) /\ up /\ job = <<>> /\ UNCHANGED <<up, bad, job>> /\ shown' = Desired'
  BY DEF SaveRows
<1>5. disk'.rows = sources' /\ disk'.order = order'
  BY <1>4 DEF Put, Updated, KInv, Shape, DiskFields
<1> HIDE DEF new
<1> QED
  BY <1>1, <1>2, <1>3, <1>4, <1>5, OneWrite

LEMMA RowsStay ==
    ASSUME IInv, UNCHANGED vars
    PROVE  IInv' /\ (Idle => Idle')
<1>1. IInv'
  BY RowsStep
<1> QED
  BY <1>1 DEF vars, Idle

LEMMA SetCellKeeps ==
    ASSUME KInv, NEW id \in Ids, NEW mix \in Mixes, NEW level \in Levels, SetCell(id, mix, level)
    PROVE  KInv'
<1> DEFINE new == [sends |-> [key \in DOMAIN kept.sends \cup {<<id, mix>>} |->
                                IF key = <<id, mix>> THEN level ELSE kept.sends[key]]]
<1>1. /\ Ready /\ Writable({"sources", "mixes", "matrix"}) /\ Put("matrix", new)
      /\ UNCHANGED <<vars, plan, left, up, bad, present, job>> /\ shown' = Desired'
  BY DEF SetCell
<1>2. IInv'
  BY <1>1, RowsStay DEF KInv
<1>3. "matrix" \in Files \ bad /\ DOMAIN new = FieldsOf("matrix")
  BY <1>1, Fields DEF Writable, Files
<1>5. disk'.rows = sources' /\ disk'.order = order'
  BY <1>1 DEF Put, Updated, KInv, Shape, DiskFields, Agree, vars
<1> HIDE DEF new
<1> QED
  BY <1>1, <1>2, <1>3, <1>5, OneWrite DEF Ready

LEMMA AddMixKeeps ==
    ASSUME KInv, NEW mix \in Mixes, AddMix(mix)
    PROVE  KInv'
<1> DEFINE new == [mixes |-> kept.mixes \cup {mix}]
<1>1. /\ Ready /\ Writable({"mixes"}) /\ Put("mixes", new)
      /\ UNCHANGED <<vars, plan, left, up, bad, present, job>> /\ shown' = Desired'
  BY DEF AddMix
<1>2. IInv'
  BY <1>1, RowsStay DEF KInv
<1>3. "mixes" \in Files \ bad /\ DOMAIN new = FieldsOf("mixes")
  BY <1>1, Fields DEF Writable, Files
<1>5. disk'.rows = sources' /\ disk'.order = order'
  BY <1>1 DEF Put, Updated, KInv, Shape, DiskFields, Agree, vars
<1> HIDE DEF new
<1> QED
  BY <1>1, <1>2, <1>3, <1>5, OneWrite DEF Ready

\* Preferences written while nothing else changes.
LEMMA PreferencesKeep ==
    ASSUME KInv, up, NEW offered, Put("preferences", [offered |-> offered]),
           "preferences" \notin bad, UNCHANGED <<vars, bad>>
    PROVE  /\ IInv' /\ disk'.rows = sources' /\ disk'.order = order'
           /\ disk' = [x \in DiskFields |-> disk'[x]]
           /\ kept' = [x \in KeptFields |-> kept'[x]]
           /\ file' = [other \in Files |-> file'[other]]
           /\ kept'.offered = offered
           /\ \A x \in KeptFields : kept'[x] = disk'[x]
           /\ \A x \in DiskFields \ {"offered"} : Desired'[x] = Desired[x]
           /\ \A name \in bad : file'[name] = file[name]
<1> DEFINE new == [offered |-> offered]
<1>1. "preferences" \in Files /\ DOMAIN new = FieldsOf("preferences")
  BY Fields DEF Files
<1>2. IInv'
  BY RowsStay DEF KInv
<1>3. disk'.rows = sources' /\ disk'.order = order'
  BY DEF Put, Updated, KInv, Shape, DiskFields, Agree, vars
<1>4. kept'.offered = offered /\ kept'.mixes = kept.mixes /\ kept'.sends = kept.sends
  BY DEF Put, Updated, KInv, Shape, KeptFields
<1>5. \A x \in DiskFields \ {"offered"} : Desired'[x] = Desired[x]
  BY <1>4 DEF Desired, DiskFields, vars
<1>6. \A name \in bad : file'[name] = file[name]
  BY DEF Put, KInv, Shape, BrokenStay
<1>7. Shape /\ Agree
  BY DEF KInv
<1> HIDE DEF new
<1>8. Put("preferences", new)
  BY DEF new
<1> QED
  BY <1>1, <1>2, <1>3, <1>4, <1>5, <1>6, <1>7, <1>8, PutFields

LEMMA SetPreferencesKeeps ==
    ASSUME KInv, SetPreferences
    PROVE  KInv'
<1>1. /\ Ready /\ "preferences" \notin bad /\ Put("preferences", [offered |-> kept.offered])
      /\ UNCHANGED <<vars, up, bad, job>> /\ shown' = [shown EXCEPT !.offered = kept.offered]
  BY DEF SetPreferences, Writable
<1>2. /\ IInv' /\ disk'.rows = sources' /\ disk'.order = order'
      /\ disk' = [x \in DiskFields |-> disk'[x]]
      /\ kept' = [x \in KeptFields |-> kept'[x]]
      /\ file' = [other \in Files |-> file'[other]]
      /\ kept'.offered = kept.offered
      /\ \A x \in KeptFields : kept'[x] = disk'[x]
      /\ \A x \in DiskFields \ {"offered"} : Desired'[x] = Desired[x]
      /\ \A name \in bad : file'[name] = file[name]
  BY <1>1, PreferencesKeep DEF Ready
<1>3. Shape'
  BY <1>1, <1>2 DEF KInv, Shape
<1>4. Working'
  BY <1>1 DEF Working, Ready
<1>5. Agree'
  BY <1>2 DEF Agree
<1>6. Given'
  BY <1>1, <1>2 DEF Given, KInv, Shape, Ready, DiskFields
<1>7. BrokenStay'
  BY <1>1, <1>2 DEF BrokenStay, KInv
<1> QED
  BY <1>2, <1>3, <1>4, <1>5, <1>6, <1>7 DEF KInv

\* The loop of a scene changes no file, and no command runs beside it.
LEMMA LoopKeeps ==
    ASSUME KInv, BeginScene \/ GoOn \/ GiveUp
    PROVE  KInv' /\ Next
<1>1. Next /\ UNCHANGED <<sources, order>>
  BY DEF BeginScene, GoOn, GiveUp, Next, BeginPatches, ApplyPatch, AbandonPatches
<1>2. IInv'
  BY <1>1, RowsStep DEF KInv
<1>3. UNCHANGED <<file, disk, up, bad, kept, shown, present, job>>
  BY DEF BeginScene, GoOn, GiveUp, storeVars
<1>4. job = <<>>
  BY DEF BeginScene, GoOn, GiveUp, Ready, KInv, Working, Idle, ApplyPatch, AbandonPatches
<1>5. Shape'
  BY <1>3 DEF KInv, Shape
<1>6. Working'
  BY <1>3, <1>4 DEF Working
<1>7. Agree'
  BY <1>1, <1>3 DEF KInv, Agree
<1>8. Given'
  BY <1>1, <1>3 DEF KInv, Given, Desired
<1>9. BrokenStay'
  BY <1>3 DEF KInv, BrokenStay
<1> QED
  BY <1>1, <1>2, <1>5, <1>6, <1>7, <1>8, <1>9 DEF KInv

LEMMA RowsWriteStays ==
    ASSUME sources' = sources, order' = order
    PROVE  \A w : RowsWrite(w) => RowsWrite(w)'
<1>1. \A id : RowsWithout(id)' = RowsWithout(id) /\ RowsWith(id)' = RowsWith(id)
  BY DEF RowsWithout, RowsWith, Write, Normalized, Outranked, InGroup
<1> QED
  BY <1>1 DEF RowsWrite

LEMMA Lists ==
    ASSUME NEW x, NEW y, NEW z
    PROVE  /\ <<x, y>> \o <<z>> = <<x, y, z>>
           /\ <<x, y>> \o <<>> = <<x, y>>
           /\ <<x>> \o <<y>> = <<x, y>>
           /\ <<x>> \o <<>> = <<x>>
           /\ <<x>> \in Seq({x, y, z}) /\ <<x, y>> \in Seq({x, y, z})
           /\ <<x, z>> \in Seq({x, y, z}) /\ <<x, y, z>> \in Seq({x, y, z})
<1>1. <<x, y>> \o <<z>> = <<x, y, z>>
  <2> DEFINE S == {x, y, z}
             s == <<x, y>> \o <<z>>
             t == <<x, y, z>>
  <2>1. <<x, y>> \in Seq(S) /\ <<z>> \in Seq(S) /\ <<x, y, z>> \in Seq(S)
    OBVIOUS
  <2>2. s \in Seq(S) /\ Len(s) = 3 /\ s[1] = x /\ s[2] = y /\ s[3] = z
    BY <2>1
  <2>3. t \in Seq(S) /\ Len(t) = 3 /\ t[1] = x /\ t[2] = y /\ t[3] = z
    BY <2>1
  <2> HIDE DEF s, S, t
  <2>4. \A i \in 1 .. Len(s) : s[i] = t[i]
    BY <2>2, <2>3
  <2>5. s = t
    BY <2>2, <2>3, <2>4, SeqEqual
  <2> QED
    BY <2>5 DEF s, t
<1>2. <<x, y>> \o <<>> = <<x, y>>
  OBVIOUS
<1>3. <<x>> \o <<y>> = <<x, y>>
  <2> DEFINE S == {x, y}
             s == <<x>> \o <<y>>
             t == <<x, y>>
  <2>1. <<x>> \in Seq(S) /\ <<y>> \in Seq(S) /\ <<x, y>> \in Seq(S)
    OBVIOUS
  <2>2. s \in Seq(S) /\ Len(s) = 2 /\ s[1] = x /\ s[2] = y
    BY <2>1
  <2>3. t \in Seq(S) /\ Len(t) = 2 /\ t[1] = x /\ t[2] = y
    BY <2>1
  <2> HIDE DEF s, S, t
  <2>4. \A i \in 1 .. Len(s) : s[i] = t[i]
    BY <2>2, <2>3
  <2>5. s = t
    BY <2>2, <2>3, <2>4, SeqEqual
  <2> QED
    BY <2>5 DEF s, t
<1>4. <<x>> \o <<>> = <<x>>
  OBVIOUS
<1>5. <<x>> \in Seq({x, y, z}) /\ <<x, y>> \in Seq({x, y, z})
  OBVIOUS
<1>6. <<x, z>> \in Seq({x, y, z}) /\ <<x, y, z>> \in Seq({x, y, z})
  OBVIOUS
<1> QED
  BY <1>1, <1>2, <1>3, <1>4, <1>5, <1>6

\* A command of several writes begins: nothing has changed yet.
LEMMA BeginKeeps ==
    ASSUME KInv, Ready, UNCHANGED <<vars, file, disk, up, bad, kept, shown>>,
           NEW writes, NEW marks, Begin(writes, marks), NEW W, writes \in Seq(W),
           \A k \in 1 .. Len(writes) :
              /\ writes[k].file \in Files \ bad
              /\ DOMAIN writes[k].new = FieldsOf(writes[k].file)
              /\ writes[k].file = "sources" => k = 1 /\ RowsWrite(writes[k])
    PROVE  KInv'
<1>1. IInv' /\ Idle'
  BY RowsStay DEF KInv, Ready
<1>2. Shape' /\ Agree' /\ BrokenStay'
  BY DEF KInv, Shape, Agree, BrokenStay, vars
<1>3. /\ job'.writes = writes /\ job'.saved = FALSE
      /\ job' = [writes |-> job'.writes, marks |-> job'.marks,
                 saved |-> job'.saved, failed |-> job'.failed]
  BY DEF Begin
<1>4. \A w : RowsWrite(w) => RowsWrite(w)'
  BY RowsWriteStays DEF vars
<1>5. \A k \in 1 .. Len(writes) : GoodWrite(job, k)'
  BY <1>3, <1>4 DEF GoodWrite
<1>6. Working'
  BY <1>1, <1>3, <1>5 DEF Working, GoodJob, Ready
<1>7. Given'
  BY <1>3 DEF KInv, Given, Desired, Ready, vars
<1> QED
  BY <1>1, <1>2, <1>6, <1>7 DEF KInv

\* What the commands of several writes write.
LEMMA WriteFields ==
    /\ \A id : /\ RowsWithout(id).file = "sources"
               /\ DOMAIN RowsWithout(id).new = FieldsOf("sources")
               /\ RowsWith(id).file = "sources"
               /\ DOMAIN RowsWith(id).new = FieldsOf("sources")
               /\ SendsWithout(id).file = "matrix"
               /\ DOMAIN SendsWithout(id).new = FieldsOf("matrix")
               /\ DOMAIN Migrated(id) = FieldsOf("matrix")
    /\ \A keys : DOMAIN Sends(keys) = FieldsOf("matrix")
  BY Fields DEF RowsWithout, RowsWith, SendsWithout, Migrated, Sends, Write

LEMMA BeginRemovalKeeps ==
    ASSUME KInv, NEW id \in Ids, BeginRemoval(id)
    PROVE  KInv'
<1> DEFINE forgets == Write("preferences", [offered |-> shown.offered \ {NodeOf[id]}])
           W == {RowsWithout(id), SendsWithout(id), forgets}
           writes == RemovalWrites(id)
<1>1. writes = <<RowsWithout(id), SendsWithout(id)>>
      \/ writes = <<RowsWithout(id), SendsWithout(id), forgets>>
  <2>1. CASE Preferences(id) = <<>>
    BY <2>1, Lists DEF RemovalWrites
  <2>2. CASE Preferences(id) # <<>>
    BY <2>2, Lists DEF RemovalWrites, Preferences
  <2> QED
    BY <2>1, <2>2
<1>2. writes \in Seq(W)
  <2>1. /\ <<RowsWithout(id), SendsWithout(id)>> \in Seq(W)
        /\ <<RowsWithout(id), SendsWithout(id), forgets>> \in Seq(W)
    BY Lists
  <2> HIDE DEF writes, W, forgets
  <2> QED
    BY <1>1, <2>1
<1>3. forgets.file = "preferences" /\ DOMAIN forgets.new = FieldsOf("preferences")
  BY Fields DEF Write
<1>4. /\ Ready /\ id \in DOMAIN sources /\ Begin(writes, {})
      /\ \A k \in DOMAIN writes : writes[k].file \notin bad
      /\ UNCHANGED <<vars, file, disk, up, bad, kept, shown>>
  BY DEF BeginRemoval, Writable
<1>5. RowsWrite(RowsWithout(id))
  BY <1>4 DEF RowsWrite
<1> HIDE DEF writes, forgets
<1>6. \A k \in 1 .. Len(writes) :
         /\ writes[k].file \in Files \ bad
         /\ DOMAIN writes[k].new = FieldsOf(writes[k].file)
         /\ writes[k].file = "sources" => k = 1 /\ RowsWrite(writes[k])
  BY <1>1, <1>3, <1>4, <1>5, WriteFields DEF Files
<1> HIDE DEF W
<1> QED
  BY <1>2, <1>4, <1>6, BeginKeeps

LEMMA BeginMixRemovalKeeps ==
    ASSUME KInv, NEW mix \in Mixes, BeginMixRemoval(mix)
    PROVE  KInv'
<1> DEFINE first == Write("mixes", [mixes |-> kept.mixes \ {mix}])
           second == Write("matrix", Sends({key \in DOMAIN kept.sends : key[2] # mix}))
           writes == <<first, second>>
<1>1. /\ first.file = "mixes" /\ DOMAIN first.new = FieldsOf("mixes")
      /\ second.file = "matrix" /\ DOMAIN second.new = FieldsOf("matrix")
  BY Fields, WriteFields DEF Write
<1>2. /\ Ready /\ Begin(writes, {}) /\ "mixes" \notin bad /\ "matrix" \notin bad
      /\ UNCHANGED <<vars, file, disk, up, bad, kept, shown>>
  BY DEF BeginMixRemoval, Writable
<1> HIDE DEF first, second
<1>3. writes \in Seq({first, second})
  OBVIOUS
<1>4. \A k \in 1 .. Len(writes) :
         /\ writes[k].file \in Files \ bad
         /\ DOMAIN writes[k].new = FieldsOf(writes[k].file)
         /\ writes[k].file = "sources" => k = 1 /\ RowsWrite(writes[k])
  BY <1>1, <1>2 DEF Files
<1> HIDE DEF writes
<1> QED
  BY <1>2, <1>3, <1>4, BeginKeeps

LEMMA AdoptKeeps ==
    ASSUME KInv, NEW id \in Ids, Adopt(id)
    PROVE  KInv'
<1> DEFINE moved == Write("matrix", Migrated(id))
           marked == Write("preferences", [offered |-> kept.offered \cup {NodeOf[id]}])
           then == IF present = {NodeOf[id]} /\ LegacyKeys # {} THEN <<moved>> ELSE <<>>
           last == IF Writable({"preferences"}) THEN <<marked>> ELSE <<>>
           writes == <<RowsWith(id)>> \o then \o last
<1>1. /\ moved.file = "matrix" /\ DOMAIN moved.new = FieldsOf("matrix")
      /\ marked.file = "preferences" /\ DOMAIN marked.new = FieldsOf("preferences")
  BY Fields, WriteFields DEF Write
<1>2. /\ Ready /\ Begin(writes, {NodeOf[id]}) /\ Writable({"sources", "mixes", "matrix"})
      /\ id \notin DOMAIN sources
      /\ UNCHANGED <<vars, file, disk, up, bad, kept, shown>>
  BY DEF Adopt
<1>3. RowsWrite(RowsWith(id))
  BY <1>2 DEF RowsWrite
<1> HIDE DEF moved, marked
<1>4. \/ writes = <<RowsWith(id)>> \/ writes = <<RowsWith(id), moved>>
      \/ "preferences" \notin bad /\ writes = <<RowsWith(id), marked>>
      \/ "preferences" \notin bad /\ writes = <<RowsWith(id), moved, marked>>
  <2>1. \/ writes = <<RowsWith(id)>> \o <<>> \o <<>>
        \/ writes = <<RowsWith(id)>> \o <<moved>> \o <<>>
        \/ "preferences" \notin bad /\ writes = <<RowsWith(id)>> \o <<>> \o <<marked>>
        \/ "preferences" \notin bad /\ writes = <<RowsWith(id)>> \o <<moved>> \o <<marked>>
    BY DEF Writable
  <2> HIDE DEF writes, then, last
  <2> QED
    BY <2>1, Lists
<1> HIDE DEF writes
<1> DEFINE W == {RowsWith(id), moved, marked}
<1>a. /\ <<RowsWith(id)>> \in Seq(W) /\ <<RowsWith(id), moved>> \in Seq(W)
      /\ <<RowsWith(id), marked>> \in Seq(W) /\ <<RowsWith(id), moved, marked>> \in Seq(W)
  BY Lists
<1> HIDE DEF W
<1>5. writes \in Seq(W)
  BY <1>4, <1>a
<1>6. \A k \in 1 .. Len(writes) :
         /\ writes[k].file \in Files \ bad
         /\ DOMAIN writes[k].new = FieldsOf(writes[k].file)
         /\ writes[k].file = "sources" => k = 1 /\ RowsWrite(writes[k])
  BY <1>1, <1>2, <1>3, <1>4, WriteFields DEF Files, Writable
<1> QED
  BY <1>2, <1>5, <1>6, BeginKeeps

LEMMA PublishKeeps ==
    ASSUME KInv, Publish
    PROVE  KInv' /\ [Next]_vars
<1> DEFINE w == job.writes[1]
<1>1. /\ up /\ Idle /\ GoodJob(job) /\ job # <<>> /\ job.writes # <<>>
  BY DEF KInv, Working, Publish
<1>2. /\ w = Head(job.writes) /\ 1 \in 1 .. Len(job.writes)
      /\ Len(Tail(job.writes)) = Len(job.writes) - 1
      /\ \A k \in 1 .. Len(Tail(job.writes)) : /\ Tail(job.writes)[k] = job.writes[k + 1]
                                              /\ k + 1 \in 1 .. Len(job.writes)
      /\ \E W : Tail(job.writes) \in Seq(W)
  BY <1>1 DEF GoodJob
<1>3. /\ w.file \in Files \ bad /\ DOMAIN w.new = FieldsOf(w.file)
      /\ w.file = "sources" => RowsWrite(w)
  BY <1>1, <1>2 DEF GoodJob, GoodWrite
<1>4. /\ Put(w.file, w.new)
      /\ w.file = "sources" => sources' = w.new.rows /\ order' = w.new.order
      /\ w.file # "sources" => UNCHANGED <<sources, order>>
      /\ job' = [job EXCEPT !.writes = Tail(@), !.saved = TRUE]
      /\ UNCHANGED loopVars /\ UNCHANGED <<up, bad, shown>>
  BY <1>2 DEF Publish
<1>5. [Next]_vars
  <2>1. CASE w.file # "sources"
    BY <1>4, <2>1 DEF vars, loopVars
  <2>2. CASE w.file = "sources"
    <3>1. PICK id \in Ids : \/ id \in DOMAIN sources /\ w = RowsWithout(id)
                            \/ id \notin DOMAIN sources /\ w = RowsWith(id)
      BY <1>3, <2>2 DEF RowsWrite
    <3>2. CASE id \in DOMAIN sources /\ w = RowsWithout(id)
      <4>1. RemoveSource(id)
        BY <1>1, <1>4, <2>2, <3>2 DEF RemoveSource, Saved, RowsWithout, Write
      <4> QED
        BY <4>1 DEF Next
    <3>3. CASE id \notin DOMAIN sources /\ w = RowsWith(id)
      <4>1. AddSource(id, NoGroup)
        <5> DEFINE below == Below(order, sources, id)
                   more == With(sources, id, NoGroup)
        <5>a. RowsWith(id) =
                Write("sources", [rows |-> Normalized(more, below), order |-> below])
          BY Zenon DEF RowsWith, With, Below
        <5> HIDE DEF more, below
        <5>1. w.new.rows = Normalized(more, below) /\ w.new.order = below
          BY <3>3, <5>a DEF Write
        <5>2. Idle /\ id \notin DOMAIN sources /\ UNCHANGED loopVars
              /\ sources' = Normalized(more, below) /\ order' = below
          BY ONLY <1>1, <1>4, <2>2, <3>3, <5>1
        <5> QED
          BY ONLY <5>2, Zenon DEF AddSource, Saved, more, below, With, Below
      <4> QED
        BY <4>1 DEF Next, Edits
    <3> QED
      BY <3>1, <3>2, <3>3
  <2> QED
    BY <2>1, <2>2
<1>6. IInv'
  BY <1>5, RowsStep DEF KInv
<1> HIDE DEF w
<1>7. /\ disk' = [x \in DiskFields |-> disk'[x]]
      /\ kept' = [x \in KeptFields |-> kept'[x]]
      /\ file' = [other \in Files |-> file'[other]]
      /\ \A x \in KeptFields : kept'[x] = disk'[x]
      /\ \A x \in DiskFields :
            disk'[x] = IF x \in FieldsOf(w.file) THEN w.new[x] ELSE disk[x]
      /\ \A other \in Files \ {w.file} : file'[other] = file[other]
  BY <1>1, <1>3, <1>4, PutFields DEF KInv
<1>8. disk'.rows = sources' /\ disk'.order = order'
  <2>1. CASE w.file = "sources"
    BY <1>4, <1>7, <2>1, Fields DEF DiskFields
  <2>2. CASE w.file # "sources"
    <3>1. "rows" \notin FieldsOf(w.file) /\ "order" \notin FieldsOf(w.file)
      BY <1>3, <2>2, Fields DEF Files
    <3> QED
      BY <1>4, <1>7, <2>2, <3>1 DEF DiskFields, KInv, Agree
  <2> QED
    BY <2>1, <2>2
<1>9. Shape'
  BY <1>1, <1>4, <1>7 DEF KInv, Shape
<1>10. Agree'
  BY <1>7, <1>8 DEF Agree
<1>11. BrokenStay'
  BY <1>3, <1>4, <1>7 DEF KInv, BrokenStay
<1>12. /\ job'.saved = TRUE /\ job'.writes = Tail(job.writes)
       /\ job' = [writes |-> job'.writes, marks |-> job'.marks,
                  saved |-> job'.saved, failed |-> job'.failed]
  BY <1>1, <1>4 DEF GoodJob
<1>13. Given'
  BY <1>12 DEF Given
<1>14. ASSUME NEW k \in 1 .. Len(Tail(job.writes))
       PROVE  GoodWrite(job, k)'
  BY <1>1, <1>2, <1>4, <1>12 DEF GoodJob, GoodWrite
<1>15. Working'
  BY <1>1, <1>2, <1>4, <1>12, <1>14 DEF Working, GoodJob, Idle, loopVars
<1> QED
  BY <1>5, <1>6, <1>9, <1>10, <1>11, <1>13, <1>15 DEF KInv

LEMMA PublishFailsKeeps ==
    ASSUME KInv, PublishFails
    PROVE  KInv'
<1>1. /\ up /\ Idle /\ GoodJob(job) /\ job # <<>> /\ job.writes # <<>>
  BY DEF KInv, Working, PublishFails
<1>2. /\ UNCHANGED <<vars, file, disk, up, bad, kept, shown>>
      /\ job' = [job EXCEPT !.writes = IF job.saved THEN Tail(@) ELSE <<>>, !.failed = TRUE]
  BY DEF PublishFails
<1>3. IInv' /\ Idle'
  BY <1>1, <1>2, RowsStay DEF KInv
<1>4. Shape' /\ Agree' /\ BrokenStay'
  BY <1>2 DEF KInv, Shape, Agree, BrokenStay, vars
<1>5. /\ job'.saved = job.saved
      /\ job'.writes = IF job.saved THEN Tail(job.writes) ELSE <<>>
      /\ job' = [writes |-> job'.writes, marks |-> job'.marks,
                 saved |-> job'.saved, failed |-> job'.failed]
  BY <1>1, <1>2 DEF GoodJob
<1>a. job' # <<>>
  <2>1. "writes" \in DOMAIN job'
    BY <1>5
  <2>2. DOMAIN <<>> = {}
    OBVIOUS
  <2> QED
    BY <2>1, <2>2
<1>6. Given'
  BY <1>1, <1>2, <1>5, <1>a DEF KInv, Given, Desired, vars
<1>7. Working'
  <2>1. CASE job.saved
    <3>1. /\ \A k \in 1 .. Len(Tail(job.writes)) : /\ Tail(job.writes)[k] = job.writes[k + 1]
                                                  /\ k + 1 \in 1 .. Len(job.writes)
          /\ \E W : Tail(job.writes) \in Seq(W)
      BY <1>1 DEF GoodJob
    <3>2. ASSUME NEW k \in 1 .. Len(Tail(job.writes))
          PROVE  GoodWrite(job, k)'
      BY <1>1, <1>2, <1>5, <2>1, <3>1 DEF GoodJob, GoodWrite
    <3> QED
      <4>1. job'.writes = Tail(job.writes) /\ job'.saved = job.saved /\ job.saved \in BOOLEAN
        BY <1>1, <1>5, <2>1 DEF GoodJob
      <4>2. GoodJob(job)'
        BY <1>5, <3>1, <3>2, <4>1 DEF GoodJob
      <4> QED
        BY <1>1, <1>2, <1>3, <4>2 DEF Working
  <2>2. CASE ~job.saved
    <3>1. job'.writes = <<>>
      BY <1>5, <2>2
    <3>2. \E W : job'.writes \in Seq(W)
      BY <3>1
    <3>3. \A k \in 1 .. Len(job'.writes) : GoodWrite(job, k)'
      BY <3>1
    <3> QED
      BY <1>1, <1>2, <1>3, <1>5, <3>2, <3>3 DEF Working, GoodJob
  <2> QED
    BY <2>1, <2>2
<1> QED
  BY <1>3, <1>4, <1>6, <1>7 DEF KInv

\* A command of several writes ends: what was written is given on, also when a
\* later write failed.
LEMMA FinishKeeps ==
    ASSUME KInv, Finish
    PROVE  KInv'
<1>1. up /\ Idle /\ GoodJob(job) /\ job # <<>>
  BY DEF KInv, Working, Finish
<1>2. /\ UNCHANGED <<vars, file, disk, up, bad, kept>> /\ job' = <<>>
      /\ shown' = IF job.saved THEN [Desired EXCEPT !.offered = @ \cup job.marks] ELSE shown
  BY DEF Finish, GivesOn
<1>3. IInv'
  BY <1>2, RowsStay DEF KInv
<1>4. Desired' = Desired
  BY <1>2 DEF Desired, vars
<1>5. /\ shown' = [x \in DiskFields |-> shown'[x]]
      /\ \A x \in DiskFields \ {"offered"} : shown'[x] = Desired[x]
      /\ kept.offered \subseteq shown'.offered
  <2>1. CASE job.saved
    BY <1>2, <2>1 DEF Desired, DiskFields
  <2>2. CASE ~job.saved
    BY <1>1, <1>2, <2>2 DEF KInv, Given, Shape
  <2> QED
    BY <2>1, <2>2
<1>6. Shape'
  BY <1>2, <1>5 DEF KInv, Shape
<1>7. Working'
  BY <1>2 DEF Working
<1>8. Agree' /\ BrokenStay'
  BY <1>2 DEF KInv, Agree, BrokenStay, vars
<1>9. Given'
  BY <1>2, <1>4, <1>5 DEF Given
<1> QED
  BY <1>3, <1>6, <1>7, <1>8, <1>9 DEF KInv

\* A start reads the rows as they were saved: nothing is left to normalize.
LEMMA StartKeeps ==
    ASSUME KInv, Start
    PROVE  KInv' /\ UNCHANGED vars
<1>1. /\ ~up /\ up' = TRUE /\ job' = job /\ disk' = disk
      /\ sources' = Normalized(disk.rows, disk.order) /\ order' = disk.order
      /\ kept' = Updated(kept, disk) /\ shown' = Desired' /\ UNCHANGED loopVars
  BY DEF Start
<1>2. job = <<>>
  BY <1>1 DEF KInv, Working
<1>3. Normalized(sources, order) = sources
  BY NothingToNormalize DEF KInv, IInv, TypeOK, Settled, Irreflexive
<1>4. UNCHANGED vars
  BY <1>1, <1>3 DEF KInv, Agree, vars, loopVars
<1>5. IInv'
  BY <1>4, RowsStay DEF KInv
<1>6. /\ kept' = [x \in KeptFields |-> kept'[x]]
      /\ \A x \in KeptFields : kept'[x] = disk'[x]
  BY <1>1 DEF KInv, Shape, Updated, KeptFields, DiskFields
<1>7. /\ file' = [name \in Files |-> file'[name]]
      /\ \A name \in bad' : name \in Files /\ file'[name] # "there"
  <2>1. \A name \in Broken : name \in Files /\ file[name] # "there"
    BY DEF Broken
  <2>2. \/ file' = file /\ bad' = Broken
        \/ /\ file["mixes"] = "missing" /\ file' = [file EXCEPT !["mixes"] = "there"]
           /\ bad' = Broken
        \/ file["mixes"] = "missing" /\ file' = file /\ bad' = Broken \cup {"mixes"}
    BY DEF Start
  <2>3. file["mixes"] = "missing" => "mixes" \notin Broken
    BY DEF Broken
  <2> QED
    BY <2>1, <2>2, <2>3 DEF KInv, Shape, Files
<1>8. Shape'
  BY <1>1, <1>6, <1>7, DesiredFields DEF KInv, Shape
<1>9. Working'
  BY <1>1, <1>2 DEF Working
<1>10. Agree'
  BY <1>1, <1>4, <1>6 DEF KInv, Agree, vars
<1>11. Given'
  BY <1>1, DesiredFields DEF Given
<1>12. BrokenStay'
  BY <1>7 DEF BrokenStay
<1> QED
  BY <1>4, <1>5, <1>8, <1>9, <1>10, <1>11, <1>12 DEF KInv

LEMMA StopKeeps ==
    ASSUME KInv, Stop
    PROVE  KInv' /\ UNCHANGED vars
<1>1. /\ Ready /\ up' = FALSE /\ UNCHANGED vars /\ UNCHANGED <<bad, shown, job>>
  BY DEF Stop
<1>2. /\ IInv' /\ disk'.rows = sources' /\ disk'.order = order'
      /\ disk' = [x \in DiskFields |-> disk'[x]]
      /\ kept' = [x \in KeptFields |-> kept'[x]]
      /\ file' = [other \in Files |-> file'[other]]
  <2>1. CASE "preferences" \notin bad /\ Put("preferences", [offered |-> shown.offered])
    BY <1>1, <2>1, PreferencesKeep DEF Ready
  <2>2. CASE UNCHANGED <<file, disk, kept>>
    BY <1>1, <2>2, RowsStay DEF KInv, Shape, Agree, vars
  <2> QED
    BY <2>1, <2>2 DEF Stop, Writable
<1>3. Shape'
  BY <1>1, <1>2 DEF KInv, Shape
<1>4. Working' /\ Agree' /\ Given' /\ BrokenStay'
  BY <1>1, <1>2 DEF Working, Agree, Given, BrokenStay, Ready
<1> QED
  BY <1>1, <1>2, <1>3, <1>4 DEF KInv

LEMMA CrashKeeps ==
    ASSUME KInv, Crash
    PROVE  KInv' /\ [Next]_vars
<1>1. /\ up' = FALSE /\ job' = <<>> /\ UNCHANGED <<file, disk, bad, kept, shown>>
      /\ AbandonPatches \/ UNCHANGED vars
  BY DEF Crash
<1>2. [Next]_vars /\ UNCHANGED <<sources, order>>
  BY <1>1 DEF Next, AbandonPatches, vars
<1>3. IInv'
  BY <1>2, RowsStep DEF KInv
<1>4. Shape'
  BY <1>1 DEF KInv, Shape
<1>5. Working' /\ Agree' /\ Given' /\ BrokenStay'
  BY <1>1, <1>2 DEF KInv, Working, Agree, Given, BrokenStay
<1> QED
  BY <1>2, <1>3, <1>4, <1>5 DEF KInv

\* Nothing of the files moves when a capture comes or goes.
LEMMA Quiet ==
    ASSUME KInv, UNCHANGED <<vars, file, disk, up, bad, kept, shown, job>>
    PROVE  KInv'
<1>1. IInv' /\ (Idle => Idle')
  BY RowsStay DEF KInv
<1>2. Shape' /\ Agree' /\ BrokenStay'
  BY DEF KInv, Shape, Agree, BrokenStay, vars
<1>3. Given'
  BY DEF KInv, Given, Desired, vars
<1>4. \A w : RowsWrite(w) => RowsWrite(w)'
  BY RowsWriteStays DEF vars
<1>5. ASSUME job # <<>>, NEW k \in 1 .. Len(job.writes)
      PROVE  GoodWrite(job, k)'
  <2>1. GoodWrite(job, k)
    BY <1>5 DEF KInv, Working, GoodJob
  <2> QED
    BY <1>4, <2>1 DEF GoodWrite
<1>6. Working'
  BY <1>1, <1>5 DEF KInv, Working, GoodJob
<1> QED
  BY <1>1, <1>2, <1>3, <1>6 DEF KInv

LEMMA StoresBegin == StoresInit => KInv
<1> SUFFICES ASSUME StoresInit PROVE KInv
  OBVIOUS
<1>1. IInv
  BY RowsBegin DEF StoresInit
<1>2. Shape
  BY DEF StoresInit, Shape, DiskFields, KeptFields
<1>3. Working /\ Agree /\ Given /\ BrokenStay
  BY DEF StoresInit, Working, Agree, Given, BrokenStay, Init
<1> QED
  BY <1>1, <1>2, <1>3 DEF KInv

LEMMA StoresStep ==
    ASSUME KInv, [StoresNext]_storesVars
    PROVE  KInv' /\ [Next]_vars
<1>1. CASE SaveRows
  BY <1>1, SaveRowsKeeps
<1>2. CASE BeginScene \/ GoOn \/ GiveUp
  BY <1>2, LoopKeeps
<1>3. ASSUME NEW id \in Ids, NEW mix \in Mixes, NEW level \in Levels, SetCell(id, mix, level)
      PROVE  KInv' /\ UNCHANGED vars
  BY <1>3, SetCellKeeps DEF SetCell
<1>4. ASSUME NEW mix \in Mixes, AddMix(mix) \/ BeginMixRemoval(mix)
      PROVE  KInv' /\ UNCHANGED vars
  BY <1>4, AddMixKeeps, BeginMixRemovalKeeps DEF AddMix, BeginMixRemoval
<1>5. CASE SetPreferences
  BY <1>5, SetPreferencesKeeps DEF SetPreferences
<1>6. ASSUME NEW id \in Ids, BeginRemoval(id) \/ Adopt(id)
      PROVE  KInv' /\ UNCHANGED vars
  BY <1>6, BeginRemovalKeeps, AdoptKeeps DEF BeginRemoval, Adopt
<1>7. CASE Publish
  BY <1>7, PublishKeeps
<1>8. CASE PublishFails \/ Finish
  BY <1>8, PublishFailsKeeps, FinishKeeps DEF PublishFails, Finish
<1>9. CASE Start
  BY <1>9, StartKeeps
<1>10. CASE Stop
  BY <1>10, StopKeeps
<1>11. CASE Crash
  BY <1>11, CrashKeeps
<1>12. ASSUME NEW node \in Captures, Plug(node)
       PROVE  KInv' /\ UNCHANGED vars
  BY <1>12, Quiet DEF Plug
<1>13. CASE UNCHANGED storesVars
  BY <1>13, Quiet DEF storesVars, storeVars
<1> QED
  BY <1>1, <1>2, <1>3, <1>4, <1>5, <1>6, <1>7, <1>8, <1>9, <1>10, <1>11, <1>12, <1>13
     DEF StoresNext

LEMMA StoresInvariant == StoresSpec => []KInv
  BY StoresBegin, StoresStep, PTL DEF StoresSpec

\* What is saved, refused, failed or lost in a crash takes the rows only where a
\* command may take them: the stores implement the decisions about rows.
THEOREM StoresKeepTheRules == StoresSpec => Spec
<1>1. StoresInit => Init
  BY DEF StoresInit
<1> QED
  BY <1>1, StoresStep, StoresInvariant, PTL DEF StoresSpec, Spec

\* Between commands the files hold what the program works with and shows, and
\* none that could not be read was written.
THEOREM FilesHoldWhatIsShown == StoresSpec => []Durable
<1>1. ASSUME KInv PROVE Durable
  <2>1. ASSUME up, job = <<>>
        PROVE  Updated(kept, disk) = kept
    BY <1>1, <2>1 DEF KInv, Shape, Agree, Updated, KeptFields, DiskFields
  <2>2. ASSUME up, job = <<>>
        PROVE  Updated(Desired, [offered |-> shown.offered]) = shown
    <3>1. DOMAIN Desired = DiskFields
      BY DEF Desired, DiskFields
    <3>2. \A x \in DiskFields \ {"offered"} : shown[x] = Desired[x]
      BY <1>1, <2>2 DEF KInv, Given
    <3> QED
      BY <1>1, <3>1, <3>2 DEF KInv, Shape, Updated, DiskFields
  <2> QED
    BY <1>1, <2>1, <2>2 DEF KInv, Agree, Given, BrokenStay, Durable
<1> QED
  BY <1>1, StoresInvariant, PTL

\* So at most one source of a group is open, saving overrules no decision, and
\* switching a group visits all its members, whatever fails or dies.
THEOREM RulesSurvive == StoresSpec => []AtMostOneOpen /\ AsDecided /\ []SwitchVisitsAll
  BY StoresKeepTheRules, GroupsStayExclusive, DecisionsStand, SwitchTakesTurns, PTL

-----------------------------------------------------------------------------
(* The sends of what stays.                                                *)

\* The rows and the mixes on disk when the turn of the k-th write comes.
RowsAt(writes, k, d) ==
    IF k > 1 /\ writes[1].file = "sources" THEN writes[1].new.rows ELSE d.rows

MixesAt(writes, k, d) ==
    IF k > 1 /\ writes[1].file = "mixes" THEN writes[1].new.mixes ELSE d.mixes

\* The k-th write takes no send of a row and a mix that are there at its turn,
\* but those of the capture that is adopted.
SparesSends(writes, k, d, marks) ==
    \A id \in DOMAIN RowsAt(writes, k, d), mix \in MixesAt(writes, k, d) :
        Send(writes[k].new, id, mix) # Send(d, id, mix) => NodeOf[id] \in marks

\* The rows or the mixes are written first, each file once.
RemovalsFirst(writes, saved) ==
    \A k \in 1 .. Len(writes) :
        /\ writes[k].file \in {"sources", "mixes"} => k = 1 /\ ~saved
        /\ \A l \in 1 .. Len(writes) : k # l => writes[k].file # writes[l].file

SendsSpared ==
    job # <<>> =>
        /\ RemovalsFirst(job.writes, job.saved)
        /\ \A k \in 1 .. Len(job.writes) :
              job.writes[k].file = "matrix" => SparesSends(job.writes, k, disk, job.marks)

\* A command of several writes begins.
LEMMA BeginSpares ==
    ASSUME NEW writes, NEW marks, Begin(writes, marks), disk' = disk,
           RemovalsFirst(writes, FALSE),
           \A k \in 1 .. Len(writes) :
              writes[k].file = "matrix" => SparesSends(writes, k, disk, marks)
    PROVE  SendsSpared'
<1>1. job'.writes = writes /\ job'.marks = marks /\ job'.saved = FALSE
  BY DEF Begin
<1>2. disk' = disk
  OBVIOUS
<1> QED
  BY <1>1, <1>2 DEF SendsSpared, SparesSends, RowsAt, MixesAt, RemovalsFirst, Send

LEMMA BeginRemovalSpares ==
    ASSUME KInv, NEW id \in Ids, BeginRemoval(id)
    PROVE  SendsSpared'
<1> DEFINE rows == RowsWithout(id)
           sends == SendsWithout(id)
           forgets == Write("preferences", [offered |-> shown.offered \ {NodeOf[id]}])
           writes == RemovalWrites(id)
<1>1. \/ writes = <<rows, sends>>
      \/ writes = <<rows, sends, forgets>>
  <2>1. CASE Preferences(id) = <<>>
    BY <2>1, Lists DEF RemovalWrites
  <2>2. CASE Preferences(id) # <<>>
    BY <2>2, Lists DEF RemovalWrites, Preferences
  <2> QED
    BY <2>1, <2>2
<1>2. rows.file = "sources" /\ sends.file = "matrix" /\ forgets.file = "preferences"
  BY DEF RowsWithout, SendsWithout, Write
<1>3. DOMAIN rows.new.rows = DOMAIN sources \ {id}
  BY DEF RowsWithout, Write, Normalized
<1>4. sends.new.sends
        = [key \in {k \in DOMAIN kept.sends : k[1] # id} |-> kept.sends[key]]
  BY DEF SendsWithout, Sends, Write
<1>5. Begin(writes, {}) /\ disk' = disk /\ kept.sends = disk.sends
  BY DEF BeginRemoval, Ready, KInv, Agree, KeptFields
<1> HIDE DEF rows, sends, forgets, writes
<1>6. RemovalsFirst(writes, FALSE)
  BY <1>1, <1>2 DEF RemovalsFirst
<1>7. ASSUME NEW k \in 1 .. Len(writes), writes[k].file = "matrix"
      PROVE  SparesSends(writes, k, disk, {})
  <2>1. k = 2 /\ writes[1] = rows /\ writes[k] = sends
    BY <1>1, <1>2, <1>7
  <2>2. RowsAt(writes, k, disk) = rows.new.rows
    BY <1>2, <2>1 DEF RowsAt
  <2>3. ASSUME NEW other \in DOMAIN sources \ {id}, NEW mix
        PROVE  Send(sends.new, other, mix) = Send(disk, other, mix)
    BY <1>4, <1>5 DEF Send
  <2> QED
    BY <1>3, <2>1, <2>2, <2>3 DEF SparesSends
<1> QED
  BY <1>5, <1>6, <1>7, BeginSpares

LEMMA BeginMixRemovalSpares ==
    ASSUME KInv, NEW mix \in Mixes, BeginMixRemoval(mix)
    PROVE  SendsSpared'
<1> DEFINE mixes == Write("mixes", [mixes |-> kept.mixes \ {mix}])
           sends == Write("matrix", Sends({key \in DOMAIN kept.sends : key[2] # mix}))
           writes == <<mixes, sends>>
<1>1. /\ mixes.file = "mixes" /\ sends.file = "matrix"
      /\ mixes.new.mixes = kept.mixes \ {mix}
  BY DEF Write
<1>2. sends.new.sends
        = [key \in {k \in DOMAIN kept.sends : k[2] # mix} |-> kept.sends[key]]
  BY DEF Sends, Write
<1>3. Begin(writes, {}) /\ disk' = disk /\ kept.sends = disk.sends
  BY DEF BeginMixRemoval, Ready, KInv, Agree, KeptFields
<1> HIDE DEF mixes, sends
<1>4. RemovalsFirst(writes, FALSE)
  BY <1>1 DEF RemovalsFirst
<1>5. ASSUME NEW k \in 1 .. Len(writes), writes[k].file = "matrix"
      PROVE  SparesSends(writes, k, disk, {})
  <2>1. k = 2 /\ writes[1] = mixes /\ writes[k] = sends
    BY <1>1, <1>5
  <2>2. MixesAt(writes, k, disk) = kept.mixes \ {mix}
    BY <1>1, <2>1 DEF MixesAt
  <2>3. ASSUME NEW id, NEW other \in kept.mixes \ {mix}
        PROVE  Send(sends.new, id, other) = Send(disk, id, other)
    BY <1>2, <1>3 DEF Send
  <2> QED
    BY <2>1, <2>2, <2>3 DEF SparesSends
<1> HIDE DEF writes
<1> QED
  BY <1>3, <1>4, <1>5, BeginSpares

LEMMA AdoptSpares ==
    ASSUME KInv, Ranked, NEW id \in Ids, Adopt(id)
    PROVE  SendsSpared'
<1> DEFINE rows == RowsWith(id)
           moved == Write("matrix", Migrated(id))
           marked == Write("preferences", [offered |-> kept.offered \cup {NodeOf[id]}])
           then == IF present = {NodeOf[id]} /\ LegacyKeys # {} THEN <<moved>> ELSE <<>>
           last == IF Writable({"preferences"}) THEN <<marked>> ELSE <<>>
           writes == <<rows>> \o then \o last
<1>1. /\ Begin(writes, {NodeOf[id]}) /\ disk' = disk /\ kept.sends = disk.sends
  BY DEF Adopt, Ready, KInv, Agree, KeptFields
<1>2. rows.file = "sources" /\ moved.file = "matrix" /\ marked.file = "preferences"
  BY DEF RowsWith, Write
<1>3. DOMAIN rows.new.rows = DOMAIN sources \cup {id}
  BY DEF RowsWith, Write, Normalized
<1>4. /\ moved.new = Migrated(id)
      /\ Legacy \notin DOMAIN sources \cup {id}
  BY StoresAssumption DEF Write, Ranked
<1>5. ASSUME NEW other \in DOMAIN sources \cup {id}, NEW mix, other # id
      PROVE  Send(moved.new, other, mix) = Send(disk, other, mix)
  <2> DEFINE key == <<other, mix>>
             keys == {<<id, k[2]>> : k \in {l \in LegacyKeys : l[2] \in kept.mixes}}
  <2>1. key \notin LegacyKeys
    BY <1>4 DEF LegacyKeys
  <2>2. key \notin keys
    BY <1>5
  <2>3. Migrated(id).sends
          = [x \in (DOMAIN kept.sends \ LegacyKeys) \cup
                     {<<id, k[2]>> : k \in {l \in LegacyKeys : l[2] \in kept.mixes}} |->
               IF x \in {<<id, k[2]>> : k \in {l \in LegacyKeys : l[2] \in kept.mixes}}
               THEN kept.sends[<<Legacy, x[2]>>] ELSE kept.sends[x]]
    BY Zenon DEF Migrated
  <2>4. Migrated(id).sends
          = [x \in (DOMAIN kept.sends \ LegacyKeys) \cup keys |->
               IF x \in keys THEN kept.sends[<<Legacy, x[2]>>] ELSE kept.sends[x]]
    BY <2>3
  <2> HIDE DEF keys
  <2>5. /\ key \in DOMAIN Migrated(id).sends <=> key \in DOMAIN kept.sends
        /\ key \in DOMAIN kept.sends => Migrated(id).sends[key] = kept.sends[key]
    BY <2>1, <2>2, <2>4
  <2> QED
    BY <1>1, <1>4, <2>5 DEF Send
<1> HIDE DEF rows, moved, marked
<1>6. \/ writes = <<rows>> \/ writes = <<rows, moved>>
      \/ writes = <<rows, marked>> \/ writes = <<rows, moved, marked>>
  <2>1. \/ writes = <<rows>> \o <<>> \o <<>>
        \/ writes = <<rows>> \o <<moved>> \o <<>>
        \/ writes = <<rows>> \o <<>> \o <<marked>>
        \/ writes = <<rows>> \o <<moved>> \o <<marked>>
    OBVIOUS
  <2> HIDE DEF writes, then, last
  <2> QED
    BY <2>1, Lists
<1> HIDE DEF writes, then, last
<1>7. RemovalsFirst(writes, FALSE)
  BY <1>2, <1>6 DEF RemovalsFirst
<1>8. ASSUME NEW k \in 1 .. Len(writes), writes[k].file = "matrix"
      PROVE  SparesSends(writes, k, disk, {NodeOf[id]})
  <2>1. k = 2 /\ writes[1] = rows /\ writes[k] = moved
    BY <1>2, <1>6, <1>8
  <2>2. RowsAt(writes, k, disk) = rows.new.rows
    BY <1>2, <2>1 DEF RowsAt
  <2> QED
    BY <1>3, <1>5, <2>1, <2>2 DEF SparesSends
<1> QED
  BY <1>1, <1>7, <1>8, BeginSpares

\* A write is done, or given up: what remains still spares the sends.
LEMMA TailSpares ==
    ASSUME KInv, SendsSpared, Publish \/ PublishFails
    PROVE  SendsSpared'
<1>1. /\ GoodJob(job) /\ job # <<>> /\ job.writes # <<>> /\ up
  BY DEF KInv, Working, Publish, PublishFails
<1>2. /\ job'.marks = job.marks
      /\ \/ Publish /\ job'.saved = TRUE /\ job'.writes = Tail(job.writes)
         \/ /\ PublishFails /\ job.saved /\ job'.saved = TRUE /\ disk' = disk
            /\ job'.writes = Tail(job.writes)
         \/ PublishFails /\ job'.writes = <<>>
  BY <1>1 DEF GoodJob, Publish, PublishFails
<1>3. CASE job'.writes = <<>>
  BY <1>3 DEF SendsSpared, RemovalsFirst
<1>4. CASE job'.writes = Tail(job.writes) /\ job'.saved = TRUE
  <2> DEFINE w == job.writes[1]
  <2>1. /\ 1 \in 1 .. Len(job.writes) /\ Len(job'.writes) = Len(job.writes) - 1
        /\ Head(job.writes) = w
        /\ \A k \in 1 .. Len(job'.writes) : /\ job'.writes[k] = job.writes[k + 1]
                                            /\ k + 1 \in 1 .. Len(job.writes)
                                            /\ k + 1 # 1 /\ k + 1 > 1 /\ k \in Nat
    BY <1>1, <1>4 DEF GoodJob
  <2>2. ASSUME NEW k \in 1 .. Len(job'.writes)
        PROVE  /\ job'.writes[k].file \notin {"sources", "mixes"}
               /\ \A l \in 1 .. Len(job'.writes) : k # l => job'.writes[k].file # job'.writes[l].file
    <3>1. job'.writes[k] = job.writes[k + 1] /\ k + 1 \in 1 .. Len(job.writes) /\ k + 1 # 1
      BY <2>1
    <3>2. \A i, l \in 1 .. Len(job.writes) :
             /\ job.writes[i].file \in {"sources", "mixes"} => i = 1
             /\ i # l => job.writes[i].file # job.writes[l].file
      BY <1>1 DEF SendsSpared, RemovalsFirst
    <3>3. ASSUME NEW l \in 1 .. Len(job'.writes), k # l
          PROVE  job'.writes[k].file # job'.writes[l].file
      <4>1. /\ job'.writes[l] = job.writes[l + 1] /\ l + 1 \in 1 .. Len(job.writes)
            /\ k + 1 # l + 1
        BY <2>1, <3>3
      <4> QED
        BY <3>1, <3>2, <4>1
    <3> QED
      BY <3>1, <3>2, <3>3
  <2>4. ASSUME NEW k \in 1 .. Len(job'.writes), job'.writes[k].file = "matrix"
        PROVE  SparesSends(job'.writes, k, disk', job'.marks)
    <3>1. /\ job.writes[k + 1].file = "matrix" /\ job'.writes[k] = job.writes[k + 1]
          /\ w.file # "matrix"
          /\ SparesSends(job.writes, k + 1, disk, job.marks)
      BY <1>1, <2>1, <2>4 DEF SendsSpared, RemovalsFirst
    <3>2. /\ RowsAt(job'.writes, k, disk') = disk'.rows
          /\ MixesAt(job'.writes, k, disk') = disk'.mixes
      <4>1. k > 1 => 1 \in 1 .. Len(job'.writes)
        BY <2>1
      <4> QED
        BY <2>2, <4>1 DEF RowsAt, MixesAt
    <3>3. /\ disk'.rows = RowsAt(job.writes, k + 1, disk)
          /\ disk'.mixes = MixesAt(job.writes, k + 1, disk)
          /\ disk'.sends = disk.sends
      <4>1. CASE Publish
        <5>1. /\ w.file \in Files /\ DOMAIN w.new = FieldsOf(w.file) /\ Put(w.file, w.new)
          BY <1>1, <2>1, <4>1 DEF GoodJob, GoodWrite, Publish
        <5>2. \A x \in DiskFields : disk'[x] = IF x \in FieldsOf(w.file) THEN w.new[x] ELSE disk[x]
          BY <1>1, <5>1, PutFields DEF KInv
        <5>3. /\ "rows" \in FieldsOf(w.file) <=> w.file = "sources"
              /\ "mixes" \in FieldsOf(w.file) <=> w.file = "mixes"
              /\ "sends" \in FieldsOf(w.file) <=> w.file = "matrix"
          BY <5>1, Fields DEF Files
        <5>4. {"rows", "mixes", "sends"} \subseteq DiskFields
          BY DEF DiskFields
        <5>5. /\ disk'["rows"] = IF w.file = "sources" THEN w.new["rows"] ELSE disk["rows"]
              /\ disk'["mixes"] = IF w.file = "mixes" THEN w.new["mixes"] ELSE disk["mixes"]
              /\ disk'["sends"] = disk["sends"]
          BY <3>1, <5>2, <5>3, <5>4
        <5> QED
          BY <2>1, <5>5 DEF RowsAt, MixesAt
      <4>2. CASE job.saved /\ disk' = disk
        <5>1. w.file \notin {"sources", "mixes"}
          BY <1>1, <2>1, <4>2 DEF SendsSpared, RemovalsFirst
        <5> QED
          BY <4>2, <5>1 DEF RowsAt, MixesAt
      <4>3. CASE job'.writes = <<>>
        BY <4>3
      <4> QED
        BY <1>2, <4>1, <4>2, <4>3
    <3> QED
      BY <1>2, <3>1, <3>2, <3>3 DEF SparesSends, Send
  <2>5. RemovalsFirst(job.writes, job.saved)'
    BY <1>4, <2>2 DEF RemovalsFirst
  <2>6. \A k \in 1 .. Len(job'.writes) :
           job'.writes[k].file = "matrix" => SparesSends(job.writes, k, disk, job.marks)'
    BY <2>4 DEF SparesSends, RowsAt, MixesAt, Send
  <2> QED
    BY <2>5, <2>6 DEF SendsSpared
<1> QED
  BY <1>2, <1>3, <1>4, <1>1

LEMMA SendsSparedStep ==
    ASSUME KInv, Ranked, SendsSpared, [StoresNext]_storesVars
    PROVE  SendsSpared'
<1>1. ASSUME job' = <<>>
      PROVE  SendsSpared'
  BY <1>1 DEF SendsSpared
<1>2. ASSUME UNCHANGED <<job, disk>>
      PROVE  SendsSpared'
  BY <1>2 DEF SendsSpared, SparesSends, RowsAt, MixesAt, RemovalsFirst, Send
<1>3. CASE SaveRows \/ SetPreferences \/ Stop
  BY <1>1, <1>3 DEF SaveRows, SetPreferences, Stop, Ready
<1>4. CASE BeginScene \/ GoOn \/ GiveUp
  BY <1>2, <1>4 DEF BeginScene, GoOn, GiveUp, storeVars
<1>5. ASSUME NEW id \in Ids, NEW mix \in Mixes, NEW level \in Levels, SetCell(id, mix, level)
      PROVE  SendsSpared'
  BY <1>1, <1>5 DEF SetCell, Ready
<1>6. ASSUME NEW mix \in Mixes, AddMix(mix)
      PROVE  SendsSpared'
  BY <1>1, <1>6 DEF AddMix, Ready
<1>7. CASE Finish \/ Crash
  BY <1>1, <1>7 DEF Finish, Crash
<1>8. CASE Start
  BY <1>2, <1>8 DEF Start
<1>9. ASSUME NEW node \in Captures, Plug(node)
      PROVE  SendsSpared'
  BY <1>2, <1>9 DEF Plug
<1>10. CASE UNCHANGED storesVars
  BY <1>2, <1>10 DEF storesVars, storeVars
<1> QED
  BY <1>3, <1>4, <1>5, <1>6, <1>7, <1>8, <1>9, <1>10, BeginRemovalSpares,
     BeginMixRemovalSpares, AdoptSpares, TailSpares DEF StoresNext

\* No removal, adoption, failure or crash takes a send of a row and a mix that
\* stay: a removal writes what goes before it writes the sends, and stops when
\* that write fails.
THEOREM SendsOutliveRemovals == StoresSpec => SendsKept
<1> DEFINE Moves ==
              \A id \in DOMAIN disk.rows \cap DOMAIN disk'.rows, mix \in disk.mixes \cap disk'.mixes :
                 Send(disk, id, mix) # Send(disk', id, mix) =>
                    \/ \E level \in Levels : SetCell(id, mix, level)
                    \/ job # <<>> /\ NodeOf[id] \in job.marks
<1>0. ASSUME KInv, SendsSpared, [StoresNext]_storesVars
      PROVE  Moves
  <2>1. ASSUME disk'.sends = disk.sends
        PROVE  Moves
    BY <2>1 DEF Send
  <2>2. CASE Publish
    <3> DEFINE w == job.writes[1]
    <3>1. /\ up /\ GoodJob(job) /\ job # <<>> /\ 1 \in 1 .. Len(job.writes) /\ w = Head(job.writes)
      BY <1>0, <2>2 DEF KInv, Working, GoodJob, Publish
    <3>2. w.file \in Files /\ DOMAIN w.new = FieldsOf(w.file) /\ Put(w.file, w.new)
      BY <2>2, <3>1 DEF GoodJob, GoodWrite, Publish
    <3>3. disk'["sends"] = IF "sends" \in FieldsOf(w.file) THEN w.new["sends"] ELSE disk["sends"]
      BY <1>0, <3>1, <3>2, PutFields DEF KInv, DiskFields
    <3>4. CASE w.file # "matrix"
      <4>1. "sends" \notin FieldsOf(w.file)
        BY <3>2, <3>4, Fields DEF Files
      <4> QED
        BY <2>1, <3>3, <4>1
    <3>5. CASE w.file = "matrix"
      <4>1. disk'.sends = w.new.sends
        BY <3>3, <3>5, Fields
      <4>2. SparesSends(job.writes, 1, disk, job.marks)
        BY <1>0, <3>1, <3>5 DEF SendsSpared
      <4>3. RowsAt(job.writes, 1, disk) = disk.rows /\ MixesAt(job.writes, 1, disk) = disk.mixes
        BY DEF RowsAt, MixesAt
      <4> QED
        BY <3>1, <4>1, <4>2, <4>3 DEF SparesSends, Send
    <3> QED
      BY <3>4, <3>5
  <2>3. ASSUME NEW id \in Ids, NEW mix \in Mixes, NEW level \in Levels, SetCell(id, mix, level)
        PROVE  Moves
    <3>1. /\ Put("matrix", [sends |-> [key \in DOMAIN kept.sends \cup {<<id, mix>>} |->
                                   IF key = <<id, mix>> THEN level ELSE kept.sends[key]]])
          /\ kept.sends = disk.sends /\ Shape
      BY <1>0, <2>3 DEF SetCell, Ready, KInv, Agree, KeptFields
    <3>2. disk'.sends = [key \in DOMAIN disk.sends \cup {<<id, mix>>} |->
                           IF key = <<id, mix>> THEN level ELSE disk.sends[key]]
      BY <3>1 DEF Put, Updated, Shape, DiskFields
    <3>3. ASSUME NEW a, NEW m, <<a, m>> # <<id, mix>>
          PROVE  Send(disk, a, m) = Send(disk', a, m)
      BY <3>2, <3>3 DEF Send
    <3> QED
      BY <2>3, <3>3
  <2>4. CASE SaveRows
    <3>1. disk'["sends"] = disk["sends"]
      BY <1>0, <2>4 DEF SaveRows, Put, Updated, KInv, Shape, DiskFields
    <3> QED
      BY <2>1, <3>1
  <2>5. ASSUME NEW mix \in Mixes, AddMix(mix)
        PROVE  Moves
    <3>1. disk'["sends"] = disk["sends"]
      BY <1>0, <2>5 DEF AddMix, Put, Updated, KInv, Shape, DiskFields
    <3> QED
      BY <2>1, <3>1
  <2>6. CASE SetPreferences \/ Stop
    <3>1. disk'["sends"] = disk["sends"]
      BY <1>0, <2>6 DEF SetPreferences, Stop, Put, Updated, KInv, Shape, DiskFields
    <3> QED
      BY <2>1, <3>1
  <2>7. CASE \/ BeginScene \/ GoOn \/ GiveUp \/ PublishFails \/ Finish \/ Start \/ Crash
             \/ \E mix \in Mixes : BeginMixRemoval(mix)
             \/ \E id \in Ids : BeginRemoval(id) \/ Adopt(id)
             \/ \E node \in Captures : Plug(node)
             \/ UNCHANGED storesVars
    <3>1. disk' = disk
      BY <2>7 DEF BeginScene, GoOn, GiveUp, PublishFails, Finish, Start, Crash,
                  BeginMixRemoval, BeginRemoval, Adopt, Plug, storesVars, storeVars
    <3> QED
      BY <2>1, <3>1
  <2> HIDE DEF Moves
  <2> QED
    BY <1>0, <2>2, <2>3, <2>4, <2>5, <2>6, <2>7 DEF StoresNext
<1>1. StoresInit => SendsSpared
  BY DEF StoresInit, SendsSpared
<1>2. StoresSpec => []Ranked
  BY StoresKeepTheRules, RankingInvariant, PTL
<1>3. StoresSpec => []SendsSpared
  BY <1>1, <1>2, SendsSparedStep, StoresInvariant, PTL DEF StoresSpec
<1>4. KInv /\ SendsSpared /\ [StoresNext]_storesVars => [Moves]_storesVars
  BY <1>0
<1>5. StoresSpec => [][Moves]_storesVars
  BY <1>3, <1>4, StoresInvariant, PTL DEF StoresSpec
<1> QED
  BY <1>5 DEF SendsKept
=============================================================================
