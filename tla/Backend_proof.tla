--------------------------- MODULE Backend_proof ---------------------------
(***************************************************************************)
(* A row is recorded by one child at a time, readiness is the current      *)
(* reader's, and nothing outlives the leases: for any rows, retargetings,  *)
(* children that stick, failed starts and panics, and any number of        *)
(* attempts to shut down.                                                  *)
(***************************************************************************)
EXTENDS Backend, FiniteSetTheorems, TLAPS

Held == [node : Nodes \cup {"none"}, token : 0 .. MaxTokens]
Stages == {"recv", "read", "retire", "join", "start", "done"}
Coordinators ==
    [at : Stages, want : [Keys -> Held], wake : BOOLEAN, cancel : BOOLEAN,
     join : 0 .. MaxTokens, failed : BOOLEAN]
Readers ==
    [at : {"none", "start", "reading", "ending", "ended", "failed"},
     key : Keys \cup {0}, cancel : BOOLEAN]
ChildStates == {"none", "born", "live", "stuck", "dead"}
HandleStates == {"none", "held", "reaping", "reaped"}

MetersType ==
    /\ next \in Nat
    /\ bank \in [Keys -> Held]
    /\ taps \in SUBSET Tokens /\ flows \in SUBSET Tokens
    /\ meters \in Coordinators
    /\ workers \in [Keys -> 0 .. MaxTokens]
    /\ reader \in [Tokens -> Readers]
    /\ child \in [Tokens -> ChildStates] /\ handle \in [Tokens -> HandleStates]

Started(t) == reader[t].at # "none"
Live(t) == reader[t].at \in {"start", "reading", "ending"}

\* A token is given once, to one row: what the bank and the coordinator hold was
\* given, and no two rows hold the same.
TokensGivenOnce ==
    /\ \A k \in Keys : bank[k].token <= next /\ meters.want[k].token <= next
    /\ \A t \in Tokens : Started(t) => t <= next /\ reader[t].key \in Keys
    /\ \A j, k \in Keys : bank[j].token = bank[k].token /\ bank[j].token # 0 => j = k
    /\ \A j, k \in Keys :
          meters.want[j].token = bank[k].token /\ bank[k].token # 0 => j = k
    /\ \A j, k \in Keys :
          meters.want[j].token = meters.want[k].token /\ meters.want[j].token # 0 => j = k
    /\ meters.cancel => \A k \in Keys : bank[k].token = 0

\* The coordinator has the reader of every row it started one for, and a token
\* that is in force or wanted was started for the row that has it, or never.
WorkersAreStarted ==
    /\ \A k \in Keys : workers[k] # 0 => Started(workers[k]) /\ reader[workers[k]].key = k
    /\ \A k \in Keys : bank[k].token # 0 /\ Started(bank[k].token) =>
                          workers[k] = bank[k].token /\ meters.want[k].token = bank[k].token
    /\ \A k \in Keys : meters.want[k].token # 0 /\ Started(meters.want[k].token) =>
                          workers[k] = meters.want[k].token

\* A reader that runs is its row's, or is being joined while its row has none.
LiveReadersAreKnown ==
    /\ \A t \in Tokens : Live(t) =>
          workers[reader[t].key] = t \/ (meters.at = "join" /\ meters.join = t)
    /\ meters.at = "join" =>
          /\ meters.join \in Tokens /\ Started(meters.join)
          /\ workers[reader[meters.join].key] = 0
    /\ meters.at = "done" => \A k \in Keys : workers[k] = 0

\* A child runs only under a reader that has not ended.
ChildrenAreRead ==
    \A t \in Tokens :
        /\ reader[t].at \in {"none", "start", "failed"} => child[t] = "none" /\ handle[t] = "none"
        /\ reader[t].at = "ended" => child[t] \in {"none", "dead"}
        /\ handle[t] = "reaped" => child[t] = "dead"

MetersInv ==
    /\ MetersType /\ TokensGivenOnce /\ WorkersAreStarted /\ LiveReadersAreKnown
    /\ ChildrenAreRead /\ ReadyIsCurrent

Drains == {"idle", "host", "health", "outer", "meters", "wait", "mixer", "end"}

BackendType ==
    /\ alive \in BOOLEAN /\ active \in BOOLEAN /\ stopping \in BOOLEAN /\ stopped \in BOOLEAN
    /\ thread \in [Workers -> {"off", "up", "panicked", "joined", "failed"}]
    /\ mixer \in {"off", "running", "dirty", "clean"}
    /\ drain \in [at : Drains, issue : BOOLEAN, outer : {"none", "issue", "clean"}]

Gone(ws) == \A w \in ws : thread[w] \in {"off", "joined"}
NoReaderLives == \A t \in Tokens : ~Live(t)

\* What is behind a drain that met no issue so far.
DrainIsThorough ==
    /\ drain.at # "idle" => stopping /\ ~stopped
    /\ drain.at \in {"health", "outer", "meters", "wait", "mixer"} => active
    /\ drain.outer # "none" => stopping
    /\ drain.outer = "clean" => Gone(Outer)
    /\ ~drain.issue =>
          /\ drain.at \notin {"idle", "host"} => Gone({"host"})
          /\ drain.at \in {"outer", "meters", "wait", "mixer"} => Gone({"health"})
          /\ drain.at \in {"meters", "wait", "mixer"} => Gone(Outer)
          /\ drain.at = "end" /\ active => Gone(Workers) /\ mixer = "clean"
    /\ drain.at = "mixer" \/ mixer \in {"dirty", "clean"} => meters.at = "done"

\* Before the workers exist, and when everything was released.
NothingRuns ==
    /\ ~active => NoReaderLives /\ mixer \in {"off", "clean"} /\ Gone(Workers \ {"host"})
    /\ stopped => ~active /\ stopping /\ Gone(Workers)
    /\ alive => "installation" \in leases \/ stopped

BackendInv == BackendType /\ DrainIsThorough /\ NothingRuns

IInv == MetersInv /\ BackendInv

-----------------------------------------------------------------------------
(* The meters.                                                             *)

\* New targets are numbered in the order of their rows: no number twice.
LEMMA Numbering ==
    ASSUME NEW F \in SUBSET Keys
    PROVE  LET rank(k) == Cardinality({j \in F : j <= k})
           IN  /\ Cardinality(F) \in Nat
               /\ \A k \in F : rank(k) \in 1 .. Cardinality(F)
               /\ \A j, k \in F : rank(j) = rank(k) => j = k
<1> DEFINE upto(k) == {j \in F : j <= k}
<1> USE MetersAssumption
<1>1. IsFiniteSet(F)
  BY FS_Subset
<1>2. \A k \in F : upto(k) \in SUBSET F
  OBVIOUS
<1>3. \A k \in F : IsFiniteSet(upto(k)) /\ Cardinality(upto(k)) <= Cardinality(F)
  BY <1>1, <1>2, FS_Subset
<1>4. Cardinality(F) \in Nat /\ \A k \in F : Cardinality(upto(k)) \in Nat
  BY <1>1, <1>3, FS_CardinalityType
<1>5. ASSUME NEW k \in F
      PROVE  Cardinality(upto(k)) # 0
  <2>a. k <= k
    OBVIOUS
  <2>1. k \in upto(k)
    BY <2>a
  <2>2. Cardinality(upto(k)) = 0 <=> upto(k) = {}
    BY <1>3, FS_EmptySet
  <2> QED
    BY <2>1, <2>2
<1>6. ASSUME NEW j \in F, NEW k \in F, j < k
      PROVE  Cardinality(upto(j)) # Cardinality(upto(k))
  <2>a. F \subseteq Nat /\ k <= k /\ ~(k <= j) /\ \A i \in F : i <= j => i <= k
    BY <1>6
  <2>1. upto(j) \in SUBSET upto(k) /\ k \in upto(k) /\ k \notin upto(j)
    BY <2>a
  <2>2. Cardinality(upto(k)) = Cardinality(upto(j)) => upto(k) = upto(j)
    BY <1>3, <2>1, FS_Subset
  <2> QED
    BY <2>1, <2>2
<1>7. ASSUME NEW j \in F, NEW k \in F, Cardinality(upto(j)) = Cardinality(upto(k))
      PROVE  j = k
  <2>1. ~(j < k) /\ ~(k < j)
    BY <1>6, <1>7
  <2> QED
    BY <2>1
<1> HIDE DEF upto
<1>8. /\ \A k \in F : Cardinality(upto(k)) \in 1 .. Cardinality(F)
      /\ \A j, k \in F : Cardinality(upto(j)) = Cardinality(upto(k)) => j = k
  BY <1>3, <1>4, <1>5, <1>7
<1> QED
  BY <1>4, <1>8 DEF upto

\* What set_targets leaves in the bank: nothing, the target of before, or one
\* with a number that is new.
NewTarget(k, given) == given[k] > next /\ given[k] <= next' /\ bank'[k].token = given[k]

LEMMA TargetsAreNew ==
    ASSUME MetersType, NEW new \in [Keys -> Nodes \cup {"none"}], SetTargets(new)
    PROVE  /\ next' \in Nat /\ next <= next' /\ next' <= MaxTokens
           /\ bank' \in [Keys -> Held]
           /\ \E given \in [Keys -> Nat] :
                 /\ \A k \in Keys : \/ bank'[k].token = 0
                                    \/ bank'[k] = bank[k]
                                    \/ NewTarget(k, given)
                 /\ \A j, k \in Keys : NewTarget(j, given) /\ NewTarget(k, given)
                                         /\ given[j] = given[k] => j = k
<1> DEFINE F == Fresh(new)
           rank(k) == Cardinality({j \in F : j <= k})
           given == [k \in Keys |-> IF k \in F THEN next + rank(k) ELSE 0]
<1>1. F \in SUBSET Keys
  BY DEF Fresh
<1>2. /\ Cardinality(F) \in Nat
      /\ \A k \in F : rank(k) \in 1 .. Cardinality(F)
      /\ \A j, k \in F : rank(j) = rank(k) => j = k
  <2> HIDE DEF F
  <2> QED
    BY <1>1, Numbering
<1>3. next' = next + Cardinality(F) /\ next' <= MaxTokens /\ next \in Nat
  BY DEF SetTargets, MetersType
<1>4. \A k \in Keys : bank'[k] = IF new[k] = "none" THEN NoTarget
                                 ELSE IF k \in F THEN [node |-> new[k], token |-> next + rank(k)]
                                 ELSE bank[k]
  BY DEF SetTargets, Assigned
<1>5. \E X : bank' = [k \in Keys |-> X[k]]
  <2>1. bank' = [k \in Keys |-> IF new[k] = "none" THEN NoTarget
                                 ELSE IF k \in F THEN [node |-> new[k], token |-> next + rank(k)]
                                 ELSE bank[k]]
    BY DEF SetTargets, Assigned
  <2>2. bank' = [k \in Keys |-> bank'[k]]
    BY <1>4, <2>1
  <2> QED
    BY <2>2
<1> HIDE DEF F, rank
<1>6. given \in [Keys -> Nat] /\ \A k \in Keys : given[k] = IF k \in F THEN next + rank(k) ELSE 0
  BY <1>1, <1>2, <1>3
<1> HIDE DEF given
<1>7. ASSUME NEW k \in Keys
      PROVE  /\ bank'[k] \in Held
             /\ \/ bank'[k].token = 0
                \/ bank'[k] = bank[k]
                \/ NewTarget(k, given)
  <2>1. CASE new[k] = "none"
    <3>1. bank'[k] = NoTarget
      BY <1>4, <2>1
    <3>2. NoTarget \in Held /\ NoTarget.token = 0
      BY MetersAssumption DEF NoTarget, Held
    <3> QED
      BY <3>1, <3>2
  <2>2. CASE new[k] # "none" /\ k \in F
    <3>1. bank'[k] = [node |-> new[k], token |-> next + rank(k)]
      BY <1>4, <2>2
    <3>2. rank(k) \in Nat /\ 1 <= rank(k) /\ rank(k) <= Cardinality(F)
      BY <1>2, <2>2
    <3>3. next + rank(k) \in 0 .. MaxTokens /\ next + rank(k) > next /\ next + rank(k) <= next'
      BY <1>2, <1>3, <3>2, MetersAssumption
    <3> QED
      BY <1>6, <2>2, <3>1, <3>3 DEF NewTarget, Held
  <2>3. CASE new[k] # "none" /\ k \notin F
    BY <1>4, <2>3 DEF MetersType
  <2> QED
    BY <2>1, <2>2, <2>3
<1>8. ASSUME NEW j \in Keys, NEW k \in Keys, NewTarget(j, given), NewTarget(k, given),
             given[j] = given[k]
      PROVE  j = k
  <2>1. j \in F /\ k \in F
    BY <1>3, <1>6, <1>8 DEF NewTarget
  <2>2. rank(j) = rank(k)
    BY <1>2, <1>3, <1>6, <1>8, <2>1
  <2> QED
    BY <1>2, <2>1, <2>2
<1>9. bank' \in [Keys -> Held]
  BY <1>5, <1>7
<1>10. next' \in Nat /\ next <= next'
  BY <1>2, <1>3
<1> QED
  BY <1>3, <1>6, <1>7, <1>8, <1>9, <1>10

\* What the rest of a step leaves alone.
LEMMA NoReaderMoves ==
    ASSUME UNCHANGED <<workers, reader>>, UNCHANGED <<child, handle>>, UNCHANGED meters.at,
           UNCHANGED meters.join
    PROVE  /\ LiveReadersAreKnown => LiveReadersAreKnown'
           /\ ChildrenAreRead => ChildrenAreRead'
  BY DEF LiveReadersAreKnown, ChildrenAreRead, Live, Started

LEMMA SetTargetsKeeps ==
    ASSUME MetersInv, NEW new \in [Keys -> Nodes \cup {"none"}], SetTargets(new)
    PROVE  MetersInv'
<1>1. /\ ~meters.cancel /\ UNCHANGED <<workers, reader>> /\ UNCHANGED <<child, handle>>
      /\ meters' = [meters EXCEPT !.wake = TRUE]
      /\ taps' = (taps \ (Banked(bank) \ Banked(bank'))) \cup (Banked(bank') \ Banked(bank))
      /\ flows' = flows \ (Banked(bank) \ Banked(bank'))
  BY DEF SetTargets
<1>2. /\ meters'.want = meters.want /\ meters'.cancel = meters.cancel
      /\ meters'.at = meters.at /\ meters'.join = meters.join
      /\ meters' \in Coordinators
  BY <1>1 DEF MetersInv, MetersType, Coordinators
<1>3. PICK given \in [Keys -> Nat] :
         /\ \A k \in Keys : \/ bank'[k].token = 0
                            \/ bank'[k] = bank[k]
                            \/ NewTarget(k, given)
         /\ \A j, k \in Keys : NewTarget(j, given) /\ NewTarget(k, given)
                                 /\ given[j] = given[k] => j = k
  BY TargetsAreNew DEF MetersInv
<1>4. /\ next' \in Nat /\ next <= next' /\ next' <= MaxTokens /\ next \in Nat
      /\ bank' \in [Keys -> Held] /\ bank \in [Keys -> Held]
      /\ meters.want \in [Keys -> Held] /\ MaxTokens \in Nat
  BY TargetsAreNew, MetersAssumption DEF MetersInv, MetersType, Coordinators
<1>t. \A k \in Keys : /\ bank[k].token \in 0 .. MaxTokens /\ bank'[k].token \in 0 .. MaxTokens
                      /\ meters.want[k].token \in 0 .. MaxTokens
  BY <1>4 DEF Held
<1>5. MetersType'
  <2>1. Banked(bank') \subseteq Tokens
    BY <1>t, <1>4 DEF Banked, Tokens
  <2>2. taps' \in SUBSET Tokens /\ flows' \in SUBSET Tokens
    BY <1>1, <2>1 DEF MetersInv, MetersType
  <2> QED
    BY <1>1, <1>2, <1>4, <2>2 DEF MetersInv, MetersType
<1>n. \A k \in Keys : NewTarget(k, given) => bank'[k].token > next /\ bank'[k].token <= next'
  BY <1>3 DEF NewTarget
<1>6. TokensGivenOnce'
  <2>1. \A k \in Keys : bank'[k].token <= next' /\ meters'.want[k].token <= next'
    BY <1>2, <1>3, <1>4, <1>t, <1>n DEF MetersInv, TokensGivenOnce
  <2>2. \A t \in Tokens : Started(t)' => t <= next' /\ reader'[t].key \in Keys
    BY <1>1, <1>4 DEF MetersInv, TokensGivenOnce, Started, Tokens
  <2>3. ASSUME NEW j \in Keys, NEW k \in Keys, bank'[j].token = bank'[k].token, bank'[j].token # 0
        PROVE  j = k
    <3>1. CASE NewTarget(j, given) /\ NewTarget(k, given)
      BY <1>3, <2>3, <3>1 DEF NewTarget
    <3>2. CASE bank'[j] = bank[j] /\ bank'[k] = bank[k]
      BY <2>3, <3>2 DEF MetersInv, TokensGivenOnce
    <3>3. ASSUME NEW a \in Keys, NEW b \in Keys, NewTarget(a, given), bank'[b] = bank[b]
          PROVE  bank'[a].token # bank'[b].token
      <4>1. bank'[a].token > next /\ bank[b].token <= next
        BY <1>n, <3>3 DEF MetersInv, TokensGivenOnce
      <4> QED
        BY <1>4, <1>t, <3>3, <4>1
    <3> QED
      BY <1>3, <2>3, <3>1, <3>2, <3>3
  <2>4. ASSUME NEW j \in Keys, NEW k \in Keys,
               meters'.want[j].token = bank'[k].token, bank'[k].token # 0
        PROVE  j = k
    <3>1. CASE bank'[k] = bank[k]
      BY <1>2, <2>4, <3>1 DEF MetersInv, TokensGivenOnce
    <3>2. ~NewTarget(k, given)
      <4>1. meters.want[j].token <= next
        BY DEF MetersInv, TokensGivenOnce
      <4> QED
        BY <1>2, <1>4, <1>n, <1>t, <2>4, <4>1
    <3> QED
      BY <1>3, <2>4, <3>1, <3>2
  <2> QED
    BY <1>1, <1>2, <2>1, <2>2, <2>3, <2>4 DEF MetersInv, TokensGivenOnce
<1>7. WorkersAreStarted'
  <2>1. ASSUME NEW k \in Keys, bank'[k].token # 0, reader'[bank'[k].token].at # "none"
        PROVE  bank'[k] = bank[k]
    <3>1. bank'[k].token \in Tokens
      BY <1>t, <1>4, <2>1 DEF Tokens
    <3>2. Started(bank'[k].token)
      BY <1>1, <2>1 DEF Started
    <3>3. bank'[k].token <= next
      BY <3>1, <3>2 DEF MetersInv, TokensGivenOnce
    <3>4. ~NewTarget(k, given)
      BY <1>4, <1>n, <1>t, <3>3
    <3> QED
      BY <1>3, <2>1, <3>4
  <2>2. ASSUME NEW k \in Keys, bank'[k].token # 0, reader'[bank'[k].token].at # "none"
        PROVE  workers'[k] = bank'[k].token /\ meters'.want[k].token = bank'[k].token
    <3>1. bank'[k] = bank[k] /\ Started(bank[k].token)
      BY <1>1, <2>1, <2>2 DEF Started
    <3> QED
      BY <1>1, <1>2, <2>2, <3>1 DEF MetersInv, WorkersAreStarted
  <2> QED
    BY <1>1, <1>2, <2>2 DEF MetersInv, WorkersAreStarted, Started
<1>8. LiveReadersAreKnown' /\ ChildrenAreRead'
  BY <1>1, <1>2, NoReaderMoves DEF MetersInv
<1>9. ReadyIsCurrent'
  <2> SUFFICES ASSUME NEW t \in flows'
               PROVE  reader'[t].at = "reading" /\ bank'[reader'[t].key].token = t
    BY DEF ReadyIsCurrent, IsWanted
  <2> DEFINE k == reader[t].key
  <2>1. t \in flows /\ t \in Tokens /\ reader[t].at = "reading" /\ bank[k].token = t
    BY <1>1 DEF MetersInv, MetersType, ReadyIsCurrent, IsWanted
  <2>2. k \in Keys
    BY <2>1 DEF MetersInv, TokensGivenOnce, Started
  <2>3. t # 0
    BY <2>1 DEF Tokens
  <2>4. t \in Banked(bank')
    BY <1>1, <2>1, <2>2, <2>3 DEF Banked
  <2>5. PICK j \in Keys : bank'[j].token = t
    BY <2>4 DEF Banked
  <2>6. bank'[j] = bank[j]
    BY <1>7, <1>1, <2>1, <2>3, <2>5, <1>3, <1>n, <1>4, <1>t DEF MetersInv, TokensGivenOnce, Started
  <2>7. j = k
    BY <2>1, <2>2, <2>3, <2>5, <2>6 DEF MetersInv, TokensGivenOnce
  <2> QED
    BY <1>1, <2>1, <2>5, <2>7
<1> QED
  BY <1>5, <1>6, <1>7, <1>8, <1>9 DEF MetersInv

LEMMA CancelMetersKeeps ==
    ASSUME MetersInv, CancelMeters
    PROVE  MetersInv'
<1>1. /\ bank' = [k \in Keys |-> NoTarget] /\ Invalid(Banked(bank))
      /\ meters' = [meters EXCEPT !.cancel = TRUE, !.wake = TRUE]
      /\ next' = next /\ UNCHANGED <<workers, reader>> /\ UNCHANGED <<child, handle>>
  BY DEF CancelMeters
<1>2. /\ meters'.want = meters.want
      /\ meters'.at = meters.at /\ meters'.join = meters.join
      /\ meters' \in Coordinators
  BY <1>1 DEF MetersInv, MetersType, Coordinators
<1>3. \A k \in Keys : bank'[k].token = 0
  BY <1>1 DEF NoTarget
<1>4. MetersType'
  <2>1. bank' \in [Keys -> Held]
    BY <1>1, MetersAssumption DEF NoTarget, Held
  <2>2. taps' \in SUBSET Tokens /\ flows' \in SUBSET Tokens
    BY <1>1 DEF Invalid, MetersInv, MetersType
  <2> QED
    BY <1>1, <1>2, <2>1, <2>2 DEF MetersInv, MetersType
<1>5. TokensGivenOnce'
  <2>1. next \in Nat
    BY DEF MetersInv, MetersType
  <2> QED
    BY <1>1, <1>2, <1>3, <2>1 DEF MetersInv, TokensGivenOnce, Started
<1>6. WorkersAreStarted'
  BY <1>1, <1>2, <1>3 DEF MetersInv, WorkersAreStarted, Started
<1>7. LiveReadersAreKnown' /\ ChildrenAreRead'
  BY <1>1, <1>2, NoReaderMoves DEF MetersInv
<1>8. flows' = {}
  <2>1. ASSUME NEW t \in flows
        PROVE  t \in Banked(bank)
    <3>1. /\ t \in Tokens /\ Started(t) /\ bank[reader[t].key].token = t
      BY DEF MetersInv, MetersType, ReadyIsCurrent, IsWanted, Started
    <3>2. reader[t].key \in Keys /\ t # 0
      BY <3>1 DEF MetersInv, TokensGivenOnce, Tokens
    <3> QED
      BY <3>1, <3>2 DEF Banked
  <2> QED
    BY <1>1, <2>1 DEF Invalid
<1> QED
  BY <1>4, <1>5, <1>6, <1>7, <1>8 DEF MetersInv, ReadyIsCurrent

\* Steps of the coordinator that move nothing but itself.
LEMMA CoordinatorMoves ==
    ASSUME MetersInv, UNCHANGED coordination, UNCHANGED <<workers, reader>>,
           UNCHANGED <<child, handle>>, meters' \in Coordinators,
           UNCHANGED <<meters.want, meters.cancel>>
    PROVE  /\ MetersType' /\ TokensGivenOnce' /\ WorkersAreStarted' /\ ChildrenAreRead'
           /\ ReadyIsCurrent'
<1>1. UNCHANGED <<bank, next, taps, flows>>
  BY DEF coordination
<1>2. MetersType'
  BY <1>1 DEF MetersInv, MetersType
<1>3. TokensGivenOnce' /\ WorkersAreStarted'
  BY <1>1 DEF MetersInv, TokensGivenOnce, WorkersAreStarted, Started
<1>4. ChildrenAreRead' /\ ReadyIsCurrent'
  BY <1>1 DEF MetersInv, ChildrenAreRead, ReadyIsCurrent, IsWanted
<1> QED
  BY <1>2, <1>3, <1>4

\* One reader changes.
LEMMA OneReaderChanges ==
    ASSUME reader \in [Tokens -> Readers], NEW t \in Tokens, NEW r \in Readers,
           reader' = [reader EXCEPT ![t] = r]
    PROVE  /\ reader' \in [Tokens -> Readers]
           /\ reader'[t] = r
           /\ \A s \in Tokens : s # t => reader'[s] = reader[s]
  OBVIOUS

LEMMA ReadBankKeeps ==
    ASSUME MetersInv, ReadBank
    PROVE  MetersInv'
<1>1. /\ meters.at = "read"
      /\ meters' = [meters EXCEPT !.at = "retire",
                       !.want = IF meters.cancel THEN [k \in Keys |-> NoTarget] ELSE bank]
      /\ UNCHANGED <<bank, next, taps, flows>> /\ UNCHANGED <<workers, reader>>
      /\ UNCHANGED <<child, handle>>
  BY DEF ReadBank, coordination
<1> DEFINE want == IF meters.cancel THEN [k \in Keys |-> NoTarget] ELSE bank
<1>2. want \in [Keys -> Held] /\ \A k \in Keys : want[k].token = bank[k].token
  <2>1. CASE meters.cancel
    <3>1. NoTarget \in Held /\ NoTarget.token = 0
      BY MetersAssumption DEF NoTarget, Held
    <3>2. \A k \in Keys : bank[k].token = 0
      BY <2>1 DEF MetersInv, TokensGivenOnce
    <3> QED
      BY <2>1, <3>1, <3>2
  <2>2. CASE ~meters.cancel
    BY <2>2 DEF MetersInv, MetersType
  <2> QED
    BY <2>1, <2>2
<1>a. meters' = [meters EXCEPT !.at = "retire", !.want = want]
  BY <1>1
<1> HIDE DEF want
<1>3. /\ meters'.want = want /\ meters'.cancel = meters.cancel
      /\ meters'.at = "retire" /\ meters' \in Coordinators
  BY <1>a, <1>2 DEF MetersInv, MetersType, Coordinators, Stages
<1>4. MetersType'
  BY <1>1, <1>3 DEF MetersInv, MetersType
<1>5. TokensGivenOnce'
  BY <1>1, <1>2, <1>3 DEF MetersInv, TokensGivenOnce, Started
<1>6. WorkersAreStarted'
  BY <1>1, <1>2, <1>3 DEF MetersInv, WorkersAreStarted, Started
<1>7. LiveReadersAreKnown'
  BY <1>1, <1>3 DEF MetersInv, LiveReadersAreKnown, Live, Started
<1>8. ChildrenAreRead' /\ ReadyIsCurrent'
  BY <1>1 DEF MetersInv, ChildrenAreRead, ReadyIsCurrent, IsWanted
<1> QED
  BY <1>4, <1>5, <1>6, <1>7, <1>8 DEF MetersInv

LEMMA RetireStaleKeeps ==
    ASSUME MetersInv, RetireStale
    PROVE  MetersInv'
<1>1. PICK k \in Stale :
         /\ reader' = [reader EXCEPT ![workers[k]].cancel = TRUE]
         /\ Invalid({workers[k]})
         /\ meters' = [meters EXCEPT !.at = "join", !.join = workers[k]]
         /\ workers' = [workers EXCEPT ![k] = 0]
  BY DEF RetireStale
<1> DEFINE t == workers[k]
<1>2. /\ k \in Keys /\ t # 0 /\ meters.want[k].token # t
      /\ UNCHANGED <<bank, next, child, handle>> /\ meters.at = "retire"
  BY DEF RetireStale, Stale
<1>t. MaxTokens \in Nat /\ \A j \in Keys : /\ bank[j].token \in 0 .. MaxTokens
                                           /\ meters.want[j].token \in 0 .. MaxTokens
                                           /\ workers[j] \in 0 .. MaxTokens
  BY MetersAssumption DEF MetersInv, MetersType, Coordinators, Held
<1>3. t \in Tokens /\ Started(t) /\ reader[t].key = k
  <2>1. t \in Tokens
    BY <1>2, <1>t DEF Tokens
  <2> QED
    BY <1>2, <2>1 DEF MetersInv, WorkersAreStarted
<1>a. /\ reader' = [reader EXCEPT ![t].cancel = TRUE]
      /\ meters' = [meters EXCEPT !.at = "join", !.join = t]
      /\ workers[k] = t /\ t \in 0 .. MaxTokens
  BY <1>1, <1>2, <1>t
<1> HIDE DEF t
<1>4. /\ meters'.want = meters.want /\ meters'.cancel = meters.cancel
      /\ meters'.at = "join" /\ meters'.join = t /\ meters' \in Coordinators
  BY <1>a DEF MetersInv, MetersType, Coordinators, Stages
<1>5. /\ reader' \in [Tokens -> Readers]
      /\ \A s \in Tokens : reader'[s].at = reader[s].at /\ reader'[s].key = reader[s].key
  <2> DEFINE r == [reader[t] EXCEPT !.cancel = TRUE]
  <2>1. reader \in [Tokens -> Readers] /\ reader[t] \in Readers
    BY <1>3 DEF MetersInv, MetersType
  <2>2. r \in Readers /\ r.at = reader[t].at /\ r.key = reader[t].key
    BY <2>1 DEF Readers
  <2>3. reader' = [reader EXCEPT ![t] = r]
    BY <1>a
  <2> HIDE DEF r
  <2> QED
    BY <1>3, <2>1, <2>2, <2>3, OneReaderChanges
<1>6. \A j \in Keys : workers'[j] = IF j = k THEN 0 ELSE workers[j]
  BY <1>1 DEF MetersInv, MetersType
<1>7. workers' \in [Keys -> 0 .. MaxTokens]
  <2>1. workers \in [Keys -> 0 .. MaxTokens] /\ 0 \in 0 .. MaxTokens
    BY <1>t DEF MetersInv, MetersType
  <2> QED
    BY <1>1, <2>1
<1>8. taps' \in SUBSET Tokens /\ flows' \in SUBSET Tokens /\ flows' \subseteq flows
  BY <1>1 DEF Invalid, MetersInv, MetersType
<1>9. MetersType'
  BY <1>2, <1>4, <1>5, <1>7, <1>8 DEF MetersInv, MetersType
<1>10. TokensGivenOnce'
  BY <1>2, <1>4, <1>5 DEF MetersInv, TokensGivenOnce, Started
<1>11. WorkersAreStarted'
  <2>1. ASSUME NEW j \in Keys, workers'[j] # 0
        PROVE  reader'[workers'[j]].at # "none" /\ reader'[workers'[j]].key = j
    <3>1. j # k /\ workers'[j] = workers[j] /\ workers[j] \in Tokens
      BY <1>6, <1>t, <2>1 DEF Tokens
    <3>2. Started(workers[j]) /\ reader[workers[j]].key = j
      BY <2>1, <3>1 DEF MetersInv, WorkersAreStarted
    <3> QED
      BY <1>5, <3>1, <3>2 DEF Started
  <2>2. ASSUME NEW j \in Keys, bank[j].token # 0, reader'[bank[j].token].at # "none"
        PROVE  workers'[j] = bank[j].token /\ meters.want[j].token = bank[j].token
    <3>1. bank[j].token \in Tokens
      BY <1>t, <2>2 DEF Tokens
    <3>2. Started(bank[j].token)
      BY <1>5, <2>2, <3>1 DEF Started
    <3>3. workers[j] = bank[j].token /\ meters.want[j].token = bank[j].token
      BY <2>2, <3>2 DEF MetersInv, WorkersAreStarted
    <3>4. j # k
      BY <1>2, <1>a, <3>3
    <3> QED
      BY <1>6, <3>3, <3>4
  <2>3. ASSUME NEW j \in Keys, meters.want[j].token # 0, reader'[meters.want[j].token].at # "none"
        PROVE  workers'[j] = meters.want[j].token
    <3>1. meters.want[j].token \in Tokens
      BY <1>t, <2>3 DEF Tokens
    <3>2. Started(meters.want[j].token)
      BY <1>5, <2>3, <3>1 DEF Started
    <3>3. workers[j] = meters.want[j].token
      BY <2>3, <3>2 DEF MetersInv, WorkersAreStarted
    <3>4. j # k
      BY <1>2, <1>a, <3>3
    <3> QED
      BY <1>6, <3>3, <3>4
  <2> QED
    BY <1>2, <1>4, <2>1, <2>2, <2>3 DEF WorkersAreStarted, Started
<1>12. LiveReadersAreKnown'
  <2>1. ASSUME NEW s \in Tokens, reader'[s].at \in {"start", "reading", "ending"}
        PROVE  workers'[reader'[s].key] = s \/ s = t
    <3>1. workers[reader[s].key] = s /\ reader[s].key \in Keys
      BY <1>2, <1>5, <2>1 DEF MetersInv, LiveReadersAreKnown, TokensGivenOnce, Live, Started
    <3> QED
      BY <1>5, <1>6, <1>a, <3>1
  <2>2. workers'[reader'[t].key] = 0 /\ reader'[t].at # "none"
    BY <1>2, <1>3, <1>5, <1>6 DEF Started
  <2> QED
    BY <1>3, <1>4, <2>1, <2>2 DEF LiveReadersAreKnown, Live, Started
<1>13. ChildrenAreRead'
  BY <1>2, <1>5 DEF MetersInv, ChildrenAreRead
<1>14. ReadyIsCurrent'
  BY <1>2, <1>5, <1>8 DEF MetersInv, ReadyIsCurrent, IsWanted
<1> QED
  BY <1>9, <1>10, <1>11, <1>12, <1>13, <1>14 DEF MetersInv

LEMMA StartReaderKeeps ==
    ASSUME MetersInv, StartReader
    PROVE  MetersInv'
<1>1. PICK k \in Unstarted :
         /\ workers' = [workers EXCEPT ![k] = meters.want[k].token]
         /\ reader' = [reader EXCEPT ![meters.want[k].token] =
                          [NoReader EXCEPT !.at = "start", !.key = k]]
  BY DEF StartReader
<1> DEFINE t == meters.want[k].token
<1>2. /\ k \in Keys /\ t # 0 /\ workers[k] = 0 /\ meters.at = "start"
      /\ UNCHANGED <<bank, next, taps, flows>> /\ UNCHANGED <<meters, child, handle>>
  BY DEF StartReader, Unstarted, coordination
<1>t. MaxTokens \in Nat /\ \A j \in Keys : /\ bank[j].token \in 0 .. MaxTokens
                                           /\ meters.want[j].token \in 0 .. MaxTokens
                                           /\ workers[j] \in 0 .. MaxTokens
  BY MetersAssumption DEF MetersInv, MetersType, Coordinators, Held
<1>3. t \in Tokens /\ t <= next /\ ~Started(t)
  <2>1. t \in 0 .. MaxTokens /\ t <= next
    BY <1>2, <1>t DEF MetersInv, TokensGivenOnce
  <2>2. t \in Tokens
    BY <1>2, <1>t, <2>1 DEF Tokens
  <2>3. ~Started(t)
    BY <1>2 DEF MetersInv, WorkersAreStarted
  <2> QED
    BY <2>1, <2>2, <2>3
<1> DEFINE r == [NoReader EXCEPT !.at = "start", !.key = k]
<1>4. reader' = [reader EXCEPT ![t] = r] /\ workers' = [workers EXCEPT ![k] = t]
  BY <1>1
<1>r. reader[t] \in Readers /\ reader \in [Tokens -> Readers]
  BY <1>3 DEF MetersInv, MetersType
<1> HIDE DEF t
<1>5. /\ reader' \in [Tokens -> Readers]
      /\ \A s \in Tokens : s # t => reader'[s] = reader[s]
      /\ reader'[t].at = "start" /\ reader'[t].key = k
  <2>1. r \in Readers /\ r.at = "start" /\ r.key = k
    <3>1. NoReader \in Readers
      BY DEF NoReader, Readers
    <3> QED
      BY <1>2, <3>1 DEF Readers
  <2>2. reader \in [Tokens -> Readers] /\ reader' = [reader EXCEPT ![t] = r]
    BY <1>4, <1>r
  <2> HIDE DEF r
  <2> QED
    BY <1>3, <2>1, <2>2, OneReaderChanges
<1>6. workers' \in [Keys -> 0 .. MaxTokens] /\ \A j \in Keys : workers'[j] = IF j = k THEN t ELSE workers[j]
  <2>1. workers \in [Keys -> 0 .. MaxTokens] /\ t \in 0 .. MaxTokens
    BY <1>3, <1>t DEF MetersInv, MetersType, Tokens
  <2> QED
    BY <1>4, <2>1
<1>w. t = meters.want[k].token
  BY DEF t
<1>7. MetersType'
  BY <1>2, <1>5, <1>6 DEF MetersInv, MetersType
<1>8. TokensGivenOnce'
  BY <1>2, <1>3, <1>5 DEF MetersInv, TokensGivenOnce, Started
<1>9. WorkersAreStarted'
  <2>1. ASSUME NEW j \in Keys, workers'[j] # 0
        PROVE  reader'[workers'[j]].at # "none" /\ reader'[workers'[j]].key = j
    <3>1. CASE j = k
      BY <1>5, <1>6, <3>1
    <3>2. CASE j # k
      <4>1. /\ workers'[j] = workers[j] /\ Started(workers[j]) /\ reader[workers[j]].key = j
            /\ workers[j] \in Tokens
        BY <1>6, <1>t, <2>1, <3>2 DEF MetersInv, WorkersAreStarted, Tokens
      <4>2. workers[j] # t
        BY <1>3, <4>1
      <4> QED
        BY <1>5, <4>1, <4>2 DEF Started
    <3> QED
      BY <3>1, <3>2
  <2>2. ASSUME NEW j \in Keys, bank[j].token # 0, reader'[bank[j].token].at # "none"
        PROVE  workers'[j] = bank[j].token /\ meters.want[j].token = bank[j].token
    <3>1. CASE bank[j].token = t
      <4>1. k = j
        BY <1>2, <1>w, <2>2, <3>1 DEF MetersInv, TokensGivenOnce
      <4> QED
        BY <1>6, <1>w, <3>1, <4>1
    <3>2. CASE bank[j].token # t
      <4>1. bank[j].token \in Tokens
        BY <1>t, <2>2 DEF Tokens
      <4>2. Started(bank[j].token)
        BY <1>5, <2>2, <3>2, <4>1 DEF Started
      <4>3. workers[j] = bank[j].token /\ meters.want[j].token = bank[j].token
        BY <2>2, <4>2 DEF MetersInv, WorkersAreStarted
      <4>4. j # k
        BY <1>2, <2>2, <4>3
      <4> QED
        BY <1>6, <4>3, <4>4
    <3> QED
      BY <3>1, <3>2
  <2>3. ASSUME NEW j \in Keys, meters.want[j].token # 0, reader'[meters.want[j].token].at # "none"
        PROVE  workers'[j] = meters.want[j].token
    <3>1. CASE meters.want[j].token = t
      <4>1. k = j
        BY <1>2, <1>w, <2>3, <3>1 DEF MetersInv, TokensGivenOnce
      <4> QED
        BY <1>6, <3>1, <4>1
    <3>2. CASE meters.want[j].token # t
      <4>1. meters.want[j].token \in Tokens
        BY <1>t, <2>3 DEF Tokens
      <4>2. Started(meters.want[j].token)
        BY <1>5, <2>3, <3>2, <4>1 DEF Started
      <4>3. workers[j] = meters.want[j].token
        BY <2>3, <4>2 DEF MetersInv, WorkersAreStarted
      <4>4. j # k
        BY <1>2, <2>3, <4>3
      <4> QED
        BY <1>6, <4>3, <4>4
    <3> QED
      BY <3>1, <3>2
  <2> QED
    BY <1>2, <2>1, <2>2, <2>3 DEF WorkersAreStarted, Started
<1>10. LiveReadersAreKnown'
  <2>1. ASSUME NEW s \in Tokens, reader'[s].at \in {"start", "reading", "ending"}
        PROVE  workers'[reader'[s].key] = s
    <3>1. CASE s = t
      BY <1>2, <1>5, <1>6, <3>1
    <3>2. CASE s # t
      <4>1. workers[reader[s].key] = s /\ reader[s].key \in Keys /\ s # 0 /\ reader'[s] = reader[s]
        BY <1>2, <1>5, <2>1, <3>2
           DEF MetersInv, LiveReadersAreKnown, TokensGivenOnce, Live, Started, Tokens
      <4>2. reader[s].key # k
        BY <1>2, <4>1
      <4> QED
        BY <1>6, <4>1, <4>2
    <3> QED
      BY <3>1, <3>2
  <2> QED
    BY <1>2, <2>1 DEF LiveReadersAreKnown, Live
<1>11. ChildrenAreRead'
  <2>1. child[t] = "none" /\ handle[t] = "none"
    BY <1>3 DEF MetersInv, ChildrenAreRead, Started
  <2> QED
    BY <1>2, <1>5, <2>1 DEF MetersInv, ChildrenAreRead
<1>12. ReadyIsCurrent'
  <2>1. t \notin flows /\ flows \subseteq Tokens
    BY <1>3 DEF MetersInv, MetersType, ReadyIsCurrent, Started
  <2> QED
    BY <1>2, <1>5, <2>1 DEF MetersInv, ReadyIsCurrent, IsWanted
<1> QED
  BY <1>7, <1>8, <1>9, <1>10, <1>11, <1>12 DEF MetersInv

LEMMA CoordinatorKeeps ==
    ASSUME MetersInv, Coordinator
    PROVE  MetersInv' /\ meters.at # "done"
<1>1. CASE ReadBank
  BY <1>1, ReadBankKeeps DEF ReadBank
<1>2. CASE RetireStale
  BY <1>2, RetireStaleKeeps DEF RetireStale
<1>3. CASE StartReader
  BY <1>3, StartReaderKeeps DEF StartReader
<1>4. ASSUME UNCHANGED coordination, UNCHANGED <<workers, reader>>, UNCHANGED <<child, handle>>,
             meters' \in Coordinators, UNCHANGED <<meters.want, meters.cancel>>,
             LiveReadersAreKnown'
      PROVE  MetersInv'
  BY <1>4, CoordinatorMoves DEF MetersInv
<1>5. CASE JoinStale
  <2>1. /\ meters.at = "join" /\ reader[meters.join].at \in {"ended", "failed"}
        /\ meters' = [meters EXCEPT !.at = "retire", !.join = 0,
                                    !.failed = @ \/ reader[meters.join].at = "failed"]
        /\ UNCHANGED coordination /\ UNCHANGED <<workers, reader>> /\ UNCHANGED <<child, handle>>
    BY <1>5 DEF JoinStale, Joined
  <2>2. /\ meters'.at = "retire" /\ UNCHANGED <<meters.want, meters.cancel>>
        /\ meters' \in Coordinators
    <3> DEFINE f == meters.failed \/ reader[meters.join].at = "failed"
    <3>1. f \in BOOLEAN /\ 0 \in 0 .. MaxTokens /\ meters \in Coordinators
      BY MetersAssumption DEF MetersInv, MetersType, Coordinators
    <3>2. meters' = [meters EXCEPT !.at = "retire", !.join = 0, !.failed = f]
      BY <2>1
    <3> HIDE DEF f
    <3> QED
      BY <3>1, <3>2 DEF Coordinators, Stages
  <2>3. LiveReadersAreKnown'
    BY <2>1, <2>2 DEF MetersInv, LiveReadersAreKnown, Live, Started
  <2> QED
    BY <1>4, <2>1, <2>2, <2>3
<1>6. CASE RetiredAll
  <2>1. /\ meters.at = "retire" /\ Stale = {}
        /\ meters' = [meters EXCEPT !.at = IF meters.cancel /\ Banked(meters.want) = {}
                                           THEN "done" ELSE "start"]
        /\ UNCHANGED coordination /\ UNCHANGED <<workers, reader>> /\ UNCHANGED <<child, handle>>
    BY <1>6 DEF RetiredAll, Step
  <2>2. /\ meters'.at \in {"start", "done"} /\ UNCHANGED <<meters.want, meters.cancel>>
        /\ meters'.at = "done" => Banked(meters.want) = {}
        /\ meters' \in Coordinators
    BY <2>1 DEF MetersInv, MetersType, Coordinators, Stages
  <2>3. meters'.at = "done" => \A k \in Keys : workers[k] = 0
    BY <2>1, <2>2 DEF Stale, Banked
  <2>4. LiveReadersAreKnown'
    BY <2>1, <2>2, <2>3 DEF MetersInv, LiveReadersAreKnown, Live, Started
  <2> QED
    BY <1>4, <2>1, <2>2, <2>4
<1>7. CASE StartedAll \/ Woken
  <2>1. /\ meters.at \in {"start", "recv"}
        /\ \/ meters' = [meters EXCEPT !.at = "recv"]
           \/ meters' = [meters EXCEPT !.at = "read", !.wake = FALSE]
        /\ UNCHANGED coordination /\ UNCHANGED <<workers, reader>> /\ UNCHANGED <<child, handle>>
    BY <1>7 DEF StartedAll, Woken, Step
  <2>2. /\ meters'.at \in {"recv", "read"} /\ UNCHANGED <<meters.want, meters.cancel>>
        /\ meters' \in Coordinators
    BY <2>1 DEF MetersInv, MetersType, Coordinators, Stages
  <2>3. LiveReadersAreKnown'
    BY <2>1, <2>2 DEF MetersInv, LiveReadersAreKnown, Live, Started
  <2> QED
    BY <1>4, <2>1, <2>2, <2>3
<1>8. meters.at # "done"
  BY DEF Coordinator, ReadBank, RetireStale, JoinStale, RetiredAll, StartReader, StartedAll, Woken
<1> QED
  BY <1>1, <1>2, <1>3, <1>5, <1>6, <1>7, <1>8 DEF Coordinator

\* A reader goes on, with its child; it may lose its tap.
LEMMA ReaderMoves ==
    ASSUME MetersInv, NEW t \in Tokens, Live(t),
           NEW at \in {"reading", "ending", "ended", "failed"}, Becomes(t, at),
           UNCHANGED <<bank, next, meters, workers>>,
           child' \in [Tokens -> ChildStates], handle' \in [Tokens -> HandleStates],
           \A s \in Tokens \ {t} : child'[s] = child[s] /\ handle'[s] = handle[s],
           taps' \in SUBSET Tokens, flows' \in SUBSET (flows \ {t}),
           at = "failed" => child'[t] = "none" /\ handle'[t] = "none",
           at = "ended" => child'[t] \in {"none", "dead"},
           handle'[t] = "reaped" => child'[t] = "dead"
    PROVE  MetersInv'
<1> DEFINE r == [reader[t] EXCEPT !.at = at]
<1>1. reader \in [Tokens -> Readers] /\ reader[t] \in Readers
  BY DEF MetersInv, MetersType
<1>2. r \in Readers /\ r.at = at /\ r.key = reader[t].key
  BY <1>1 DEF Readers
<1>3. reader' = [reader EXCEPT ![t] = r]
  BY DEF Becomes
<1> HIDE DEF r
<1>4. /\ reader' \in [Tokens -> Readers]
      /\ reader'[t].at = at /\ reader'[t].key = reader[t].key
      /\ \A s \in Tokens : s # t => reader'[s] = reader[s]
  BY <1>1, <1>2, <1>3, OneReaderChanges
<1>5. /\ \A s \in Tokens : reader'[s].key = reader[s].key
      /\ \A s \in Tokens : reader'[s].at # "none" <=> reader[s].at # "none"
      /\ \A s \in Tokens : reader'[s].at \in {"start", "reading", "ending"} => Live(s)
  BY <1>4 DEF Live
<1>6. MetersType'
  BY <1>4 DEF MetersInv, MetersType
<1>7. TokensGivenOnce'
  BY <1>5 DEF MetersInv, TokensGivenOnce, Started
<1>t. \A j \in Keys : /\ bank[j].token # 0 => bank[j].token \in Tokens
                      /\ meters.want[j].token # 0 => meters.want[j].token \in Tokens
                      /\ workers[j] # 0 => workers[j] \in Tokens
  BY MetersAssumption DEF MetersInv, MetersType, Coordinators, Held, Tokens
<1>8. WorkersAreStarted'
  BY <1>5, <1>t DEF MetersInv, WorkersAreStarted, Started
<1>9. LiveReadersAreKnown'
  BY <1>5 DEF MetersInv, LiveReadersAreKnown, Started, Live
<1>10. ChildrenAreRead'
  BY <1>4 DEF MetersInv, ChildrenAreRead
<1>11. ReadyIsCurrent'
  BY <1>4, <1>6 DEF MetersInv, MetersType, ReadyIsCurrent, IsWanted
<1> QED
  BY <1>6, <1>7, <1>8, <1>9, <1>10, <1>11 DEF MetersInv

\* Invalid takes the tap of a reader.
LEMMA InvalidTakes ==
    ASSUME MetersInv, NEW t, Invalid({t})
    PROVE  taps' \in SUBSET Tokens /\ flows' \in SUBSET (flows \ {t})
  BY DEF Invalid, MetersInv, MetersType

\* One attempt to end a child.
LEMMA TerminateOne ==
    ASSUME MetersInv, NEW t \in Tokens, Proc!Terminate(t)
    PROVE  /\ child' \in [Tokens -> ChildStates] /\ handle' \in [Tokens -> HandleStates]
           /\ \A s \in Tokens \ {t} : child'[s] = child[s] /\ handle'[s] = handle[s]
           /\ handle'[t] = "reaped" => child'[t] = "dead"
<1>1. /\ child \in [Tokens -> ChildStates] /\ handle \in [Tokens -> HandleStates]
      /\ handle[t] = "reaped" => child[t] = "dead"
  BY DEF MetersInv, MetersType, ChildrenAreRead
<1>2. /\ "dead" \in ChildStates /\ {"reaping", "reaped"} \subseteq HandleStates
  BY DEF ChildStates, HandleStates
<1> QED
  BY <1>1, <1>2 DEF Proc!Terminate

LEMMA SpawnOne ==
    ASSUME MetersInv, NEW t \in Tokens, Proc!Spawn(t)
    PROVE  /\ child' \in [Tokens -> ChildStates] /\ handle' \in [Tokens -> HandleStates]
           /\ \A s \in Tokens \ {t} : child'[s] = child[s] /\ handle'[s] = handle[s]
           /\ handle'[t] = "held"
<1>1. /\ child \in [Tokens -> ChildStates] /\ handle \in [Tokens -> HandleStates]
  BY DEF MetersInv, MetersType
<1>2. "born" \in ChildStates /\ "held" \in HandleStates
  BY DEF ChildStates, HandleStates
<1> QED
  BY <1>1, <1>2 DEF Proc!Spawn

LEMMA ReaderKeeps ==
    ASSUME MetersInv, NEW t \in Tokens, Reader(t) \/ SpawnFails(t)
    PROVE  MetersInv' /\ Live(t) /\ UNCHANGED meters
<1>1. CASE ReaderSpawns(t) /\ reader[t].cancel
  <2>1. /\ reader[t].at = "start" /\ Becomes(t, "ended") /\ Invalid({t})
        /\ UNCHANGED <<child, handle>> /\ UNCHANGED <<bank, next, meters, workers>>
    BY <1>1 DEF ReaderSpawns
  <2>2. child[t] = "none" /\ handle[t] = "none" /\ child' = child /\ handle' = handle
    BY <2>1 DEF MetersInv, ChildrenAreRead
  <2>3. child' \in [Tokens -> ChildStates] /\ handle' \in [Tokens -> HandleStates]
    BY <2>2 DEF MetersInv, MetersType
  <2> QED
    BY <2>1, <2>2, <2>3, InvalidTakes, ReaderMoves DEF Live
<1>2. CASE ReaderSpawns(t) /\ ~reader[t].cancel
  <2>1. /\ reader[t].at = "start" /\ Becomes(t, "reading") /\ Proc!Spawn(t)
        /\ taps' = taps /\ flows' = flows /\ UNCHANGED <<bank, next, meters, workers>>
    BY <1>2 DEF ReaderSpawns
  <2>2. flows' \in SUBSET (flows \ {t}) /\ taps' \in SUBSET Tokens
    BY <2>1 DEF MetersInv, MetersType, ReadyIsCurrent
  <2> QED
    BY <2>1, <2>2, SpawnOne, ReaderMoves DEF Live
<1>3. CASE SpawnFails(t)
  <2>1. /\ reader[t].at = "start" /\ Becomes(t, "failed") /\ Invalid({t})
        /\ UNCHANGED <<child, handle>> /\ UNCHANGED <<bank, next, meters, workers>>
    BY <1>3 DEF SpawnFails
  <2>2. child[t] = "none" /\ handle[t] = "none" /\ child' = child /\ handle' = handle
    BY <2>1 DEF MetersInv, ChildrenAreRead
  <2>3. child' \in [Tokens -> ChildStates] /\ handle' \in [Tokens -> HandleStates]
    BY <2>2 DEF MetersInv, MetersType
  <2> QED
    BY <2>1, <2>2, <2>3, InvalidTakes, ReaderMoves DEF Live
<1>4. CASE ReaderEnds(t)
  <2>1. /\ reader[t].at = "reading" /\ Becomes(t, "ending") /\ Invalid({t})
        /\ UNCHANGED <<child, handle>> /\ UNCHANGED <<bank, next, meters, workers>>
    BY <1>4 DEF ReaderEnds, EndsTap
  <2>2. child' = child /\ handle' = handle /\ (handle[t] = "reaped" => child[t] = "dead")
    BY <2>1 DEF MetersInv, ChildrenAreRead
  <2>3. child' \in [Tokens -> ChildStates] /\ handle' \in [Tokens -> HandleStates]
    BY <2>2 DEF MetersInv, MetersType
  <2> QED
    BY <2>1, <2>2, <2>3, InvalidTakes, ReaderMoves DEF Live
<1>5. CASE ReaderReaps(t)
  <2> DEFINE at == IF handle'[t] = "reaped" THEN "ended" ELSE "ending"
  <2>1. /\ reader[t].at = "ending" /\ Proc!Terminate(t) /\ Becomes(t, at)
        /\ UNCHANGED <<bank, next, taps, flows>> /\ UNCHANGED <<bank, next, meters, workers>>
    BY <1>5 DEF ReaderReaps, Proc!Terminated, coordination
  <2>2. flows' \in SUBSET (flows \ {t}) /\ taps' \in SUBSET Tokens
    BY <2>1 DEF MetersInv, MetersType, ReadyIsCurrent
  <2>3. /\ child' \in [Tokens -> ChildStates] /\ handle' \in [Tokens -> HandleStates]
        /\ \A s \in Tokens \ {t} : child'[s] = child[s] /\ handle'[s] = handle[s]
        /\ handle'[t] = "reaped" => child'[t] = "dead"
    BY <2>1, TerminateOne
  <2>4. CASE handle'[t] = "reaped"
    <3>1. Becomes(t, "ended")
      BY <2>1, <2>4
    <3> QED
      BY <2>1, <2>2, <2>3, <2>4, <3>1, ReaderMoves DEF Live
  <2>5. CASE handle'[t] # "reaped"
    <3>1. Becomes(t, "ending")
      BY <2>1, <2>5
    <3> QED
      BY <2>1, <2>2, <2>3, <2>5, <3>1, ReaderMoves DEF Live
  <2> QED
    BY <2>4, <2>5
<1>6. CASE ReaderReads(t)
  <2>1. /\ reader[t].at = "reading" /\ IsWanted(t)
        /\ flows' = flows \cup ({t} \cap taps) /\ taps' = taps
        /\ UNCHANGED <<bank, next, meters, workers>> /\ UNCHANGED <<reader, child, handle>>
    BY <1>6 DEF ReaderReads
  <2>2. MetersType'
    BY <2>1 DEF MetersInv, MetersType
  <2>3. TokensGivenOnce' /\ WorkersAreStarted'
    BY <2>1 DEF MetersInv, TokensGivenOnce, WorkersAreStarted, Started
  <2>4. LiveReadersAreKnown' /\ ChildrenAreRead'
    BY <2>1, NoReaderMoves DEF MetersInv
  <2>5. ReadyIsCurrent'
    BY <2>1 DEF MetersInv, ReadyIsCurrent, IsWanted
  <2> QED
    BY <2>1, <2>2, <2>3, <2>4, <2>5 DEF MetersInv, Live
<1> QED
  BY <1>1, <1>2, <1>3, <1>4, <1>5, <1>6 DEF Reader

\* What happens to children by themselves: none is born of nothing, and none rises.
LEMMA ChildrenMove ==
    ASSUME MetersInv, UNCHANGED coordination, UNCHANGED <<meters, workers, reader, handle>>,
           child' \in [Tokens -> ChildStates],
           \A s \in Tokens : child[s] \in {"none", "dead"} => child'[s] = child[s]
    PROVE  MetersInv'
<1>1. UNCHANGED <<bank, next, taps, flows>>
  BY DEF coordination
<1>2. MetersType'
  BY <1>1 DEF MetersInv, MetersType
<1>3. TokensGivenOnce' /\ WorkersAreStarted' /\ LiveReadersAreKnown'
  BY <1>1 DEF MetersInv, TokensGivenOnce, WorkersAreStarted, LiveReadersAreKnown, Started, Live
<1>4. ChildrenAreRead'
  BY DEF MetersInv, ChildrenAreRead
<1>5. ReadyIsCurrent'
  BY <1>1 DEF MetersInv, ReadyIsCurrent, IsWanted
<1> QED
  BY <1>2, <1>3, <1>4, <1>5 DEF MetersInv

LEMMA ChildKeeps ==
    ASSUME MetersInv, UNCHANGED coordination, UNCHANGED <<meters, workers, reader, handle>>,
           \/ \E t \in Tokens : \/ \E owner \in BOOLEAN : Proc!Protect(t, owner)
                                \/ Proc!Released(t) \/ Proc!Dies(t) \/ Proc!Sticks(t)
           \/ Proc!OwnerDies
    PROVE  MetersInv'
<1>1. child \in [Tokens -> ChildStates] /\ {"live", "dead", "stuck"} \subseteq ChildStates
  BY DEF MetersInv, MetersType, ChildStates
<1>2. CASE Proc!OwnerDies
  <2>1. child' = [c \in Tokens |-> IF child[c] = "live" THEN "dead" ELSE child[c]]
    BY <1>2 DEF Proc!OwnerDies
  <2> QED
    BY <1>1, <2>1, ChildrenMove
<1>3. ASSUME NEW t \in Tokens, NEW as \in {"live", "dead", "stuck"},
             child[t] \notin {"none", "dead"}, child' = [child EXCEPT ![t] = as]
      PROVE  MetersInv'
  BY <1>1, <1>3, ChildrenMove
<1>4. ASSUME NEW t \in Tokens, NEW owner \in BOOLEAN, Proc!Protect(t, owner)
      PROVE  MetersInv'
  <2>1. child[t] = "born" /\ \E as \in {"live", "dead"} : child' = [child EXCEPT ![t] = as]
    BY <1>4 DEF Proc!Protect
  <2> QED
    BY <1>3, <2>1
<1>5. ASSUME NEW t \in Tokens, Proc!Released(t) \/ Proc!Dies(t) \/ Proc!Sticks(t)
      PROVE  MetersInv'
  <2>1. /\ child[t] \in {"live", "stuck"}
        /\ \E as \in {"dead", "stuck"} : child' = [child EXCEPT ![t] = as]
    BY <1>5 DEF Proc!Released, Proc!Dies, Proc!Sticks
  <2> QED
    BY <1>3, <2>1
<1> QED
  BY <1>2, <1>4, <1>5

LEMMA MetersBegin == Init => MetersInv
<1> SUFFICES ASSUME Init PROVE MetersInv
  OBVIOUS
<1>1. /\ bank = [k \in Keys |-> NoTarget] /\ next = 0 /\ taps = {} /\ flows = {}
      /\ meters = [at |-> "recv", want |-> [k \in Keys |-> NoTarget], wake |-> TRUE,
                   cancel |-> FALSE, join |-> 0, failed |-> FALSE]
      /\ workers = [k \in Keys |-> 0]
      /\ reader = [t \in Tokens |-> NoReader]
      /\ child = [t \in Tokens |-> "none"] /\ handle = [t \in Tokens |-> "none"]
  BY DEF Init, MetersInit, Proc!ProcessesInit
<1>2. NoTarget \in Held /\ NoTarget.token = 0 /\ 0 \in 0 .. MaxTokens
  BY MetersAssumption DEF NoTarget, Held
<1>3. NoReader \in Readers /\ NoReader.at = "none"
  BY DEF NoReader, Readers
<1>4. meters \in Coordinators
  BY <1>1, <1>2 DEF Coordinators, Stages
<1>5. "none" \in ChildStates /\ "none" \in HandleStates
  BY DEF ChildStates, HandleStates
<1>6. MetersType
  BY <1>1, <1>2, <1>3, <1>4, <1>5 DEF MetersType
<1>7. TokensGivenOnce /\ WorkersAreStarted
  BY <1>1, <1>2, <1>3 DEF TokensGivenOnce, WorkersAreStarted, Started
<1>8. LiveReadersAreKnown /\ ChildrenAreRead /\ ReadyIsCurrent
  BY <1>1, <1>3 DEF LiveReadersAreKnown, ChildrenAreRead, ReadyIsCurrent, Live
<1> QED
  BY <1>6, <1>7, <1>8 DEF MetersInv

\* The variables of the meters stay as they are.
LEMMA MetersRest ==
    ASSUME MetersInv, UNCHANGED meterVars
    PROVE  MetersInv'
<1>1. UNCHANGED coordination /\ UNCHANGED <<meters, workers, reader, handle>> /\ child' = child
  BY DEF meterVars, coordination
<1>2. child' \in [Tokens -> ChildStates]
  BY <1>1 DEF MetersInv, MetersType
<1> QED
  BY <1>1, <1>2, ChildrenMove

LEMMA MetersStep_Keeps ==
    ASSUME MetersInv, [Next]_vars
    PROVE  MetersInv'
<1>1. ASSUME UNCHANGED meterVars
      PROVE  MetersInv'
  BY <1>1, MetersRest
<1>2. CASE \/ Activate \/ Shutdown \/ StopHost \/ StopHealth \/ StopOuter \/ WaitMeters
           \/ StopMixer \/ CleanupFails \/ EndDrain
           \/ (\E w \in Workers : Panic(w)) \/ UNCHANGED vars
  BY <1>1, <1>2 DEF Activate, Shutdown, StopHost, StopHealth, StopOuter, WaitMeters, StopMixer,
                    CleanupFails, EndDrain, Panic, vars
<1>3. ASSUME NEW new \in Bindings, Retarget(new)
      PROVE  MetersInv'
  BY <1>3, SetTargetsKeeps, BackendAssumption DEF Retarget
<1>4. CASE StopMeters
  BY <1>4, CancelMetersKeeps DEF StopMeters
<1>5. CASE MetersStep
  BY <1>5, CoordinatorKeeps DEF MetersStep
<1>6. ASSUME NEW t \in Tokens, ReaderStep(t) \/ SpawnError(t)
      PROVE  MetersInv'
  BY <1>6, ReaderKeeps DEF ReaderStep, SpawnError
<1>7. ASSUME NEW t \in Tokens, ChildStarts(t) \/ ChildLeaves(t) \/ ChildFails(t)
      PROVE  MetersInv'
  <2>1. /\ UNCHANGED coordination /\ UNCHANGED <<meters, workers, reader, handle>>
        /\ Proc!Protect(t, alive) \/ Proc!Released(t) \/ Proc!Dies(t) \/ Proc!Sticks(t)
    BY <1>7 DEF ChildStarts, ChildLeaves, ChildFails
  <2>2. CASE Proc!Protect(t, alive)
    <3>1. \E as \in {"live", "dead"} : child' = [child EXCEPT ![t] = as] /\ child[t] = "born"
      BY <2>2 DEF Proc!Protect
    <3>2. child \in [Tokens -> ChildStates] /\ {"live", "dead"} \subseteq ChildStates
      BY DEF MetersInv, MetersType, ChildStates
    <3> QED
      BY <2>1, <3>1, <3>2, ChildrenMove
  <2> QED
    BY <2>1, <2>2, ChildKeeps
<1>8. CASE Crash
  <2>1. /\ UNCHANGED coordination /\ UNCHANGED <<meters, workers, reader, handle>>
        /\ Proc!OwnerDies
    BY <1>8 DEF Crash, coordination
  <2> QED
    BY <2>1, ChildKeeps
<1> QED
  BY <1>2, <1>3, <1>4, <1>5, <1>6, <1>7, <1>8 DEF Next

-----------------------------------------------------------------------------
(* The backend.                                                            *)

\* What a join leaves of the threads it waited for.
LEMMA JoinSettles ==
    ASSUME BackendType, NEW ws \in SUBSET Workers, Join(ws)
    PROVE  /\ thread' \in [Workers -> {"off", "up", "panicked", "joined", "failed"}]
           /\ \A others \in SUBSET Workers : Gone(others) => Gone(others)'
           /\ ~Failed(ws) => Gone(ws)'
<1>1. \A w \in Workers :
         thread'[w] = IF w \in ws /\ thread[w] = "up" THEN "joined"
                      ELSE IF w \in ws /\ thread[w] = "panicked" THEN "failed" ELSE thread[w]
  BY DEF Join
<1>2. thread' \in [Workers -> {"off", "up", "panicked", "joined", "failed"}]
  BY DEF Join, BackendType
<1>3. \A others \in SUBSET Workers : Gone(others) => Gone(others)'
  BY <1>1 DEF Gone
<1>4. ~Failed(ws) => Gone(ws)'
  BY <1>1 DEF Gone, Failed, BackendType
<1> QED
  BY <1>2, <1>3, <1>4

\* Steps of which the drain and what it stops see nothing.
LEMMA BackendRests ==
    ASSUME BackendInv, UNCHANGED <<alive, thread, mixer, active, drain>>,
           UNCHANGED <<leases, stopping, stopped>>,
           meters.at = "done" => meters'.at = "done",
           ~active /\ NoReaderLives => NoReaderLives'
    PROVE  BackendInv'
<1>1. BackendType'
  BY DEF BackendInv, BackendType
<1>2. DrainIsThorough'
  BY DEF BackendInv, DrainIsThorough, Gone
<1>3. NothingRuns'
  BY DEF BackendInv, NothingRuns, Gone
<1> QED
  BY <1>1, <1>2, <1>3 DEF BackendInv

LEMMA WorkersAre ==
    /\ Outer \in SUBSET Workers /\ {"host"} \in SUBSET Workers /\ {"health"} \in SUBSET Workers
    /\ Workers = {"host"} \cup {"health"} \cup Outer
    /\ "host" \notin Outer
  BY DEF Workers, Outer

LEMMA GoneAll ==
    /\ Gone({"host"}) /\ Gone({"health"}) /\ Gone(Outer) <=> Gone(Workers)
    /\ Gone(Workers \ {"host"}) /\ Gone({"host"}) <=> Gone(Workers)
  BY WorkersAre DEF Gone

\* Where the drain is when it has gone on.
LEMMA DrainGoes ==
    ASSUME BackendType, NEW at \in Drains, NEW issue \in BOOLEAN, Goes(at, issue)
    PROVE  /\ drain' \in [at : Drains, issue : BOOLEAN, outer : {"none", "issue", "clean"}]
           /\ drain'.at = at /\ drain'.outer = drain.outer
           /\ drain'.issue = (drain.issue \/ issue)
  BY DEF BackendType, Goes

LEMMA BackendBegin == Init => BackendInv
<1> SUFFICES ASSUME Init PROVE BackendInv
  OBVIOUS
<1>1. BackendType
  BY DEF Init, BackendType, Idle, Drains
<1>2. /\ drain.at = "idle" /\ drain.outer = "none" /\ mixer = "off" /\ ~active
      /\ Gone(Workers \ {"host"}) /\ ~stopped /\ "installation" \in leases
  BY DEF Init, Idle, Gone
<1>3. DrainIsThorough
  BY <1>2 DEF DrainIsThorough, Init, Idle
<1>4. NoReaderLives
  BY DEF Init, MetersInit, NoReaderLives, Live, NoReader
<1>5. NothingRuns
  BY <1>2, <1>4 DEF NothingRuns
<1> QED
  BY <1>1, <1>3, <1>5 DEF BackendInv

LEMMA ActivateKeeps ==
    ASSUME BackendInv, Activate
    PROVE  BackendInv'
<1>1. /\ alive /\ alive' = alive /\ ~stopping /\ ~active /\ active' = TRUE /\ mixer' = "running"
      /\ thread' = [w \in Workers |-> IF w = "host" THEN thread[w] ELSE "up"]
      /\ UNCHANGED <<drain, stopping, stopped>> /\ leases' = leases \cup {"vendor"}
  BY DEF Activate, Owner, Starts
<1>2. BackendType'
  BY <1>1 DEF BackendInv, BackendType
<1>3. drain.at = "idle" /\ drain.outer = "none" /\ ~stopped
  BY <1>1 DEF BackendInv, BackendType, DrainIsThorough, NothingRuns
<1>4. DrainIsThorough'
  BY <1>1, <1>3 DEF BackendInv, DrainIsThorough
<1>5. NothingRuns'
  BY <1>1, <1>3 DEF BackendInv, NothingRuns
<1> QED
  BY <1>2, <1>4, <1>5 DEF BackendInv

LEMMA ShutdownKeeps ==
    ASSUME BackendInv, Shutdown
    PROVE  BackendInv'
<1>1. /\ alive' = alive /\ ~stopped /\ stopping' = TRUE /\ stopped' = stopped
      /\ drain' = [drain EXCEPT !.at = "host", !.issue = FALSE]
      /\ UNCHANGED <<leases, thread, mixer, active>> /\ UNCHANGED <<reader, meters>>
  BY DEF Shutdown, Owner, meterVars
<1>2. /\ drain'.at = "host" /\ drain'.outer = drain.outer
      /\ drain' \in [at : Drains, issue : BOOLEAN, outer : {"none", "issue", "clean"}]
  BY <1>1 DEF BackendInv, BackendType, Drains
<1>3. BackendType'
  BY <1>1, <1>2 DEF BackendInv, BackendType
<1>4. DrainIsThorough'
  BY <1>1, <1>2 DEF BackendInv, DrainIsThorough, Gone
<1>5. NothingRuns'
  BY <1>1 DEF BackendInv, NothingRuns, Gone, NoReaderLives, Live
<1> QED
  BY <1>3, <1>4, <1>5 DEF BackendInv

\* A stage of the drain: the workers' threads are joined, or none is.
LEMMA StageKeeps ==
    ASSUME BackendInv, alive, UNCHANGED <<alive, leases, active, stopping, stopped>>,
           UNCHANGED mixer, UNCHANGED reader, UNCHANGED meters.at,
           thread' \in [Workers -> {"off", "up", "panicked", "joined", "failed"}],
           \A others \in SUBSET Workers : Gone(others) => Gone(others)',
           drain.at # "idle",
           drain' \in [at : Drains, issue : BOOLEAN, outer : {"none", "issue", "clean"}],
           drain'.at \in {"health", "outer", "meters", "wait", "mixer"} => active,
           drain'.outer = "clean" => Gone(Outer)',
           ~drain'.issue =>
              /\ drain'.at \notin {"idle", "host"} => Gone({"host"})'
              /\ drain'.at \in {"outer", "meters", "wait", "mixer"} => Gone({"health"})'
              /\ drain'.at \in {"meters", "wait", "mixer"} => Gone(Outer)'
              /\ ~(drain'.at = "end" /\ active),
           drain'.at = "mixer" => meters.at = "done"
    PROVE  BackendInv'
<1>1. BackendType'
  BY DEF BackendInv, BackendType
<1>2. stopping /\ ~stopped
  BY DEF BackendInv, DrainIsThorough
<1>3. DrainIsThorough'
  BY <1>2 DEF BackendInv, DrainIsThorough
<1>4. NothingRuns'
  BY <1>2, WorkersAre DEF BackendInv, NothingRuns, NoReaderLives, Live
<1> QED
  BY <1>1, <1>3, <1>4 DEF BackendInv

LEMMA StopHostKeeps ==
    ASSUME BackendInv, StopHost
    PROVE  BackendInv'
<1> DEFINE at == IF active THEN "health" ELSE "end"
<1>1. /\ alive /\ drain.at = "host" /\ Join({"host"}) /\ Goes(at, Failed({"host"}))
      /\ UNCHANGED <<alive, leases, active, stopping, stopped>> /\ UNCHANGED mixer
      /\ UNCHANGED reader /\ UNCHANGED meters.at
  BY DEF StopHost, Owner, Quiet, meterVars
<1>2. at \in Drains /\ Failed({"host"}) \in BOOLEAN
  BY DEF Drains, Failed
<1>3. /\ drain' \in [at : Drains, issue : BOOLEAN, outer : {"none", "issue", "clean"}]
      /\ drain'.at = at /\ drain'.outer = drain.outer
      /\ drain'.issue = (drain.issue \/ Failed({"host"}))
  <2> HIDE DEF at
  <2> QED
    BY <1>1, <1>2, DrainGoes DEF BackendInv
<1>4. /\ thread' \in [Workers -> {"off", "up", "panicked", "joined", "failed"}]
      /\ \A others \in SUBSET Workers : Gone(others) => Gone(others)'
      /\ ~Failed({"host"}) => Gone({"host"})'
  BY <1>1, JoinSettles, WorkersAre DEF BackendInv
<1>5. /\ drain'.at \in {"health", "outer", "meters", "wait", "mixer"} => active
      /\ drain'.at \notin {"outer", "meters", "wait", "mixer"}
      /\ ~(drain'.at = "end" /\ active)
  BY <1>3 DEF BackendInv, BackendType
<1>6. drain'.outer = "clean" => Gone(Outer)'
  BY <1>3, <1>4, WorkersAre DEF BackendInv, DrainIsThorough
<1> QED
  BY <1>1, <1>3, <1>4, <1>5, <1>6, StageKeeps

LEMMA StopHealthKeeps ==
    ASSUME BackendInv, StopHealth
    PROVE  BackendInv'
<1>1. /\ alive /\ drain.at = "health" /\ Join({"health"}) /\ Goes("outer", Failed({"health"}))
      /\ UNCHANGED <<alive, leases, active, stopping, stopped>> /\ UNCHANGED mixer
      /\ UNCHANGED reader /\ UNCHANGED meters.at
  BY DEF StopHealth, Owner, Quiet, meterVars
<1>2. "outer" \in Drains /\ Failed({"health"}) \in BOOLEAN
  BY DEF Drains, Failed
<1>3. /\ drain' \in [at : Drains, issue : BOOLEAN, outer : {"none", "issue", "clean"}]
      /\ drain'.at = "outer" /\ drain'.outer = drain.outer
      /\ drain'.issue = (drain.issue \/ Failed({"health"}))
  BY <1>1, <1>2, DrainGoes DEF BackendInv
<1>4. /\ thread' \in [Workers -> {"off", "up", "panicked", "joined", "failed"}]
      /\ \A others \in SUBSET Workers : Gone(others) => Gone(others)'
      /\ ~Failed({"health"}) => Gone({"health"})'
  BY <1>1, JoinSettles, WorkersAre DEF BackendInv
<1>5. active /\ (~drain.issue => Gone({"host"}))
  BY <1>1 DEF BackendInv, DrainIsThorough
<1>6. drain'.outer = "clean" => Gone(Outer)'
  BY <1>3, <1>4, WorkersAre DEF BackendInv, DrainIsThorough
<1>7. ~drain'.issue => Gone({"host"})' /\ Gone({"health"})'
  BY <1>3, <1>4, <1>5, WorkersAre
<1> QED
  BY <1>1, <1>3, <1>4, <1>5, <1>6, <1>7, StageKeeps

LEMMA StopOuterKeeps ==
    ASSUME BackendInv, StopOuter
    PROVE  BackendInv'
<1>1. /\ alive /\ drain.at = "outer"
      /\ IF drain.outer = "none" THEN Join(Outer) ELSE UNCHANGED thread
      /\ drain' = [at |-> "meters", issue |-> drain.issue \/ OuterIssue,
                   outer |-> IF OuterIssue THEN "issue" ELSE "clean"]
      /\ UNCHANGED <<alive, leases, active, stopping, stopped>> /\ UNCHANGED mixer
      /\ UNCHANGED reader /\ UNCHANGED meters.at
  BY DEF StopOuter, Owner, Quiet, meterVars
<1>2. OuterIssue \in BOOLEAN
  BY DEF OuterIssue, Failed
<1>3. /\ drain'.at = "meters" /\ (drain'.outer = "clean" <=> ~OuterIssue)
      /\ (drain'.issue <=> drain.issue \/ OuterIssue)
      /\ drain' \in [at : Drains, issue : BOOLEAN, outer : {"none", "issue", "clean"}]
  <2>1. drain.issue \in BOOLEAN
    BY DEF BackendInv, BackendType
  <2> HIDE DEF OuterIssue
  <2> QED
    BY <1>1, <1>2, <2>1 DEF Drains
<1>4. /\ thread' \in [Workers -> {"off", "up", "panicked", "joined", "failed"}]
      /\ \A others \in SUBSET Workers : Gone(others) => Gone(others)'
      /\ ~OuterIssue => Gone(Outer)'
  <2>1. CASE drain.outer = "none"
    BY <1>1, <2>1, JoinSettles, WorkersAre DEF BackendInv, OuterIssue
  <2>2. CASE drain.outer # "none"
    <3>1. thread' = thread /\ (~OuterIssue => drain.outer = "clean")
      BY <1>1, <2>2 DEF OuterIssue, BackendInv, BackendType
    <3> QED
      BY <3>1 DEF BackendInv, BackendType, DrainIsThorough, Gone
  <2> QED
    BY <2>1, <2>2
<1>5. active /\ (~drain.issue => Gone({"host"}) /\ Gone({"health"}))
  BY <1>1 DEF BackendInv, DrainIsThorough
<1>6. ~drain'.issue => Gone({"host"})' /\ Gone({"health"})' /\ Gone(Outer)'
  BY <1>3, <1>4, <1>5, WorkersAre
<1> QED
  BY <1>1, <1>3, <1>4, <1>5, <1>6, StageKeeps

\* The stages that join no thread: stopping the meters and waiting for them.
LEMMA MetersStagesKeep ==
    ASSUME BackendInv, StopMeters \/ WaitMeters
    PROVE  BackendInv'
<1>1. /\ alive /\ drain.at \in {"meters", "wait"} /\ thread' = thread
      /\ UNCHANGED <<alive, leases, active, stopping, stopped>> /\ UNCHANGED mixer
      /\ UNCHANGED reader
  BY DEF StopMeters, WaitMeters, Owner, Quiet, CancelMeters, meterVars
<1>2. \/ Goes("wait", FALSE)
      \/ MetersJoined /\ Goes("mixer", FALSE)
      \/ Goes("end", TRUE)
  BY DEF StopMeters, WaitMeters, AfterWait
<1>3. /\ drain' \in [at : Drains, issue : BOOLEAN, outer : {"none", "issue", "clean"}]
      /\ drain'.outer = drain.outer
      /\ \/ drain'.at = "wait" /\ drain'.issue = (drain.issue \/ FALSE)
         \/ drain'.at = "mixer" /\ drain'.issue = (drain.issue \/ FALSE) /\ MetersJoined
         \/ drain'.at = "end" /\ drain'.issue = (drain.issue \/ TRUE)
  <2>1. {"wait", "mixer", "end"} \subseteq Drains
    BY DEF Drains
  <2> QED
    BY <1>2, <2>1, DrainGoes DEF BackendInv
<1>4. \A others \in SUBSET Workers : Gone(others) => Gone(others)'
  BY <1>1 DEF Gone
<1>5. /\ active /\ (drain.outer = "clean" => Gone(Outer))
      /\ ~drain.issue => Gone({"host"}) /\ Gone({"health"}) /\ Gone(Outer)
  BY <1>1 DEF BackendInv, DrainIsThorough
<1>6. ~drain'.issue => /\ Gone({"host"})' /\ Gone({"health"})' /\ Gone(Outer)'
                       /\ drain'.at # "end"
  BY <1>3, <1>4, <1>5, WorkersAre
<1>7. drain'.outer = "clean" => Gone(Outer)'
  BY <1>3, <1>4, <1>5, WorkersAre
<1>8. drain'.at = "mixer" => meters.at = "done"
  BY <1>3 DEF MetersJoined
<1>9. UNCHANGED meters.at
  <2>1. CASE StopMeters
    <3>1. meters' = [meters EXCEPT !.cancel = TRUE, !.wake = TRUE]
      BY <2>1 DEF StopMeters, CancelMeters
    <3> QED
      BY <3>1
  <2>2. CASE WaitMeters
    BY <2>2 DEF WaitMeters, meterVars
  <2> QED
    BY <2>1, <2>2
<1>10. thread' \in [Workers -> {"off", "up", "panicked", "joined", "failed"}]
  BY <1>1 DEF BackendInv, BackendType
<1> QED
  BY <1>1, <1>3, <1>4, <1>5, <1>6, <1>7, <1>8, <1>9, <1>10, StageKeeps

LEMMA MixerStagesKeep ==
    ASSUME BackendInv, StopMixer \/ CleanupFails
    PROVE  BackendInv'
<1>1. /\ alive /\ drain.at = "mixer" /\ thread' = thread
      /\ UNCHANGED <<alive, leases, active, stopping, stopped>>
      /\ UNCHANGED reader /\ meters' = meters
      /\ \/ mixer' = "clean" /\ Goes("end", FALSE)
         \/ mixer' = "dirty" /\ Goes("end", TRUE)
  BY DEF StopMixer, CleanupFails, CleansUp, Owner, Quiet, meterVars
<1>2. /\ drain' \in [at : Drains, issue : BOOLEAN, outer : {"none", "issue", "clean"}]
      /\ drain'.outer = drain.outer /\ drain'.at = "end"
      /\ \/ mixer' = "clean" /\ drain'.issue = (drain.issue \/ FALSE)
         \/ mixer' = "dirty" /\ drain'.issue = (drain.issue \/ TRUE)
  BY <1>1, DrainGoes DEF BackendInv, Drains
<1>3. /\ active /\ stopping /\ ~stopped /\ meters.at = "done"
      /\ ~drain.issue => Gone(Workers)
      /\ drain.outer = "clean" => Gone(Outer)
  BY <1>1, GoneAll DEF BackendInv, DrainIsThorough
<1>4. BackendType'
  BY <1>1, <1>2 DEF BackendInv, BackendType
<1>5. DrainIsThorough'
  BY <1>1, <1>2, <1>3, GoneAll DEF DrainIsThorough, Gone
<1>6. NothingRuns'
  BY <1>1, <1>3 DEF BackendInv, NothingRuns
<1> QED
  BY <1>4, <1>5, <1>6 DEF BackendInv

\* When the coordinator is done no reader lives.
LEMMA DoneMeansNone ==
    ASSUME MetersInv, meters.at = "done"
    PROVE  NoReaderLives
<1> SUFFICES ASSUME NEW t \in Tokens, Live(t)
             PROVE  FALSE
  BY DEF NoReaderLives
<1>1. workers[reader[t].key] = t
  BY DEF MetersInv, LiveReadersAreKnown
<1>2. reader[t].key \in Keys
  BY DEF MetersInv, TokensGivenOnce, Live, Started
<1>3. t = 0
  BY <1>1, <1>2 DEF MetersInv, LiveReadersAreKnown
<1> QED
  BY <1>3 DEF Tokens

LEMMA EndDrainKeeps ==
    ASSUME MetersInv, BackendInv, EndDrain
    PROVE  BackendInv'
<1>1. /\ alive /\ alive' = alive /\ drain.at = "end" /\ Goes("idle", FALSE)
      /\ UNCHANGED <<thread, mixer, stopping>> /\ UNCHANGED <<reader, meters>>
      /\ \/ ~drain.issue /\ leases' = {} /\ stopped' = TRUE /\ active' = FALSE
         \/ UNCHANGED <<leases, stopped, active>>
  BY DEF EndDrain, Owner, Releasable, meterVars
<1>2. /\ drain' \in [at : Drains, issue : BOOLEAN, outer : {"none", "issue", "clean"}]
      /\ drain'.outer = drain.outer /\ drain'.at = "idle"
  BY <1>1, DrainGoes DEF BackendInv, Drains
<1>3. stopping /\ ~stopped
  BY <1>1 DEF BackendInv, DrainIsThorough
<1>4. BackendType'
  BY <1>1, <1>2 DEF BackendInv, BackendType
<1>5. DrainIsThorough'
  BY <1>1, <1>2, <1>3 DEF BackendInv, DrainIsThorough, Gone
<1>6. ASSUME ~drain.issue
      PROVE  Gone(Workers) /\ NoReaderLives /\ mixer \in {"off", "clean"}
  <2>1. CASE active
    <3>1. Gone(Workers) /\ mixer = "clean" /\ meters.at = "done"
      BY <1>1, <1>6, <2>1 DEF BackendInv, DrainIsThorough
    <3> QED
      BY <3>1, DoneMeansNone
  <2>2. CASE ~active
    <3>1. Gone(Workers \ {"host"}) /\ Gone({"host"})
      BY <1>1, <1>6, <2>2 DEF BackendInv, DrainIsThorough, NothingRuns
    <3> QED
      BY <2>2, <3>1, GoneAll DEF BackendInv, NothingRuns
  <2> QED
    BY <2>1, <2>2
<1>7. NothingRuns'
  <2>1. CASE ~drain.issue /\ leases' = {} /\ stopped' = TRUE /\ active' = FALSE
    <3>1. NoReaderLives' /\ Gone(Workers)' /\ Gone(Workers \ {"host"})' /\ mixer' \in {"off", "clean"}
      BY <1>1, <1>6, <2>1 DEF NoReaderLives, Live, Gone
    <3> QED
      BY <1>1, <1>3, <2>1, <3>1 DEF NothingRuns
  <2>2. CASE UNCHANGED <<leases, stopped, active>>
    BY <1>1, <2>2 DEF BackendInv, NothingRuns, NoReaderLives, Live, Gone
  <2> QED
    BY <1>1, <2>1, <2>2
<1> QED
  BY <1>4, <1>5, <1>7 DEF BackendInv

LEMMA PanicKeeps ==
    ASSUME BackendInv, NEW w \in Workers, Panic(w)
    PROVE  BackendInv'
<1>1. /\ thread[w] = "up" /\ thread' = [thread EXCEPT ![w] = "panicked"]
      /\ UNCHANGED <<alive, leases, mixer, active, drain, stopping, stopped>>
      /\ UNCHANGED <<reader, meters>>
  BY DEF Panic, meterVars
<1>2. BackendType'
  BY <1>1 DEF BackendInv, BackendType
<1>3. \A others \in SUBSET Workers : Gone(others) => Gone(others)'
  <2>1. \A v \in Workers : thread[v] \in {"off", "joined"} => thread'[v] = thread[v]
    BY <1>1 DEF BackendInv, BackendType
  <2> QED
    BY <2>1 DEF Gone
<1>4. DrainIsThorough'
  BY <1>1, <1>3, WorkersAre DEF BackendInv, DrainIsThorough
<1>5. NothingRuns'
  BY <1>1, <1>3, WorkersAre DEF BackendInv, NothingRuns, NoReaderLives, Live
<1> QED
  BY <1>2, <1>4, <1>5 DEF BackendInv

LEMMA BackendStep ==
    ASSUME IInv, [Next]_vars
    PROVE  BackendInv'
<1>i. MetersInv /\ BackendInv
  BY DEF IInv
<1>1. CASE Activate \/ Shutdown \/ StopHost \/ StopHealth \/ StopOuter
  BY <1>1, <1>i, ActivateKeeps, ShutdownKeeps, StopHostKeeps, StopHealthKeeps, StopOuterKeeps
<1>2. CASE StopMeters \/ WaitMeters \/ StopMixer \/ CleanupFails \/ EndDrain
  BY <1>2, <1>i, MetersStagesKeep, MixerStagesKeep, EndDrainKeeps
<1>3. ASSUME NEW w \in Workers, Panic(w)
      PROVE  BackendInv'
  BY <1>3, <1>i, PanicKeeps
<1>4. ASSUME NEW new \in Bindings, Retarget(new)
      PROVE  BackendInv'
  <2>1. /\ UNCHANGED <<alive, thread, mixer, active, drain>> /\ active
        /\ UNCHANGED <<leases, stopping, stopped>> /\ meters' = [meters EXCEPT !.wake = TRUE]
    BY <1>4 DEF Retarget, SetTargets
  <2>2. meters'.at = meters.at
    BY <2>1
  <2> QED
    BY <1>i, <2>1, <2>2, BackendRests
<1>5. CASE MetersStep
  <2>1. /\ UNCHANGED <<alive, thread, mixer, active, drain>> /\ active
        /\ UNCHANGED <<leases, stopping, stopped>> /\ Coordinator
    BY <1>5 DEF MetersStep, backendVars
  <2> QED
    BY <1>i, <2>1, CoordinatorKeeps, BackendRests
<1>6. ASSUME NEW t \in Tokens, ReaderStep(t) \/ SpawnError(t)
      PROVE  BackendInv'
  <2>1. /\ UNCHANGED <<alive, thread, mixer, active, drain>>
        /\ UNCHANGED <<leases, stopping, stopped>>
        /\ (Reader(t) \/ SpawnFails(t))
    BY <1>6 DEF ReaderStep, SpawnError, backendVars
  <2>2. Live(t) /\ meters' = meters
    BY <1>i, <2>1, ReaderKeeps
  <2>3. ~NoReaderLives
    BY <2>2 DEF NoReaderLives
  <2> QED
    BY <1>i, <2>1, <2>2, <2>3, BackendRests
<1>7. ASSUME NEW t \in Tokens, ChildStarts(t) \/ ChildLeaves(t) \/ ChildFails(t)
      PROVE  BackendInv'
  <2>1. /\ UNCHANGED <<alive, thread, mixer, active, drain>>
        /\ UNCHANGED <<leases, stopping, stopped>> /\ UNCHANGED <<reader, meters>>
    BY <1>7 DEF ChildStarts, ChildLeaves, ChildFails, backendVars
  <2> QED
    BY <1>i, <2>1, BackendRests DEF NoReaderLives, Live
<1>8. CASE Crash
  <2>1. /\ alive' = FALSE /\ UNCHANGED <<thread, mixer, active, drain>>
        /\ UNCHANGED <<stopping, stopped>> /\ UNCHANGED <<reader, meters>>
    BY <1>8 DEF Crash
  <2>2. BackendType'
    BY <1>i, <2>1 DEF BackendInv, BackendType
  <2>3. DrainIsThorough'
    BY <1>i, <2>1 DEF BackendInv, DrainIsThorough, Gone
  <2>4. NothingRuns'
    BY <1>i, <2>1 DEF BackendInv, NothingRuns, Gone, NoReaderLives, Live
  <2> QED
    BY <2>2, <2>3, <2>4 DEF BackendInv
<1>9. CASE UNCHANGED vars
  BY <1>9, <1>i, BackendRests DEF vars, backendVars, meterVars, NoReaderLives, Live
<1> QED
  BY <1>1, <1>2, <1>3, <1>4, <1>5, <1>6, <1>7, <1>8, <1>9 DEF Next

LEMMA BackendInvariant == FairSpec => []IInv
<1>1. Init => IInv
  BY MetersBegin, BackendBegin DEF IInv
<1>2. IInv /\ [Next]_vars => IInv'
  BY BackendStep, MetersStep_Keeps DEF IInv
<1> QED
  BY <1>1, <1>2, PTL DEF FairSpec

\* A child runs only under a live reader.
LEMMA ChildrenHaveReaders ==
    ASSUME MetersInv, NEW t \in Children
    PROVE  t \in Tokens /\ Live(t)
<1>1. t \in Tokens /\ child[t] \in {"born", "live", "stuck"}
  BY DEF Children, Proc!Runs
<1>2. reader[t].at \in {"none", "start", "reading", "ending", "ended", "failed"}
  BY <1>1 DEF MetersInv, MetersType, Readers
<1> QED
  BY <1>1, <1>2 DEF MetersInv, ChildrenAreRead, Live

\* Two children never record one row: a reader is started after the one before
\* was joined, which is after its child was reaped, and a token is started once.
THEOREM OneChildPerRow == FairSpec => []OneReader
<1>1. ASSUME IInv
      PROVE  OneReader
  <2> SUFFICES ASSUME NEW s \in Children, NEW t \in Children, s # t, reader[s].key = reader[t].key
               PROVE  FALSE
    BY DEF OneReader
  <2>0. MetersInv
    BY <1>1 DEF IInv
  <2>1. s \in Tokens /\ t \in Tokens /\ Live(s) /\ Live(t)
    BY <2>0, ChildrenHaveReaders
  <2>2. /\ workers[reader[s].key] = s \/ (meters.at = "join" /\ meters.join = s)
        /\ workers[reader[t].key] = t \/ (meters.at = "join" /\ meters.join = t)
        /\ meters.at = "join" => workers[reader[meters.join].key] = 0
    BY <2>0, <2>1 DEF MetersInv, LiveReadersAreKnown
  <2>3. s # 0 /\ t # 0
    BY <2>1 DEF Tokens
  <2> QED
    BY <2>2, <2>3
<1> QED
  BY <1>1, BackendInvariant, PTL

\* What is ready is read by the reader of the target in force.
THEOREM ReadinessIsCurrent == FairSpec => []ReadyIsCurrent
<1>1. IInv => ReadyIsCurrent
  BY DEF IInv, MetersInv
<1> QED
  BY <1>1, BackendInvariant, PTL

\* While the program lives it gives its leases back only when every thread is
\* joined, the graph is clean and no child is left; and it cleans the graph only
\* when no child reads it.
THEOREM NothingOutlivesTheLeases == FairSpec => []OwnedUnderLease
<1>1. ASSUME IInv
      PROVE  OwnedUnderLease
  <2>0. MetersInv /\ BackendInv
    BY <1>1 DEF IInv
  <2>1. ASSUME NoReaderLives
        PROVE  Children = {}
    BY <2>0, <2>1, ChildrenHaveReaders DEF NoReaderLives
  <2>2. ASSUME alive, "installation" \notin leases
        PROVE  /\ Children = {} /\ mixer \in {"off", "clean"}
               /\ \A w \in Workers : thread[w] \in {"off", "joined"}
    BY <2>0, <2>1, <2>2 DEF BackendInv, NothingRuns, Gone
  <2>3. ASSUME drain.at = "mixer" \/ mixer \in {"dirty", "clean"}
        PROVE  Children = {}
    <3>1. meters.at = "done"
      BY <2>0, <2>3 DEF BackendInv, DrainIsThorough
    <3> QED
      BY <2>0, <2>1, <3>1, DoneMeansNone
  <2> QED
    BY <2>2, <2>3 DEF OwnedUnderLease
<1> QED
  BY <1>1, BackendInvariant, PTL
=============================================================================
