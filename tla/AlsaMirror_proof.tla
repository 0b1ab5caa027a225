-------------------------- MODULE AlsaMirror_proof --------------------------
(***************************************************************************)
(* A poll takes nothing over from the card but what another client set     *)
(* there, for any volumes, scales, jobs, failures and hands.               *)
(***************************************************************************)
EXTENDS AlsaMirror, TLAPS

\* The fields the poll in hand is done with.
Passed(f) ==
    \/ at = "commit"
    \/ at = "Headphone" /\ f = "Mute"
    \/ at = "Gain" /\ f # "Gain"

TypeOK ==
    /\ at \in {"closed", "suppressed", "idle", "refresh", "commit", "write"} \cup Fields
    /\ firmware \in [Fields -> Nat]
    /\ config \in [Fields -> Nat]
    /\ card \in [Fields -> Nat]
    /\ card["Headphone"] >= CardMin
    /\ DOMAIN job \subseteq Fields
    /\ mirror \in [last : [Fields -> Nat] \cup {Unknown},
                   pending : [Fields -> Nat \cup {Unknown}], reread : Nat]
    /\ at = "write" => mirror.last # Unknown
    /\ poll \in [due : BOOLEAN, rediscovered : BOOLEAN, dirty : BOOLEAN]

\* What the owner knows of the firmware: the baseline, or what this poll read.
Known(f) == IF Passed(f) THEN config[f] ELSE mirror.last[f]

\* The card shows it, or is still to be told it.
Baseline ==
    \A f \in Synced \ adrift :
        Passed(f) \/ mirror.last # Unknown =>
            IF mirror.pending[f] = Unknown
            THEN f \in foreign \/ card[f] = Shows(f, Known(f))
            ELSE mirror.pending[f] = ToCard(f, Known(f))

IInv == TypeOK /\ Baseline

LEMMA Scales ==
    ASSUME NEW f, NEW v \in Nat
    PROVE  /\ ToCard(f, v) \in Nat
           /\ FromCard(f, v) \in Nat
           /\ ToCard(f, FromCard(f, v)) = v
  BY MirrorAssumption DEF ToCard, FromCard

\* The control takes what it is told, within its range.
LEMMA Range ==
    ASSUME NEW f, NEW v \in Nat
    PROVE  /\ Expected(f, v) \in Nat
           /\ f = "Headphone" => Expected(f, v) >= CardMin
           /\ (f = "Headphone" => v >= CardMin) => Expected(f, v) = v
  BY MirrorAssumption DEF Expected

LEMMA Start == Init => IInv
<1> SUFFICES ASSUME Init PROVE IInv
  OBVIOUS
<1>1. \A f : Shows(f, 0) \in Nat /\ (f = "Headphone" => Shows(f, 0) >= CardMin)
  BY Scales, Range DEF Shows
<1>2. TypeOK
  <2>1. firmware \in [Fields -> Nat] /\ config \in [Fields -> Nat]
    BY DEF Init
  <2>2. card \in [Fields -> Nat] /\ card["Headphone"] >= CardMin
    BY <1>1 DEF Init, Fields
  <2>3. mirror.last = Unknown /\ mirror \in [last : [Fields -> Nat] \cup {Unknown},
           pending : [Fields -> Nat \cup {Unknown}], reread : Nat]
    BY MirrorAssumption DEF Init, NoMirror
  <2> QED
    BY <2>1, <2>2, <2>3 DEF Init, TypeOK, NoPoll
<1>3. Baseline
  BY DEF Init, Baseline, Passed, NoMirror
<1> QED
  BY <1>2, <1>3 DEF IInv

\* What a poll tells the card is a value of its scale, and the one of the
\* firmware unless the field is adrift.
LEMMA Telling ==
    ASSUME IInv, NEW f \in Synced, at = f, Wanted(f) # Unknown
    PROVE  /\ Wanted(f) \in Nat
           /\ f \notin adrift => Wanted(f) = ToCard(f, config[f])
<1> USE DEF IInv, TypeOK
<1>1. f \in Fields /\ config[f] \in Nat /\ mirror.pending[f] \in Nat \cup {Unknown}
  BY MirrorAssumption DEF Fields
<1>2. ToCard(f, config[f]) \in Nat
  BY <1>1, Scales
<1>3. ~Passed(f)
  BY <1>1 DEF Passed, Fields
<1>4. CASE \/ mirror.last = Unknown
           \/ mirror.last # Unknown /\ mirror.last[f] # config[f]
           \/ poll.rediscovered
  BY <1>2, <1>4 DEF Wanted
<1>5. CASE ~(\/ mirror.last = Unknown
             \/ mirror.last # Unknown /\ mirror.last[f] # config[f]
             \/ poll.rediscovered)
  <2>1. Wanted(f) = mirror.pending[f] /\ mirror.last # Unknown /\ mirror.last[f] = config[f]
    BY <1>5 DEF Wanted
  <2> QED
    BY <1>1, <1>3, <2>1 DEF Baseline, Known
<1> QED
  BY <1>4, <1>5

\* A field that a poll reads and finds changed was changed by another client.
LEMMA TakenOver ==
    ASSUME IInv, NEW f \in Synced, at = f, TakeOver(f)
    PROVE  f \in foreign \cup adrift
<1> USE DEF IInv, TypeOK
<1>1. ~Passed(f) /\ f \in Fields
  BY MirrorAssumption DEF Passed, Fields
<1>4. ToCard(f, config[f]) # Unknown
  BY <1>1, Scales, MirrorAssumption
<1>2. mirror.last # Unknown /\ mirror.last[f] = config[f] /\ mirror.pending[f] = Unknown
  BY <1>4 DEF TakeOver, Reads, Wanted
<1>3. card[f] # Shows(f, config[f])
  BY DEF TakeOver
<1> QED
  BY <1>1, <1>2, <1>3 DEF Baseline, Known

\* The poll after the field f, in the order of Field::ALL.
LEMMA Passing ==
    ASSUME TypeOK, NEW f \in Fields, at = f, at' = After(f), NEW g \in Fields
    PROVE  /\ Passed(g)' <=> Passed(g) \/ g = f
           /\ ~Passed(f)
           /\ After(f) \in {"commit"} \cup Fields
  BY DEF Passed, After, Fields

\* A step that leaves the mirror, the card and the poll alone.
LEMMA Aside ==
    ASSUME IInv, TypeOK', UNCHANGED <<card, mirror, config, at>>,
           foreign \subseteq foreign', adrift \subseteq adrift'
    PROVE  Baseline'
  BY DEF IInv, Baseline, Passed, Known

\* Every action keeps the baseline.
LEMMA Step ==
    ASSUME IInv, [Next]_vars
    PROVE  IInv'
<1> USE MirrorAssumption DEF IInv
<1>1. ASSUME NEW f \in Fields, NEW value \in Values(f), Hand(f, value)
      PROVE  IInv'
  <2>1. value \in Nat
    BY <1>1 DEF Values
  <2>2. TypeOK'
    BY <1>1, <2>1 DEF Hand, TypeOK, owner
  <2> QED
    BY <1>1, <2>2, Aside DEF Hand, owner
<1>2. ASSUME NEW f \in Synced, NEW value \in CardValues(f), Client(f, value)
      PROVE  IInv'
  <2>0. PICK v \in Values(f) : value = Shows(f, v)
    BY <1>2 DEF CardValues
  <2>1. value \in Nat /\ (f = "Headphone" => value >= CardMin) /\ f \in Fields
    <3>1. v \in Nat /\ f \in Fields
      BY DEF Values, Fields
    <3>2. ToCard(f, v) \in Nat
      BY <3>1, Scales
    <3> QED
      BY <2>0, <3>1, <3>2, Range DEF Shows
  <2>2. TypeOK'
    BY <1>2, <2>1 DEF Client, TypeOK, owner, Fields
  <2>3. /\ \A g \in Synced \ {f} : card'[g] = card[g]
        /\ foreign' = foreign \cup {f}
        /\ UNCHANGED <<mirror, config, at, adrift>>
    BY <1>2, <2>1 DEF Client, TypeOK, owner, Fields
  <2> QED
    BY <2>2, <2>3 DEF Baseline, Passed, Known
<1>3. CASE Show
  <2>1. TypeOK'
    BY <1>3 DEF Show, TypeOK, owner
  <2> QED
    BY <1>3, <2>1, Aside DEF Show, owner
<1>4. CASE Open
  <2>1. TypeOK' /\ mirror'.last = Unknown /\ at' = "idle"
    BY <1>4 DEF Open, TypeOK, NoMirror, world
  <2> QED
    BY <2>1 DEF Baseline, Passed
<1>5. CASE ReadFirmware
  <2>1. at = "idle" /\ at' \in {"refresh", "idle", "closed", "suppressed"}
    BY <1>5 DEF ReadFirmware, PollFails, Retire
  <2>2. /\ mirror'.last = mirror.last /\ mirror'.pending = mirror.pending
        /\ UNCHANGED <<card, firmware, job, foreign, adrift>>
        /\ config' \in {config, firmware}
        /\ mirror'.reread \in Nat
    BY <1>5 DEF ReadFirmware, TypeOK, world
  <2>3. poll' \in [due : BOOLEAN, rediscovered : BOOLEAN, dirty : BOOLEAN]
    <3>1. CASE UNCHANGED poll
      BY <3>1 DEF TypeOK
    <3>2. CASE poll' = [NoPoll EXCEPT !.due = mirror.reread >= PollsToRead]
      <4> DEFINE due == mirror.reread >= PollsToRead
      <4>1. due \in BOOLEAN
        OBVIOUS
      <4>2. poll' = [due |-> due, rediscovered |-> FALSE, dirty |-> FALSE]
        BY <3>2 DEF NoPoll
      <4> HIDE DEF due
      <4> QED
        BY <4>1, <4>2
    <3> QED
      BY <1>5, <3>1, <3>2 DEF ReadFirmware
  <2>4. mirror' \in [last : [Fields -> Nat] \cup {Unknown},
                     pending : [Fields -> Nat \cup {Unknown}], reread : Nat]
    BY <1>5 DEF ReadFirmware, TypeOK
  <2>5. TypeOK'
    BY <2>1, <2>2, <2>3, <2>4 DEF TypeOK
  <2>6. \A f \in Synced : ~Passed(f) /\ ~Passed(f)' /\ Known(f)' = Known(f)
    BY <2>1, <2>2 DEF Passed, Known
  <2> QED
    BY <2>2, <2>5, <2>6 DEF Baseline
<1>6. CASE Refresh
  <2>1. at = "refresh" /\ UNCHANGED <<world, config, job, foreign, adrift>>
    BY <1>6 DEF Refresh
  <2>2. CASE at' = "Mute" /\ UNCHANGED mirror
    <3>1. poll' \in [due : BOOLEAN, rediscovered : BOOLEAN, dirty : BOOLEAN]
      <4>1. UNCHANGED poll \/ \E b \in BOOLEAN : poll' = [poll EXCEPT !.rediscovered = b]
        BY <1>6, <2>2 DEF Refresh
      <4> QED
        BY <4>1 DEF TypeOK
    <3>2. TypeOK'
      <4>1. at' \in Fields /\ UNCHANGED <<firmware, card, config, job, mirror>>
        BY <2>1, <2>2 DEF world, Fields
      <4> QED
        BY <2>2, <3>1, <4>1 DEF TypeOK
    <3>3. \A f \in Synced : ~Passed(f) /\ ~Passed(f)' /\ Known(f)' = Known(f)
      BY <2>1, <2>2 DEF Passed, Known
    <3> QED
      BY <2>1, <2>2, <3>2, <3>3 DEF Baseline, world
  <2>3. CASE at' = "commit" /\ mirror' = [mirror EXCEPT !.pending = Undone] /\ UNCHANGED poll
    <3>1. \A f \in Fields : config[f] \in Nat /\ ToCard(f, config[f]) \in Nat
      BY Scales DEF TypeOK
    <3>2. Undone \in [Fields -> Nat \cup {Unknown}]
      BY <3>1 DEF Undone, AllPending, TypeOK
    <3>3. TypeOK'
      BY <2>1, <2>3, <3>2 DEF TypeOK, world
    <3>4. \A f \in Synced : /\ mirror'.pending[f] = ToCard(f, config'[f])
                            /\ mirror'.pending[f] # Unknown /\ Passed(f)'
      BY <2>1, <2>3, <3>1 DEF Undone, AllPending, TypeOK, Passed, Fields
    <3> QED
      BY <3>3, <3>4 DEF Baseline, Known
  <2> QED
    BY <1>6, <2>2, <2>3 DEF Refresh
<1>7. ASSUME NEW f \in Fields, Observe(f)
      PROVE  IInv'
  <2>1. /\ at = f /\ at' = After(f)
        /\ UNCHANGED <<firmware, shown, job, controls, failures>>
    BY <1>7 DEF Observe
  <2>2. /\ \A g \in Fields : Passed(g)' <=> Passed(g) \/ g = f
        /\ ~Passed(f) /\ at' \in {"commit"} \cup Fields /\ at' # "write"
    BY <2>1, Passing DEF Fields
  <2>3. CASE Tell(f)
    <3>1. f \in Synced /\ Wanted(f) # Unknown /\ UNCHANGED <<config, poll>>
      BY <2>3 DEF Tell
    <3>2. /\ Wanted(f) \in Nat
          /\ f \notin adrift => Wanted(f) = ToCard(f, config[f])
      BY <2>1, <3>1, Telling
    <3>3. /\ Expected(f, Wanted(f)) \in Nat
          /\ f = "Headphone" => Expected(f, Wanted(f)) >= CardMin
      BY <3>2, Range
    <3>4. /\ mirror'.last = mirror.last
          /\ \A g \in Fields \ {f} : mirror'.pending[g] = mirror.pending[g]
          /\ \A g \in Fields \ {f} : card'[g] = card[g]
          /\ \A g \in Fields \ {f} : g \in foreign <=> g \in foreign'
          /\ \A g \in Fields \ {f} : g \in adrift <=> g \in adrift'
      BY <2>3 DEF Tell, TypeOK
    <3>5. TypeOK'
      <4>1. card' \in [Fields -> Nat] /\ card'["Headphone"] >= CardMin
        BY <2>3, <3>3 DEF Tell, TypeOK, Fields
      <4>2. mirror' \in [last : [Fields -> Nat] \cup {Unknown},
                         pending : [Fields -> Nat \cup {Unknown}], reread : Nat]
        BY <2>3, <3>2 DEF Tell, TypeOK
      <4> QED
        BY <2>1, <2>2, <3>1, <4>1, <4>2 DEF TypeOK
    <3>6. f \notin adrift' =>
             IF mirror'.pending[f] = Unknown
             THEN card'[f] = Shows(f, config[f])
             ELSE mirror'.pending[f] = ToCard(f, config[f])
      <4>1. CASE /\ card' = [card EXCEPT ![f] = Expected(f, Wanted(f))]
                 /\ adrift' = IF Wanted(f) = ToCard(f, config[f]) THEN adrift \ {f} ELSE adrift
                 /\ mirror' = [mirror EXCEPT !.pending[f] = Unknown]
                 /\ foreign' = foreign \ {f}
        <5>1. mirror'.pending[f] = Unknown /\ card'[f] = Expected(f, Wanted(f))
          BY <4>1 DEF TypeOK
        <5>2. f \notin adrift' => Wanted(f) = ToCard(f, config[f])
          BY <3>2, <4>1
        <5> QED
          BY <5>1, <5>2 DEF Shows
      <4>2. CASE /\ mirror' = [mirror EXCEPT !.pending[f] = Wanted(f)]
                 /\ UNCHANGED adrift
        <5>1. mirror'.pending[f] = Wanted(f) /\ mirror'.pending[f] # Unknown
          BY <3>1, <4>2 DEF TypeOK
        <5> QED
          BY <3>2, <4>2, <5>1
      <4> QED
        BY <2>3, <4>1, <4>2 DEF Tell
    <3>7. \A g \in Synced \ {f} : /\ Passed(g)' <=> Passed(g)
                                  /\ Known(g)' = Known(g)
      BY <2>2, <3>1, <3>4 DEF Known, Fields
    <3> QED
      BY <2>2, <3>1, <3>4, <3>5, <3>6, <3>7 DEF Baseline, Known, Fields
  <2>4. CASE TakeOver(f)
    <3>1. /\ f \in Synced
          /\ config' = [config EXCEPT ![f] = FromCard(f, card[f])]
          /\ poll' = [poll EXCEPT !.dirty = TRUE]
          /\ foreign' = foreign \ {f} /\ adrift' = adrift \ {f}
          /\ UNCHANGED <<mirror, card>>
          /\ Wanted(f) = Unknown
      BY <2>4 DEF TakeOver, Reads
    <3>2. /\ FromCard(f, card[f]) \in Nat
          /\ Shows(f, FromCard(f, card[f])) = card[f]
      BY Scales, Range DEF TypeOK, Shows
    <3>3. TypeOK'
      BY <2>1, <2>2, <3>1, <3>2 DEF TypeOK
    <3>4. mirror.pending[f] = Unknown
      BY <3>1, Scales DEF Wanted, TypeOK
    <3>5. config'[f] = FromCard(f, card[f]) /\ \A g \in Fields \ {f} : config'[g] = config[g]
      BY <3>1 DEF TypeOK
    <3>6. \A g \in Synced \ {f} : /\ Passed(g)' <=> Passed(g)
                                  /\ Known(g)' = Known(g)
      BY <2>2, <3>1, <3>5 DEF Known, Fields
    <3> QED
      BY <2>2, <3>1, <3>2, <3>3, <3>4, <3>5, <3>6 DEF Baseline, Known, Fields
  <2>5. CASE Pass(f) \/ ReadFails(f)
    <3>1. UNCHANGED <<config, poll, mirror, card, foreign, adrift>>
      BY <2>5 DEF Pass, ReadFails
    <3>2. f \in Synced => Wanted(f) = Unknown \/ f \notin Synced
      BY <2>5 DEF Pass, ReadFails, Reads
    <3>3. TypeOK'
      BY <2>1, <2>2, <3>1 DEF TypeOK
    <3>4. f \in Synced => /\ mirror.last # Unknown /\ mirror.last[f] = config[f]
      BY <3>2, Scales DEF Wanted, TypeOK
    <3>5. \A g \in Synced : /\ Known(g)' = Known(g)
                            /\ Passed(g)' => Passed(g) \/ mirror.last # Unknown
      BY <2>2, <3>1, <3>4 DEF Known, Fields
    <3> QED
      BY <3>1, <3>3, <3>5 DEF Baseline
  <2> QED
    BY <1>7, <2>3, <2>4, <2>5 DEF Observe
<1>8. CASE Commit
  <2>1. /\ at = "commit" /\ at' \in {"idle", "closed", "suppressed"}
        /\ UNCHANGED <<card, config, job, poll, foreign>>
        /\ firmware' \in {firmware, config}
    BY <1>8 DEF Commit, PollFails, Retire
  <2>2. \A f \in Synced : Passed(f) /\ ~Passed(f)' /\ f \in Fields
    BY <2>1 DEF Passed, Fields
  <2>3. CASE mirror' = [mirror EXCEPT !.last = config] /\ UNCHANGED adrift
    <3>1. TypeOK'
      BY <2>1, <2>3 DEF TypeOK
    <3>2. mirror'.last = config /\ mirror'.pending = mirror.pending
      BY <2>3 DEF TypeOK
    <3> QED
      BY <2>1, <2>2, <2>3, <3>1, <3>2 DEF Baseline, Known
  <2>4. CASE /\ adrift' = adrift \cup {f \in Synced : mirror.last[f] # config[f]}
             /\ UNCHANGED mirror
    <3>1. TypeOK'
      BY <2>1, <2>4 DEF TypeOK
    <3>2. \A f \in Synced \ adrift' : mirror.last[f] = config[f] /\ f \notin adrift
      BY <2>4
    <3> QED
      BY <2>1, <2>2, <2>4, <3>1, <3>2 DEF Baseline, Known
  <2> QED
    BY <1>8, <2>3, <2>4 DEF Commit
<1>9. ASSUME NEW settings \in Jobs, ReadForJob(settings)
      PROVE  IInv'
  <2>1. at = "idle" /\ at' \in {"write", "closed", "suppressed"}
    BY <1>9 DEF ReadForJob, Retire
  <2>2. UNCHANGED <<firmware, card, mirror, poll, foreign, adrift>>
    BY <1>9 DEF ReadForJob, world
  <2>3. config' \in [Fields -> Nat] /\ DOMAIN job' \subseteq Fields
    <3>1. /\ DOMAIN settings \subseteq Fields
          /\ \A f \in DOMAIN settings : settings[f] \in Nat
      BY <1>9 DEF Fields
    <3>2. CASE /\ job' = settings
               /\ config' = [f \in Fields |-> IF f \in DOMAIN settings THEN settings[f]
                                             ELSE firmware[f]]
      BY <3>1, <3>2 DEF TypeOK
    <3> QED
      BY <1>9, <3>2 DEF ReadForJob, TypeOK
  <2>4. TypeOK'
    BY <1>9, <2>1, <2>2, <2>3 DEF TypeOK, ReadForJob
  <2>5. \A f \in Synced : ~Passed(f) /\ ~Passed(f)' /\ Known(f)' = Known(f)
    BY <2>1, <2>2 DEF Passed, Known
  <2> QED
    BY <2>2, <2>4, <2>5 DEF Baseline
<1>10. CASE WriteJob
  <2>1. /\ at = "write" /\ at' \in {"idle", "closed", "suppressed"}
        /\ UNCHANGED <<card, config, poll, foreign>> /\ job' = <<>>
        /\ firmware' \in {firmware, config}
    BY <1>10 DEF WriteJob, Retire
  <2>2. \A f \in Synced : ~Passed(f) /\ ~Passed(f)' /\ f \in Fields
    BY <2>1 DEF Passed, Fields
  <2>3. CASE UNCHANGED <<mirror, adrift>>
    <3>1. firmware' \in [Fields -> Nat] /\ DOMAIN job' \subseteq Fields
      BY <2>1 DEF TypeOK
    <3>2. at' \in {"closed", "suppressed", "idle"} /\ UNCHANGED <<config, card, mirror, poll>>
      BY <2>1, <2>3
    <3>3. TypeOK'
      BY <3>1, <3>2 DEF TypeOK
    <3> QED
      BY <2>1, <2>2, <2>3, <3>3 DEF Baseline, Known
  <2>4. CASE /\ mirror' = [mirror EXCEPT !.pending = Requested, !.last = config]
             /\ adrift' = adrift \cup {f \in Synced \ DOMAIN job : mirror.last[f] # config[f]}
    <3>1. \A f \in Fields : config[f] \in Nat /\ ToCard(f, config[f]) \in Nat
      BY Scales DEF TypeOK
    <3>2. Requested \in [Fields -> Nat \cup {Unknown}]
      BY <3>1 DEF Requested, TypeOK
    <3>3. TypeOK'
      <4>1. mirror' \in [last : [Fields -> Nat] \cup {Unknown},
                         pending : [Fields -> Nat \cup {Unknown}], reread : Nat]
        BY <2>4, <3>2 DEF TypeOK
      <4>2. firmware' \in [Fields -> Nat] /\ DOMAIN job' \subseteq Fields
        BY <2>1 DEF TypeOK
      <4>3. at' \in {"closed", "suppressed", "idle"} /\ UNCHANGED <<config, card, poll>>
        BY <2>1
      <4> QED
        BY <4>1, <4>2, <4>3 DEF TypeOK
    <3>4. mirror'.last = config /\ mirror'.pending = Requested
      BY <2>4 DEF TypeOK
    <3>5. ASSUME NEW f \in Synced \ adrift'
          PROVE  IF mirror'.pending[f] = Unknown
                 THEN f \in foreign' \/ card'[f] = Shows(f, config[f])
                 ELSE mirror'.pending[f] = ToCard(f, config[f])
      <4>1. CASE f \in DOMAIN job
        <5>1. mirror'.pending[f] = ToCard(f, config[f])
          BY <2>2, <3>4, <4>1 DEF Requested
        <5>2. ToCard(f, config[f]) # Unknown
          BY <2>2, <3>1
        <5> QED
          BY <5>1, <5>2
      <4>2. CASE f \notin DOMAIN job
        <5>1. mirror.last[f] = config[f] /\ f \notin adrift /\ ~Passed(f)
          BY <2>1, <2>2, <2>4, <4>2
        <5>2. mirror'.pending[f] = mirror.pending[f]
          BY <2>2, <3>4, <4>2 DEF Requested
        <5> QED
          BY <2>1, <5>1, <5>2 DEF Baseline, Known, TypeOK
      <4> QED
        BY <4>1, <4>2
    <3> QED
      BY <2>1, <2>2, <3>3, <3>4, <3>5 DEF Baseline, Known
  <2> QED
    BY <1>10, <2>3, <2>4 DEF WriteJob
<1>11. CASE UNCHANGED vars
  <2>1. TypeOK'
    BY <1>11 DEF vars, world, owner, TypeOK
  <2> QED
    BY <1>11, <2>1, Aside DEF vars, world, owner
<1>12. CASE Replug
  <2>1. /\ at' = "closed" /\ foreign' = Synced
        /\ firmware' \in {firmware, [f \in Fields |-> 0]}
        /\ card' = [f \in Fields |-> Shows(f, 0)]
        /\ UNCHANGED <<config, job, mirror, poll, adrift>>
    BY <1>12 DEF Replug
  <2>2. \A f : Shows(f, 0) \in Nat /\ (f = "Headphone" => Shows(f, 0) >= CardMin)
    BY Scales, Range DEF Shows
  <2>3. TypeOK'
    <3>1. card' \in [Fields -> Nat] /\ card'["Headphone"] >= CardMin
      BY <2>1, <2>2 DEF Fields
    <3>2. firmware' \in [Fields -> Nat]
      BY <2>1 DEF TypeOK
    <3> QED
      BY <2>1, <3>1, <3>2 DEF TypeOK
  <2>4. at \in {"closed", "suppressed"}
    BY <1>12 DEF Replug
  <2>5. \A f \in Synced : ~Passed(f) /\ ~Passed(f)' /\ Known(f)' = Known(f)
    BY <2>1, <2>4 DEF Passed, Known
  <2> QED
    BY <2>1, <2>3, <2>5 DEF Baseline
<1> QED
  BY <1>1, <1>2, <1>3, <1>4, <1>5, <1>6, <1>7, <1>8, <1>9, <1>10, <1>11, <1>12
     DEF Next, Surroundings, Works

\* The test of tests/device_mirror.rs:225, for every run: no poll writes to the
\* unit what the card shows of its own past.
THEOREM NoEcho == Spec => NoStaleFeedback
<1>1. ASSUME IInv, [Next]_vars, NEW f \in Synced, at = f, config'[f] # config[f]
      PROVE  f \in foreign \cup adrift
  <2>1. f \in Fields
    BY MirrorAssumption DEF Fields
  <2>2. Observe(f)
    BY <1>1, <2>1 DEF Next, vars, owner, Surroundings, Works, Hand, Client, Show, Replug, Open,
       ReadFirmware, Refresh, Observe, Commit, WriteJob, ReadForJob, Fields
  <2>3. TakeOver(f)
    BY <1>1, <2>2 DEF Observe, Tell, Pass, ReadFails
  <2> QED
    BY <1>1, <2>3, TakenOver
<1>2. IInv /\ [Next]_vars =>
        \A f \in Synced : at = f /\ config'[f] # config[f] => f \in foreign \cup adrift
  BY <1>1
<1> QED
  BY <1>2, Start, Step, PTL DEF Spec, NoStaleFeedback
=============================================================================
