---------------------------- MODULE Health_proof ----------------------------
(***************************************************************************)
(* The health worker for any limits, scripts and number of checks: a name  *)
(* is not disturbed more often than its budget says, and what was taken    *)
(* away is owed until it is back.                                          *)
(***************************************************************************)
EXTENDS Health, FiniteSetTheorems, TLAPS

Names == Ids \cup {0}
Glitches == [id : Names, streak : Nat, delta : {"none", "few", "many", "back", "unknown"}]
Captures == [glitch : Glitches, clean : [id : Names, age : 0 .. CleanRefill],
             attempts : Nat, cool : Nat]
Sinks == [base : Names, stalled : BOOLEAN, clean : 0 .. SinkRefill, attempts : Nat, cool : Nat]
Wear(limit) == [spent : Nat, id : Names, run : 0 .. limit]
Points == {"first", "second", "check", "next", "resolve", "confirm", "change", "apply",
           "stopcheck", "stopapply", "ended", "done"}
Workers == [at : Points, node : Names, due : Seq({"capture", "sink"}), card : Names]
Pendings == [kind : {"none", "card", "sink"}, id : Names]
Cards == [id : Names, off : BOOLEAN, held : BOOLEAN, late : BOOLEAN]

WorldOK == card \in Cards /\ node \in Names
WatchOK == /\ capture \in Captures /\ sink \in Sinks
           /\ wear \in [capture : Wear(CleanRefill), sink : Wear(SinkRefill)]
HandOK == worker \in Workers /\ pending \in Pendings
ScriptOK == script \in [captures : SUBSET Samples, sinks : SUBSET Flows, fail : Nat, unplug : Nat]
TypeOK == WorldOK /\ WatchOK /\ HandOK /\ ScriptOK

\* The interval a watch counts as healthy lies in one that the samples show.
CapturePaired(w, h) ==
    /\ h.spent <= w.attempts /\ w.attempts <= MaxAttempts
    /\ w.clean.id # 0 => h.id = w.clean.id /\ w.clean.age <= h.run
SinkPaired(w, h) ==
    /\ h.spent <= w.attempts /\ w.attempts <= MaxAttempts
    /\ w.clean > 0 => h.id = w.base /\ w.clean <= h.run

\* An attempt is left for each remedy that is due and not begun.
Left(c, s, kind) == IF kind = "capture" THEN c.attempts < MaxAttempts
                                        ELSE s.attempts < MaxAttempts
Due ==
    /\ \A i, j \in DOMAIN worker.due : i # j => worker.due[i] # worker.due[j]
    /\ worker.at = "next" => \A i \in DOMAIN worker.due : Left(capture, sink, worker.due[i])
    /\ \A i \in DOMAIN worker.due : i > 1 => Left(capture, sink, worker.due[i])
    /\ worker.at \in {"resolve", "confirm", "change"} => worker.due # <<>>

Budget == CapturePaired(capture, wear.capture) /\ SinkPaired(sink, wear.sink)

\* The debt names what the command takes away before the command is given, and
\* what has the name of its target since is that target, or nothing, or was
\* plugged in late.
Owed ==
    /\ NothingLeftOff
    /\ card.id = 0 => node = 0
    /\ worker.at \in {"resolve", "confirm"} => pending = Clear
    /\ worker.at = "change" =>
          /\ pending = IF Kind = "capture" THEN [kind |-> "card", id |-> worker.card]
                                           ELSE [kind |-> "sink", id |-> worker.node]
          /\ card.late \/ card.id \in {0, worker.card}
          /\ card.late \/ node \in {0, worker.node}

IInv == TypeOK /\ Budget /\ Due /\ Owed

-----------------------------------------------------------------------------
(* Identities.                                                             *)

\* One more element is at most one more.
LEMMA OneMore ==
    ASSUME NEW S, NEW x, NEW n \in Nat, IsFiniteSet(S), Cardinality(S) \in 0 .. n
    PROVE  IsFiniteSet(S \cup {x}) /\ Cardinality(S \cup {x}) \in 0 .. n + 1
<1>1. /\ IsFiniteSet(S \cup {x})
      /\ Cardinality(S \cup {x}) = Cardinality(S) \/ Cardinality(S \cup {x}) = Cardinality(S) + 1
  BY FS_AddElement
<1> QED
  BY <1>1

\* There is an identity beside any eleven.
LEMMA SomeFresh ==
    ASSUME NEW S, IsFiniteSet(S), Cardinality(S) \in 0 .. 11
    PROVE  \E i \in Ids : i \notin S
<1> SUFFICES ASSUME Ids \subseteq S PROVE FALSE
  OBVIOUS
<1>1. IsFiniteSet(Ids) /\ Cardinality(Ids) <= Cardinality(S)
  BY FS_Subset
<1> QED
  BY <1>1, FS_CardinalityType, IdsAssumption

\* Eleven elements, some of them maybe the same.
LEMMA Eleven ==
    ASSUME NEW a, NEW b, NEW c, NEW d, NEW e, NEW f, NEW g, NEW h, NEW i, NEW j, NEW k
    PROVE  /\ IsFiniteSet({a, b, c, d, e, f, g, h, i, j, k})
           /\ Cardinality({a, b, c, d, e, f, g, h, i, j, k}) \in 0 .. 11
<1>1. IsFiniteSet({a}) /\ Cardinality({a}) \in 0 .. 1
  <2>1. IsFiniteSet({a}) /\ Cardinality({a}) = 1
    BY FS_Singleton, Zenon
  <2> QED
    BY <2>1
<1>2. IsFiniteSet({a, b}) /\ Cardinality({a, b}) \in 0 .. 2
  <2>1. {a, b} = {a} \cup {b}
    OBVIOUS
  <2>2. 0 .. 2 = 0 .. 1 + 1 /\ 1 \in Nat
    OBVIOUS
  <2>3. IsFiniteSet({a} \cup {b}) /\ Cardinality({a} \cup {b}) \in 0 .. 1 + 1
    BY <1>1, <2>2, OneMore, Zenon
  <2> QED
    BY <2>1, <2>2, <2>3, Zenon
<1>3. IsFiniteSet({a, b, c}) /\ Cardinality({a, b, c}) \in 0 .. 3
  <2>1. {a, b, c} = {a, b} \cup {c}
    OBVIOUS
  <2>2. 0 .. 3 = 0 .. 2 + 1 /\ 2 \in Nat
    OBVIOUS
  <2>3. IsFiniteSet({a, b} \cup {c}) /\ Cardinality({a, b} \cup {c}) \in 0 .. 2 + 1
    BY <1>2, <2>2, OneMore, Zenon
  <2> QED
    BY <2>1, <2>2, <2>3, Zenon
<1>4. IsFiniteSet({a, b, c, d}) /\ Cardinality({a, b, c, d}) \in 0 .. 4
  <2>1. {a, b, c, d} = {a, b, c} \cup {d}
    OBVIOUS
  <2>2. 0 .. 4 = 0 .. 3 + 1 /\ 3 \in Nat
    OBVIOUS
  <2>3. IsFiniteSet({a, b, c} \cup {d}) /\ Cardinality({a, b, c} \cup {d}) \in 0 .. 3 + 1
    BY <1>3, <2>2, OneMore, Zenon
  <2> QED
    BY <2>1, <2>2, <2>3, Zenon
<1>5. IsFiniteSet({a, b, c, d, e}) /\ Cardinality({a, b, c, d, e}) \in 0 .. 5
  <2>1. {a, b, c, d, e} = {a, b, c, d} \cup {e}
    OBVIOUS
  <2>2. 0 .. 5 = 0 .. 4 + 1 /\ 4 \in Nat
    OBVIOUS
  <2>3. IsFiniteSet({a, b, c, d} \cup {e}) /\ Cardinality({a, b, c, d} \cup {e}) \in 0 .. 4 + 1
    BY <1>4, <2>2, OneMore, Zenon
  <2> QED
    BY <2>1, <2>2, <2>3, Zenon
<1>6. IsFiniteSet({a, b, c, d, e, f}) /\ Cardinality({a, b, c, d, e, f}) \in 0 .. 6
  <2>1. {a, b, c, d, e, f} = {a, b, c, d, e} \cup {f}
    OBVIOUS
  <2>2. 0 .. 6 = 0 .. 5 + 1 /\ 5 \in Nat
    OBVIOUS
  <2>3. IsFiniteSet({a, b, c, d, e} \cup {f}) /\ Cardinality({a, b, c, d, e} \cup {f}) \in 0 .. 5 + 1
    BY <1>5, <2>2, OneMore, Zenon
  <2> QED
    BY <2>1, <2>2, <2>3, Zenon
<1>7. IsFiniteSet({a, b, c, d, e, f, g}) /\ Cardinality({a, b, c, d, e, f, g}) \in 0 .. 7
  <2>1. {a, b, c, d, e, f, g} = {a, b, c, d, e, f} \cup {g}
    OBVIOUS
  <2>2. 0 .. 7 = 0 .. 6 + 1 /\ 6 \in Nat
    OBVIOUS
  <2>3. /\ IsFiniteSet({a, b, c, d, e, f} \cup {g})
        /\ Cardinality({a, b, c, d, e, f} \cup {g}) \in 0 .. 6 + 1
    BY <1>6, <2>2, OneMore, Zenon
  <2> QED
    BY <2>1, <2>2, <2>3, Zenon
<1>8. IsFiniteSet({a, b, c, d, e, f, g, h}) /\ Cardinality({a, b, c, d, e, f, g, h}) \in 0 .. 8
  <2>1. {a, b, c, d, e, f, g, h} = {a, b, c, d, e, f, g} \cup {h}
    OBVIOUS
  <2>2. 0 .. 8 = 0 .. 7 + 1 /\ 7 \in Nat
    OBVIOUS
  <2>3. /\ IsFiniteSet({a, b, c, d, e, f, g} \cup {h})
        /\ Cardinality({a, b, c, d, e, f, g} \cup {h}) \in 0 .. 7 + 1
    BY <1>7, <2>2, OneMore, Zenon
  <2> QED
    BY <2>1, <2>2, <2>3, Zenon
<1>9. IsFiniteSet({a, b, c, d, e, f, g, h, i}) /\ Cardinality({a, b, c, d, e, f, g, h, i}) \in 0 .. 9
  <2>1. {a, b, c, d, e, f, g, h, i} = {a, b, c, d, e, f, g, h} \cup {i}
    OBVIOUS
  <2>2. 0 .. 9 = 0 .. 8 + 1 /\ 8 \in Nat
    OBVIOUS
  <2>3. /\ IsFiniteSet({a, b, c, d, e, f, g, h} \cup {i})
        /\ Cardinality({a, b, c, d, e, f, g, h} \cup {i}) \in 0 .. 8 + 1
    BY <1>8, <2>2, OneMore, Zenon
  <2> QED
    BY <2>1, <2>2, <2>3, Zenon
<1>10. /\ IsFiniteSet({a, b, c, d, e, f, g, h, i, j})
       /\ Cardinality({a, b, c, d, e, f, g, h, i, j}) \in 0 .. 10
  <2>1. {a, b, c, d, e, f, g, h, i, j} = {a, b, c, d, e, f, g, h, i} \cup {j}
    OBVIOUS
  <2>2. 0 .. 10 = 0 .. 9 + 1 /\ 9 \in Nat
    OBVIOUS
  <2>3. /\ IsFiniteSet({a, b, c, d, e, f, g, h, i} \cup {j})
        /\ Cardinality({a, b, c, d, e, f, g, h, i} \cup {j}) \in 0 .. 9 + 1
    BY <1>9, <2>2, OneMore, Zenon
  <2> QED
    BY <2>1, <2>2, <2>3, Zenon
<1>11. /\ IsFiniteSet({a, b, c, d, e, f, g, h, i, j, k})
       /\ Cardinality({a, b, c, d, e, f, g, h, i, j, k}) \in 0 .. 11
  <2>1. {a, b, c, d, e, f, g, h, i, j, k} = {a, b, c, d, e, f, g, h, i, j} \cup {k}
    OBVIOUS
  <2>2. 0 .. 11 = 0 .. 10 + 1 /\ 10 \in Nat
    OBVIOUS
  <2>3. /\ IsFiniteSet({a, b, c, d, e, f, g, h, i, j} \cup {k})
        /\ Cardinality({a, b, c, d, e, f, g, h, i, j} \cup {k}) \in 0 .. 10 + 1
    BY <1>10, <2>2, OneMore, Zenon
  <2> QED
    BY <2>1, <2>2, <2>3, Zenon
<1> QED
  BY <1>11

\* What nobody remembers is an identity.
LEMMA NewIsName == New({}) \in Ids /\ New({New({})}) \in Ids
<1> DEFINE Known(x) == {card.id, node, capture.glitch.id, capture.clean.id, sink.base, worker.node,
                        worker.card, pending.id, wear.capture.id, wear.sink.id, x}
<1>1. \A x : IsFiniteSet(Known(x)) /\ Cardinality(Known(x)) \in 0 .. 11
  BY Eleven
<1>2. \A x : \E i \in Ids : i \notin Known(x)
  BY <1>1, SomeFresh
<1>3. \A x : \E i \in Ids : i \notin Remembered \cup {x}
  BY <1>2 DEF Remembered
<1>4. New({}) \in Ids
  BY <1>3 DEF New
<1>5. \E i : i \in Ids \ (Remembered \cup {New({})})
  BY <1>3
<1> HIDE DEF Known
<1>6. New({New({})}) \in Ids \ (Remembered \cup {New({})})
  BY <1>5 DEF New
<1> QED
  BY <1>4, <1>6

-----------------------------------------------------------------------------
(* The watches.                                                            *)

\* What a xrun sample leaves: it counts as healthy only when it shows few.
LEMMA GlitchKept ==
    ASSUME NEW g \in Glitches, NEW id \in Names, NEW c \in Samples
    PROVE  /\ Glitch(g, id, c.xruns) \in Glitches
           /\ Glitch(g, id, c.xruns).delta = "few" => c.xruns = "few"
<1> USE HealthAssumption DEF Glitches, Samples, Names
<1>1. NoGlitch \in Glitches /\ NoGlitch.delta = "none"
  BY DEF NoGlitch
<1>2. CASE c.xruns = "unknown"
  BY <1>1, <1>2 DEF Glitch
<1>3. CASE c.xruns # "unknown" /\ (g.id # id \/ c.xruns = "back")
  BY <1>3 DEF Glitch, NoGlitch
<1>4. CASE c.xruns # "unknown" /\ ~(g.id # id \/ c.xruns = "back")
  <2>1. UpTo(Confirm, g.streak + 1) \in Nat
    BY DEF UpTo
  <2>2. /\ Glitch(g, id, c.xruns) = [id |-> id, delta |-> c.xruns,
             streak |-> IF c.xruns = "many" THEN UpTo(Confirm, g.streak + 1) ELSE 0]
    BY <1>4 DEF Glitch
  <2> QED
    BY <2>1, <2>2
<1> QED
  BY <1>2, <1>3, <1>4

\* The budget of a capture is refilled only by an interval that the samples show.
LEMMA CaptureRefill ==
    ASSUME NEW w \in Captures, NEW h \in Wear(CleanRefill), CapturePaired(w, h),
           NEW id \in Names, NEW c \in Samples, c.seen => id # 0, NEW d \in 1 .. 2
    PROVE  LET v == ObserveCapture(w, id, c, d)
               r == Run(h, id, c = Capture("few", "fresh"), d, 0, CleanRefill)
           IN  v \in Captures /\ r \in Wear(CleanRefill) /\ CapturePaired(v, r)
<1> DEFINE v == ObserveCapture(w, id, c, d)
           good == c = Capture("few", "fresh")
           r == Run(h, id, good, d, 0, CleanRefill)
           g == Glitch(w.glitch, id, c.xruns)
           cool == UpTo(Cooldown, w.cool + d)
           age == IF w.clean.id = id THEN UpTo(CleanRefill, w.clean.age + d) ELSE 0
           run == IF ~good THEN 0 ELSE IF h.id = id THEN UpTo(CleanRefill, h.run + d) ELSE 0
<1> SUFFICES v \in Captures /\ r \in Wear(CleanRefill) /\ CapturePaired(v, r)
  OBVIOUS
<1> USE HealthAssumption DEF Captures, Wear, CapturePaired
<1>1. w.glitch \in Glitches /\ w.clean \in [id : Names, age : 0 .. CleanRefill]
      /\ w.attempts \in Nat /\ w.cool \in Nat
  OBVIOUS
<1>2. g \in Glitches /\ (g.delta = "few" => c.xruns = "few")
  BY <1>1, GlitchKept
<1>3. cool \in Nat /\ Cooldown \in Nat
  BY <1>1 DEF UpTo
<1>4. age \in 0 .. CleanRefill /\ run \in 0 .. CleanRefill
  BY <1>1 DEF UpTo
<1>5. r = [spent |-> IF run = CleanRefill THEN 0 ELSE h.spent, id |-> IF good THEN id ELSE 0,
           run |-> run]
  BY DEF Run
<1>6. r \in Wear(CleanRefill) /\ (run # CleanRefill => r.spent = h.spent) /\ r.run = run
      /\ (run = CleanRefill => r.spent = 0) /\ r.spent <= h.spent
      /\ r.id = (IF good THEN id ELSE 0)
  BY <1>4, <1>5 DEF Names
<1>n. NoGlitch \in Glitches /\ NoClean \in [id : Names, age : 0 .. CleanRefill] /\ NoClean.id = 0
  BY DEF NoGlitch, NoClean, Glitches, Names
<1> HIDE DEF v, g, cool, age, run, r, good
<1>7. CASE ~c.seen
  <2>1. v = [glitch |-> NoGlitch, clean |-> NoClean, attempts |-> w.attempts, cool |-> cool]
    BY <1>7 DEF v, ObserveCapture, PauseCapture, Unwell, cool
  <2> QED
    BY <1>1, <1>3, <1>6, <1>n, <2>1
<1>8. CASE c.seen /\ ~Healthy(g, c.bytes)
  <2>1. v = [glitch |-> g, clean |-> NoClean, attempts |-> w.attempts, cool |-> cool]
    BY <1>8 DEF v, ObserveCapture, Unwell, cool, g
  <2> QED
    BY <1>1, <1>2, <1>3, <1>6, <1>n, <2>1
<1>9. CASE c.seen /\ Healthy(g, c.bytes)
  <2> id # 0
    BY <1>9
  <2>1. good
    BY <1>2, <1>9 DEF Healthy, Capture, Samples, good
  <2>2. v = [glitch |-> g, clean |-> [id |-> id, age |-> age],
             attempts |-> IF age = CleanRefill THEN 0 ELSE w.attempts,
             cool |-> IF age = CleanRefill THEN Cooldown ELSE cool]
    BY <1>9 DEF v, ObserveCapture, Recovered, cool, g, age
  <2>3. id # 0 => age <= run
    <3>1. CASE w.clean.id = id
      BY <1>1, <2>1, <3>1 DEF age, run, UpTo
    <3>2. CASE w.clean.id # id
      BY <1>4, <3>2 DEF age
    <3> QED
      BY <3>1, <3>2
  <2>4. age = CleanRefill /\ id # 0 => run = CleanRefill
    BY <1>4, <2>3
  <2> QED
    BY <1>1, <1>2, <1>3, <1>4, <1>6, <2>1, <2>2, <2>3, <2>4
<1> QED
  BY <1>7, <1>8, <1>9

\* The budget of an output is refilled only by an interval that the samples show.
LEMMA SinkRefilled ==
    ASSUME NEW w \in Sinks, NEW h \in Wear(SinkRefill), SinkPaired(w, h),
           NEW id \in Names, NEW c \in Flows, NEW d \in 1 .. 2
    PROVE  LET v == ObserveSink(w, id, c, d)
               r == Run(h, id, c = "moving", 1, 1, SinkRefill)
           IN  v \in Sinks /\ r \in Wear(SinkRefill) /\ SinkPaired(v, r)
<1> DEFINE v == ObserveSink(w, id, c, d)
           r == Run(h, id, c = "moving", 1, 1, SinkRefill)
           cool == UpTo(Cooldown, w.cool + d)
           follows == w.base = id /\ c # "back"
           stalled == c = "xrun" \/ (follows /\ c = "stuck")
           clean == IF follows /\ ~stalled THEN UpTo(SinkRefill, w.clean + 1) ELSE 0
           run == IF c # "moving" THEN 0 ELSE IF h.id = id THEN UpTo(SinkRefill, h.run + 1) ELSE 1
<1> SUFFICES v \in Sinks /\ r \in Wear(SinkRefill) /\ SinkPaired(v, r)
  OBVIOUS
<1> USE HealthAssumption DEF Sinks, Wear, SinkPaired
<1>1. /\ w.base \in Names /\ w.clean \in 0 .. SinkRefill /\ w.attempts \in Nat /\ w.cool \in Nat
      /\ w.stalled \in BOOLEAN /\ h.run \in 0 .. SinkRefill /\ h.spent \in Nat
  OBVIOUS
<1>2. cool \in Nat
  BY <1>1 DEF UpTo
<1>3. clean \in 0 .. SinkRefill /\ run \in 0 .. SinkRefill
  BY <1>1 DEF UpTo
<1>4. r = [spent |-> IF run = SinkRefill THEN 0 ELSE h.spent, id |-> IF c = "moving" THEN id ELSE 0,
           run |-> run]
  BY DEF Run
<1>5. /\ r \in Wear(SinkRefill) /\ (run = SinkRefill => r.spent = 0) /\ r.spent <= h.spent
      /\ r.run = run /\ (c = "moving" => r.id = id)
  BY <1>1, <1>3, <1>4 DEF Names
<1>6. c # "unclear" /\ clean > 0 => c = "moving" /\ clean <= run
  <2> SUFFICES ASSUME c # "unclear", clean > 0 PROVE c = "moving" /\ clean <= run
    OBVIOUS
  <2>1. follows /\ ~stalled
    OBVIOUS
  <2>2. c = "moving" /\ w.base = id
    BY <2>1 DEF Flows
  <2>3. clean = UpTo(SinkRefill, w.clean + 1)
    BY <2>1
  <2>4. CASE w.clean > 0
    BY <1>1, <2>2, <2>3, <2>4 DEF UpTo
  <2>5. CASE w.clean = 0
    BY <1>1, <2>2, <2>3, <2>5 DEF UpTo
  <2> QED
    BY <1>1, <2>2, <2>4, <2>5
<1>7. stalled \in BOOLEAN
  OBVIOUS
<1> HIDE DEF v, r, cool, follows, stalled, clean, run
<1>8. CASE c = "unclear"
  <2>1. v = [base |-> 0, stalled |-> FALSE, clean |-> 0, attempts |-> w.attempts, cool |-> cool]
    BY <1>8 DEF v, ObserveSink, PauseSink, cool
  <2> QED
    BY <1>1, <1>2, <1>5, <2>1 DEF Names
<1>9. CASE c # "unclear"
  <2>1. v = [base |-> id, stalled |-> stalled, clean |-> clean,
             attempts |-> IF clean = SinkRefill THEN 0 ELSE w.attempts, cool |-> cool]
    BY <1>9 DEF v, ObserveSink, cool, follows, stalled, clean
  <2>2. clean = SinkRefill => run = SinkRefill
    BY <1>3, <1>6, <1>9
  <2>3. v.attempts \in Nat /\ v.attempts <= MaxAttempts /\ r.spent <= v.attempts
    BY <1>1, <1>5, <2>1, <2>2
  <2>4. v \in Sinks
    BY <1>1, <1>2, <1>3, <1>7, <2>1
  <2>5. v.clean > 0 => r.id = v.base /\ v.clean <= r.run
    BY <1>5, <1>6, <1>9, <2>1
  <2> QED
    BY <1>5, <2>3, <2>4, <2>5
<1> QED
  BY <1>8, <1>9

-----------------------------------------------------------------------------
(* The steps.                                                              *)

\* The card and its nodes keep their shape.
LEMMA WorldStep == TypeOK /\ [Next]_vars => WorldOK'
<1> SUFFICES ASSUME TypeOK, [Next]_vars PROVE WorldOK'
  OBVIOUS
<1> USE NewIsName DEF TypeOK, WorldOK, Cards, Names, worldVars, NoCard
<1>1. CASE UNCHANGED worldVars
  BY <1>1
<1>2. CASE Unplug
  BY <1>2 DEF Unplug
<1>3. CASE Plug
  BY <1>3 DEF Plug
<1>4. ASSUME Changed PROVE WorldOK'
  BY <1>4 DEF Changed
<1>5. ASSUME Undone PROVE WorldOK'
  <2>1. card' \in Cards
    BY <1>5 DEF Undone
  <2>2. node' \in Names
    BY <1>5 DEF Undone
  <2> QED
    BY <2>1, <2>2
<1>6. CASE Change \/ ChangeFails
  BY <1>1, <1>4, <1>6 DEF Change, ChangeFails
<1>7. CASE Apply \/ ApplyFails
  BY <1>1, <1>5, <1>7 DEF Apply, ApplyFails
<1>8. CASE Stop \/ Collect \/ Observe \/ NextRemedy \/ Resolve \/ ConfirmTarget \/ Check
           \/ CheckFails \/ Join
  BY <1>1, <1>8 DEF Stop, Collect, Observe, NextRemedy, Resolve, ConfirmTarget, Check, CheckFails, Join
<1>9. CASE UNCHANGED vars
  BY <1>9 DEF vars
<1> QED
  BY <1>2, <1>3, <1>6, <1>7, <1>8, <1>9 DEF Next, Worker

\* A script is used up, and shows what it showed.
LEMMA ScriptStep == TypeOK /\ [Next]_vars => ScriptOK'
<1> SUFFICES ASSUME TypeOK, [Next]_vars PROVE ScriptOK'
  OBVIOUS
<1> USE DEF TypeOK, ScriptOK
<1>1. CASE UNCHANGED script
  BY <1>1
<1>2. ASSUME NEW what \in {"fail", "unplug"}, Spend(what) PROVE ScriptOK'
  <2>1. script.fail \in Nat /\ script.unplug \in Nat
    OBVIOUS
  <2>2. CASE what = "fail"
    BY <1>2, <2>1, <2>2 DEF Spend
  <2>3. CASE what = "unplug"
    BY <1>2, <2>1, <2>3 DEF Spend
  <2> QED
    BY <2>2, <2>3
<1>3. CASE Unplug \/ CheckFails
  BY <1>2, <1>3 DEF Unplug, CheckFails
<1>4. CASE ChangeFails \/ ApplyFails
  BY <1>1, <1>2, <1>4 DEF ChangeFails, ApplyFails
<1>5. CASE Plug \/ Stop \/ Collect \/ Observe \/ NextRemedy \/ Resolve \/ ConfirmTarget \/ Change
           \/ Check \/ Apply \/ Join
  BY <1>1, <1>5 DEF Plug, Stop, Collect, Observe, NextRemedy, Resolve, ConfirmTarget, Change, Check,
                    Apply, Join
<1>6. CASE UNCHANGED vars
  BY <1>1, <1>6 DEF vars
<1> QED
  BY <1>3, <1>4, <1>5, <1>6 DEF Next, Worker

\* A check spends and refills attempts within the budget.
LEMMA BudgetStep == TypeOK /\ Budget /\ Due /\ [Next]_vars => WatchOK' /\ Budget'
<1> SUFFICES ASSUME TypeOK, Budget, Due, [Next]_vars PROVE WatchOK' /\ Budget'
  OBVIOUS
<1> USE DEF TypeOK, WorldOK, WatchOK, Budget
<1>1. CASE UNCHANGED watchVars
  BY <1>1 DEF watchVars
<1>2. CASE Observe
  <2>1. PICK cs \in script.captures, ss \in script.sinks, d \in 1 .. 2 : Observed(cs, ss, d)
    BY <1>2 DEF Observe
  <2>2. cs \in Samples /\ ss \in Flows
    BY DEF ScriptOK
  <2> DEFINE known == ~Unknown /\ node # 0
             c == IF known THEN cs ELSE Unclear
             t == IF known THEN ss ELSE "unclear"
  <2>3. c \in Samples /\ (c.seen => node # 0) /\ t \in Flows
    BY <2>2 DEF Unclear, Samples, Flows
  <2>4. /\ capture' = ObserveCapture(capture, node, c, d)
        /\ sink' = ObserveSink(sink, node, t, d)
        /\ wear' = [capture |-> Run(wear.capture, node, c = Capture("few", "fresh"), d, 0, CleanRefill),
                    sink |-> Run(wear.sink, node, t = "moving", 1, 1, SinkRefill)]
    BY <2>1 DEF Observed
  <2> HIDE DEF c, t
  <2>5. wear.capture \in Wear(CleanRefill) /\ wear.sink \in Wear(SinkRefill)
    OBVIOUS
  <2>6. /\ capture' \in Captures /\ wear'.capture \in Wear(CleanRefill)
        /\ CapturePaired(capture', wear'.capture)
    BY <2>3, <2>4, <2>5, CaptureRefill
  <2>7. /\ sink' \in Sinks /\ wear'.sink \in Wear(SinkRefill)
        /\ SinkPaired(sink', wear'.sink)
    BY <2>3, <2>4, <2>5, SinkRefilled
  <2>8. wear' = [capture |-> wear'.capture, sink |-> wear'.sink]
    BY <2>4
  <2> QED
    BY <2>6, <2>7, <2>8
<1>3. CASE NextRemedy
  <2>1. CASE UNCHANGED watchVars
    BY <1>1, <2>1
  <2>2. CASE ~UNCHANGED watchVars
    <3>1. worker.due # <<>> /\ worker.at = "next" /\ Attempt(Head(worker.due))
      BY <1>3, <2>2 DEF NextRemedy
    <3>2. worker.due \in Seq({"capture", "sink"})
      BY DEF HandOK, Workers
    <3>3. Head(worker.due) \in {"capture", "sink"} /\ Left(capture, sink, Head(worker.due))
      BY <3>1, <3>2 DEF Due
    <3>4. /\ wear.capture \in Wear(CleanRefill) /\ wear.sink \in Wear(SinkRefill)
          /\ wear = [capture |-> wear.capture, sink |-> wear.sink]
      OBVIOUS
    <3>5. CASE Head(worker.due) = "capture"
      <4>1. /\ capture' = SpendCapture(capture) /\ sink' = sink
            /\ wear' = [wear EXCEPT !["capture"].spent = @ + 1]
        BY <3>1, <3>5 DEF Attempt
      <4>2. wear' = [capture |-> [wear.capture EXCEPT !.spent = @ + 1], sink |-> wear.sink]
        BY <3>4, <4>1
      <4>3. capture' = [glitch |-> NoGlitch, clean |-> NoClean, attempts |-> capture.attempts + 1,
                        cool |-> 0]
        BY <4>1 DEF SpendCapture, Captures
      <4>4. /\ NoGlitch \in Glitches
            /\ NoClean \in [id : Names, age : 0 .. CleanRefill] /\ NoClean.id = 0
        BY HealthAssumption DEF NoGlitch, NoClean, Glitches, Names
      <4>5. capture.attempts \in Nat /\ capture.attempts + 1 <= MaxAttempts
            /\ wear.capture.spent <= capture.attempts /\ wear.capture.spent \in Nat
        BY <3>3, <3>5, HealthAssumption DEF Left, CapturePaired, Captures, Wear
      <4>6. capture' \in Captures
        BY <4>3, <4>4, <4>5 DEF Captures
      <4>7. [wear.capture EXCEPT !.spent = @ + 1] \in Wear(CleanRefill)
        BY <3>4, <4>5 DEF Wear
      <4>8. CapturePaired(capture', wear'.capture)
        BY <3>4, <4>2, <4>3, <4>4, <4>5 DEF CapturePaired, Wear
      <4> QED
        BY <3>4, <4>1, <4>2, <4>6, <4>7, <4>8
    <3>6. CASE Head(worker.due) = "sink"
      <4>1. /\ sink' = SpendSink(sink) /\ capture' = capture
            /\ wear' = [wear EXCEPT !["sink"].spent = @ + 1]
        BY <3>1, <3>6 DEF Attempt
      <4>2. wear' = [capture |-> wear.capture, sink |-> [wear.sink EXCEPT !.spent = @ + 1]]
        BY <3>4, <4>1
      <4>3. sink' = [base |-> 0, stalled |-> sink.stalled, clean |-> 0,
                     attempts |-> sink.attempts + 1, cool |-> 0]
        BY <4>1 DEF SpendSink, Sinks
      <4>4. sink.attempts \in Nat /\ sink.attempts + 1 <= MaxAttempts /\ sink.stalled \in BOOLEAN
            /\ wear.sink.spent <= sink.attempts /\ wear.sink.spent \in Nat
        BY <3>3, <3>6, HealthAssumption DEF Left, SinkPaired, Sinks, Wear
      <4>5. sink' \in Sinks
        BY <4>3, <4>4, HealthAssumption DEF Sinks, Names
      <4>6. [wear.sink EXCEPT !.spent = @ + 1] \in Wear(SinkRefill)
        BY <3>4, <4>4 DEF Wear
      <4>7. SinkPaired(sink', wear'.sink)
        BY <3>4, <4>2, <4>3, <4>4 DEF SinkPaired, Wear
      <4> QED
        BY <3>4, <4>1, <4>2, <4>5, <4>6, <4>7
    <3> QED
      BY <3>3, <3>5, <3>6
  <2> QED
    BY <2>1, <2>2
<1>4. CASE Unplug \/ Plug \/ Stop \/ Collect \/ Resolve \/ ConfirmTarget \/ Change \/ ChangeFails
           \/ Check \/ CheckFails \/ Apply \/ ApplyFails \/ Join
  <2>1. UNCHANGED watchVars
    BY <1>4 DEF Unplug, Plug, Stop, Collect, Resolve, ConfirmTarget, Change, ChangeFails, Check,
                CheckFails, Apply, ApplyFails, Join
  <2> QED
    BY <1>1, <2>1
<1>5. CASE UNCHANGED vars
  BY <1>1, <1>5 DEF vars
<1> QED
  BY <1>2, <1>3, <1>4, <1>5 DEF Next, Worker

\* The debt keeps its shape, and the remedies in hand are the first ones less
\* those that were begun.
LEMMA HandStep == TypeOK /\ Due /\ [Next]_vars => HandOK'
<1> SUFFICES ASSUME TypeOK, Due, [Next]_vars PROVE HandOK'
  OBVIOUS
<1> USE DEF TypeOK, HandOK
<1> DEFINE Dues == Seq({"capture", "sink"})
<1>w. /\ worker.at \in Points /\ worker.node \in Names /\ worker.due \in Dues /\ worker.card \in Names
      /\ worker = [at |-> worker.at, node |-> worker.node, due |-> worker.due, card |-> worker.card]
      /\ node \in Names /\ card.id \in Names
  BY DEF Workers, WorldOK, Cards
<1>t. worker.due # <<>> => Tail(worker.due) \in Dues
  BY <1>w
<1>i. Idle \in Workers /\ Clear \in Pendings
  BY DEF Idle, Clear, Workers, Pendings, Points, Names
<1>g. \A at \in Points : [worker EXCEPT !.at = at] \in Workers
  BY DEF Workers
<1>d. worker.due # <<>> /\ Drop => worker' \in Workers
  <2> SUFFICES ASSUME worker.due # <<>>, Drop PROVE worker' \in Workers
    OBVIOUS
  <2>1. worker' = [at |-> "next", node |-> worker.node, due |-> Tail(worker.due), card |-> 0]
    BY <1>w DEF Drop
  <2> QED
    BY <1>w, <1>t, <2>1 DEF Workers, Points, Names
<1>u. Unpaid => worker' \in Workers
  <2> SUFFICES ASSUME Unpaid PROVE worker' \in Workers
    OBVIOUS
  <2>1. worker' = [at |-> After, node |-> worker.node,
                   due |-> IF worker.due = <<>> THEN worker.due ELSE Tail(worker.due), card |-> 0]
    BY <1>w DEF Unpaid
  <2>2. After \in Points
    BY DEF After, Points
  <2>3. (IF worker.due = <<>> THEN worker.due ELSE Tail(worker.due)) \in Dues
    BY <1>w, <1>t
  <2> QED
    BY <1>w, <2>1, <2>2, <2>3 DEF Workers, Names
<1>1. CASE Collect
  <2>1. UNCHANGED pending
    BY <1>1 DEF Collect
  <2>2. CASE cancel
    BY <1>1, <1>i, <2>1, <2>2 DEF Collect, Idle, Workers, Points
  <2>3. CASE ~cancel
    BY <1>1, <1>i, <1>w, <2>1, <2>3 DEF Collect, Idle, Workers, Points
  <2> QED
    BY <2>2, <2>3
<1>2. CASE Observe
  <2>1. UNCHANGED pending /\ \E at \in {"check", "next"}, due \in Dues :
          worker' = [worker EXCEPT !.at = at, !.due = due]
    <3>1. PICK cs \in script.captures, ss \in script.sinks, d \in 1 .. 2 : Observed(cs, ss, d)
      BY <1>2 DEF Observe
    <3> DEFINE known == ~Unknown /\ node # 0
               c == IF known THEN cs ELSE Unclear
               t == IF known THEN ss ELSE "unclear"
               first == IF CaptureDue(capture', c) THEN <<"capture">> ELSE <<>>
               second == IF t # "unclear" /\ SinkDue(sink') THEN <<"sink">> ELSE <<>>
               due == IF pending # Clear THEN <<>> ELSE first \o second
               at == IF pending # Clear THEN "check" ELSE "next"
    <3>2. worker' = [worker EXCEPT !.at = at, !.due = due]
      BY <3>1 DEF Observed
    <3>a. <<>> \in Dues /\ <<"capture">> \in Dues /\ <<"sink">> \in Dues
      OBVIOUS
    <3>b. first \in {<<>>, <<"capture">>} /\ second \in {<<>>, <<"sink">>}
      BY Zenon
    <3>3. first \in Dues /\ second \in Dues
      BY <3>a, <3>b
    <3> HIDE DEF first, second
    <3>4. due \in Dues /\ at \in {"check", "next"}
      BY <3>3
    <3>5. UNCHANGED pending
      BY <1>2 DEF Observe
    <3> QED
      BY <3>2, <3>4, <3>5
  <2> QED
    BY <2>1 DEF Workers, Points
<1>3. CASE NextRemedy
  <2>1. UNCHANGED pending /\ \E at \in {"first", "resolve"} : Go(at)
    BY <1>3 DEF NextRemedy
  <2> QED
    BY <1>g, <2>1 DEF Go, Points
<1>4. CASE Resolve
  <2>1. UNCHANGED pending /\ worker.due # <<>>
    BY <1>4 DEF Resolve, Due
  <2>2. CASE Drop
    BY <1>d, <2>1, <2>2
  <2>3. CASE worker' = [worker EXCEPT !.at = "confirm", !.card = card.id]
    BY <1>w, <2>1, <2>3 DEF Workers, Points
  <2> QED
    BY <1>4, <2>2, <2>3 DEF Resolve
<1>5. CASE ConfirmTarget
  <2>1. worker.due # <<>>
    BY <1>5 DEF ConfirmTarget, Due
  <2>2. CASE Drop /\ UNCHANGED pending
    BY <1>d, <2>1, <2>2
  <2>3. CASE Owes /\ Go("change")
    BY <1>g, <1>w, <2>3 DEF Go, Points, Owes, Pendings
  <2> QED
    BY <1>5, <2>2, <2>3 DEF ConfirmTarget
<1>6. CASE Change \/ ChangeFails
  <2>1. UNCHANGED pending /\ Go("check")
    BY <1>6 DEF Change, ChangeFails
  <2> QED
    BY <1>g, <2>1 DEF Go, Points
<1>7. CASE Check
  <2>1. CASE Unpaid
    BY <1>7, <1>u, <2>1 DEF Check
  <2>2. CASE \E at \in {"apply", "stopapply"} : Go(at)
    BY <1>7, <1>g, <2>2 DEF Check, Go, Points
  <2> QED
    BY <1>7, <2>1, <2>2 DEF Check
<1>8. CASE CheckFails
  BY <1>8, <1>u DEF CheckFails
<1>9. CASE Apply
  BY <1>9, <1>u, <1>i DEF Apply
<1>10. CASE ApplyFails
  BY <1>10, <1>u DEF ApplyFails, Unsettled
<1>11. CASE Join
  <2>1. UNCHANGED pending /\ \E at \in {"done", "stopcheck"} : Go(at)
    BY <1>11 DEF Join
  <2> QED
    BY <1>g, <2>1 DEF Go, Points
<1>12. CASE Unplug \/ Plug \/ Stop
  BY <1>12 DEF Unplug, Plug, Stop
<1>13. CASE UNCHANGED vars
  BY <1>13 DEF vars
<1> QED
  BY <1>1, <1>2, <1>3, <1>4, <1>5, <1>6, <1>7, <1>8, <1>9, <1>10, <1>11, <1>12, <1>13
  DEF Next, Worker

\* A remedy is due only with an attempt left, and spending one of a kind
\* leaves those of the other.
LEMMA DueStep == TypeOK /\ Due /\ [Next]_vars => Due'
<1> SUFFICES ASSUME TypeOK, Due, [Next]_vars PROVE Due'
  OBVIOUS
<1> DEFINE Dues == Seq({"capture", "sink"})
<1>w. worker \in Workers /\ worker.due \in Dues
  BY DEF TypeOK, HandOK, Workers
<1>k. \A kind : UNCHANGED <<capture, sink>> => Left(capture', sink', kind) = Left(capture, sink, kind)
  BY DEF Left
\* Steps that drop the first remedy in hand, or none.
<1>s. ASSUME UNCHANGED <<capture, sink>>, worker'.at \notin {"resolve", "confirm", "change"},
             worker'.due = worker.due \/ (worker.due # <<>> /\ worker'.due = Tail(worker.due)),
             worker'.at = "next" => worker.due = <<>> \/ worker'.due = Tail(worker.due)
      PROVE  Due'
  <2>1. CASE worker'.due = worker.due
    <3>1. worker'.at = "next" => worker'.due = <<>>
      <4> SUFFICES ASSUME worker'.at = "next", worker.due # <<>> PROVE FALSE
        BY <2>1
      <4>1. worker.due = Tail(worker.due)
        BY <1>s, <2>1
      <4>2. Len(worker.due) = Len(Tail(worker.due))
        BY <4>1
      <4> QED
        BY <1>w, <4>2
    <3> QED
      BY <1>s, <1>w, <1>k, <2>1, <3>1 DEF Due
  <2>2. CASE worker.due # <<>> /\ worker'.due = Tail(worker.due)
    <3>1. /\ DOMAIN worker'.due \subseteq 1 .. Len(worker.due) - 1
          /\ \A i \in DOMAIN worker'.due : worker'.due[i] = worker.due[i + 1] /\ i + 1 \in DOMAIN worker.due
      BY <1>w, <2>2
    <3>2. \A i \in DOMAIN worker'.due : Left(capture', sink', worker'.due[i])
      BY <1>s, <1>k, <3>1 DEF Due
    <3>3. \A i, j \in DOMAIN worker'.due : i # j => worker'.due[i] # worker'.due[j]
      BY <3>1 DEF Due
    <3> QED
      BY <1>s, <3>2, <3>3 DEF Due
  <2> QED
    BY <1>s, <2>1, <2>2
\* Steps that go on with the same remedy.
<1>c. ASSUME UNCHANGED <<capture, sink>>, worker'.due = worker.due, worker'.at # "next",
             worker'.at \in {"resolve", "confirm", "change"} => worker.due # <<>>
      PROVE  Due'
  BY <1>c, <1>k DEF Due
<1>u. ASSUME UNCHANGED <<capture, sink>>, Unpaid PROVE Due'
  <2>1. /\ worker'.at \in {"next", "ended"}
        /\ worker'.due = IF worker.due = <<>> THEN worker.due ELSE Tail(worker.due)
    BY <1>u, <1>w DEF Unpaid, After, Workers
  <2> QED
    BY <1>s, <1>u, <2>1
<1>d. ASSUME UNCHANGED <<capture, sink>>, Drop, worker.due # <<>> PROVE Due'
  <2>1. worker'.at = "next" /\ worker'.due = Tail(worker.due)
    BY <1>d, <1>w DEF Drop, Workers
  <2> QED
    BY <1>s, <1>d, <2>1
<1>g. \A at : Go(at) => worker'.at = at /\ worker'.due = worker.due
  BY <1>w DEF Go, Workers
<1>1. CASE Collect
  <2>1. /\ UNCHANGED <<capture, sink>> /\ worker'.due = <<>> /\ worker'.at \in {"ended", "second"}
    BY <1>1 DEF Collect, watchVars, Idle
  <2> QED
    BY <2>1 DEF Due
<1>2. CASE Observe
  <2>1. PICK cs \in script.captures, ss \in script.sinks, d \in 1 .. 2 : Observed(cs, ss, d)
    BY <1>2 DEF Observe
  <2> DEFINE known == ~Unknown /\ node # 0
             c == IF known THEN cs ELSE Unclear
             t == IF known THEN ss ELSE "unclear"
             a == CaptureDue(capture', c)
             b == t # "unclear" /\ SinkDue(sink')
             due == IF pending # Clear THEN <<>>
                    ELSE (IF a THEN <<"capture">> ELSE <<>>) \o (IF b THEN <<"sink">> ELSE <<>>)
  <2>2. worker' = [worker EXCEPT !.at = IF pending # Clear THEN "check" ELSE "next", !.due = due]
    BY <2>1 DEF Observed
  <2>3. worker'.due = due /\ worker'.at \in {"check", "next"}
    BY <1>w, <2>2 DEF Workers
  <2>4. (a => capture'.attempts < MaxAttempts) /\ (b => sink'.attempts < MaxAttempts)
    BY DEF CaptureDue, SinkDue
  <2> HIDE DEF a, b, c, t
  <2>5. /\ \A i, j \in DOMAIN due : i # j => due[i] # due[j]
        /\ \A i \in DOMAIN due : (due[i] = "capture" /\ a) \/ (due[i] = "sink" /\ b)
    <3>1. CASE pending # Clear
      BY <3>1
    <3>2. CASE pending = Clear /\ a /\ b
      BY <3>2
    <3>3. CASE pending = Clear /\ a /\ ~b
      BY <3>3
    <3>4. CASE pending = Clear /\ ~a
      BY <3>4
    <3> QED
      BY <3>1, <3>2, <3>3, <3>4
  <2>6. \A i \in DOMAIN due : Left(capture', sink', due[i])
    BY <2>4, <2>5 DEF Left
  <2> HIDE DEF due
  <2> QED
    BY <2>3, <2>5, <2>6 DEF Due
<1>3. CASE NextRemedy
  <2>1. CASE Go("first") /\ UNCHANGED watchVars
    BY <1>c, <1>g, <2>1 DEF watchVars
  <2>2. CASE Attempt(Head(worker.due)) /\ Go("resolve") /\ worker.due # <<>>
    <3>1. worker'.at = "resolve" /\ worker'.due = worker.due
      BY <1>g, <2>2
    <3>2. \A i \in DOMAIN worker.due : worker.due[i] \in {"capture", "sink"}
      BY <1>w
    <3>3. Head(worker.due) = worker.due[1] /\ 1 \in DOMAIN worker.due
      BY <1>w, <2>2
    <3>4. \A kind \in {"capture", "sink"} :
            kind # Head(worker.due) => Left(capture', sink', kind) = Left(capture, sink, kind)
      BY <2>2, <3>2, <3>3 DEF Attempt, Left
    <3>5. \A i \in DOMAIN worker.due : i > 1 => worker.due[i] # Head(worker.due)
      BY <3>3 DEF Due
    <3>6. \A i \in DOMAIN worker.due : i > 1 => Left(capture', sink', worker.due[i])
      BY <3>2, <3>4, <3>5 DEF Due
    <3> QED
      BY <2>2, <3>1, <3>6 DEF Due
  <2> QED
    BY <1>3, <2>1, <2>2 DEF NextRemedy
<1>4. CASE Resolve
  <2>1. worker.due # <<>> /\ UNCHANGED <<capture, sink>>
    BY <1>4 DEF Resolve, Due, watchVars
  <2>2. CASE Drop
    BY <1>d, <2>1, <2>2
  <2>3. CASE worker' = [worker EXCEPT !.at = "confirm", !.card = card.id]
    <3>1. worker'.at = "confirm" /\ worker'.due = worker.due
      BY <1>w, <2>3 DEF Workers
    <3> QED
      BY <1>c, <2>1, <3>1
  <2> QED
    BY <1>4, <2>2, <2>3 DEF Resolve
<1>5. CASE ConfirmTarget
  <2>1. worker.due # <<>> /\ UNCHANGED <<capture, sink>>
    BY <1>5 DEF ConfirmTarget, Due, watchVars
  <2>2. CASE Drop
    BY <1>d, <2>1, <2>2
  <2>3. CASE Go("change")
    BY <1>c, <1>g, <2>1, <2>3
  <2> QED
    BY <1>5, <2>2, <2>3 DEF ConfirmTarget
<1>6. CASE Change \/ ChangeFails
  BY <1>6, <1>c, <1>g DEF Change, ChangeFails, watchVars
<1>7. CASE Check
  <2>1. UNCHANGED <<capture, sink>>
    BY <1>7 DEF Check, watchVars
  <2>2. CASE Unpaid
    BY <1>u, <2>1, <2>2
  <2>3. CASE \E at \in {"apply", "stopapply"} : Go(at)
    BY <1>c, <1>g, <2>1, <2>3
  <2> QED
    BY <1>7, <2>2, <2>3 DEF Check
<1>8. CASE CheckFails \/ Apply \/ ApplyFails
  BY <1>8, <1>u DEF CheckFails, Apply, ApplyFails, watchVars
<1>9. CASE Join
  <2>1. UNCHANGED <<capture, sink>> /\ \E at \in {"done", "stopcheck"} : Go(at)
    BY <1>9 DEF Join, watchVars
  <2> QED
    BY <1>c, <1>g, <2>1
<1>10. CASE UNCHANGED <<capture, sink, worker>>
  BY <1>10, <1>k DEF Due
<1>11. CASE Unplug \/ Plug \/ Stop \/ UNCHANGED vars
  BY <1>10, <1>11 DEF Unplug, Plug, Stop, vars, watchVars
<1> QED
  BY <1>1, <1>2, <1>3, <1>4, <1>5, <1>6, <1>7, <1>8, <1>9, <1>11 DEF Next, Worker

\* Nothing is taken away without its debt, and only what came back clears one.
LEMMA OwedStep == TypeOK /\ Due /\ Owed /\ [Next]_vars => Owed'
<1> SUFFICES ASSUME TypeOK, Due, Owed, [Next]_vars PROVE Owed'
  OBVIOUS
<1> USE DEF Owed, NothingLeftOff, Kind
<1>w. /\ worker \in Workers /\ card \in Cards /\ pending \in Pendings
  BY DEF TypeOK, HandOK, WorldOK
<1>n. Clear.kind = "none"
  BY DEF Clear
<1>g. \A at : Go(at) => /\ worker'.at = at /\ worker'.due = worker.due
                        /\ worker'.card = worker.card /\ worker'.node = worker.node
  BY <1>w DEF Go, Workers
<1>u. Unpaid => worker'.at \in {"ended", "next"}
  BY <1>w DEF Unpaid, After, Workers
<1>d. Drop => worker'.at = "next"
  BY <1>w DEF Drop, Workers
\* Steps that leave the world and the debt alone.
<1>s. ASSUME UNCHANGED <<card, node, pending>>,
             worker'.at \notin {"resolve", "confirm", "change", "done"}
      PROVE  Owed'
  BY <1>s
<1>1. CASE Unplug
  BY <1>1 DEF Unplug, NoCard
<1>p. CASE Plug
  <2>1. /\ ~card'.off /\ ~card'.held /\ card'.late = (worker.at = "change")
        /\ card'.id = New({}) /\ UNCHANGED <<worker, pending>>
    BY <1>p DEF Plug, NoCard
  <2>2. card'.id # 0
    BY <2>1, NewIsName, IdsAssumption
  <2> QED
    BY <2>1, <2>2
<1>2. CASE Stop \/ UNCHANGED vars
  BY <1>2 DEF Stop, vars, worldVars
<1>3. CASE Collect
  <2>1. worker'.at \in {"ended", "second"} /\ UNCHANGED <<card, node, pending>>
    BY <1>3 DEF Collect, Idle, worldVars
  <2> QED
    BY <1>s, <2>1
<1>4. CASE Observe
  <2>1. worker'.at \in {"check", "next"} /\ UNCHANGED <<card, node, pending>>
    BY <1>4, <1>w DEF Observe, Observed, Workers, worldVars
  <2> QED
    BY <1>s, <2>1
<1>5. CASE NextRemedy
  <2>1. UNCHANGED <<card, node, pending>>
    BY <1>5 DEF NextRemedy, worldVars
  <2>2. CASE worker'.at = "first"
    BY <1>s, <2>1, <2>2
  <2>3. CASE worker'.at = "resolve" /\ pending = Clear
    BY <2>1, <2>3
  <2> QED
    BY <1>5, <1>g, <2>2, <2>3 DEF NextRemedy
<1>6. CASE Resolve
  <2>1. UNCHANGED <<card, node, pending>> /\ pending = Clear
    BY <1>6 DEF Resolve, worldVars
  <2>2. worker'.at \in {"next", "confirm"}
    BY <1>6, <1>d, <1>w DEF Resolve, Workers
  <2> QED
    BY <2>1, <2>2
<1>7. CASE ConfirmTarget
  <2>1. UNCHANGED <<card, node>> /\ pending = Clear
    BY <1>7 DEF ConfirmTarget, worldVars
  <2>2. ~card.off /\ ~card.held
    BY <1>n, <1>w, <2>1 DEF Cards
  <2>3. CASE Drop /\ UNCHANGED pending
    BY <1>d, <1>s, <2>1, <2>3
  <2>4. CASE Owes /\ Go("change") /\ node = worker.node /\ card.id = worker.card
    BY <1>g, <2>1, <2>2, <2>4 DEF Owes
  <2> QED
    BY <1>7, <2>3, <2>4 DEF ConfirmTarget
\* The command reaches what is owed, unless that was replaced late.
<1>8. CASE Change \/ ChangeFails
  <2>1. UNCHANGED pending /\ worker'.at = "check" /\ worker.at = "change"
    BY <1>8, <1>g DEF Change, ChangeFails
  <2>2. CASE UNCHANGED worldVars
    BY <1>s, <2>1, <2>2 DEF worldVars
  <2>3. CASE Changed /\ node # 0
    <3>1. card.id # 0 /\ (card.late \/ (card.id = worker.card /\ node = worker.node))
      BY <2>1, <2>3
    <3>2. card'.id = card.id /\ card'.late = card.late
      BY <1>w, <2>3 DEF Changed, Cards
    <3>3. CASE Kind = "capture"
      <4>1. pending.kind = "card" /\ pending.id = worker.card
        BY <2>1, <3>3
      <4>2. card'.held = card.held /\ node' = 0
        BY <1>w, <2>3, <3>3 DEF Changed, Cards
      <4> QED
        BY <2>1, <3>1, <3>2, <4>1, <4>2
    <3>4. CASE Kind # "capture"
      <4>1. pending.kind = "sink" /\ pending.id = worker.node
        BY <2>1, <3>4
      <4>2. card'.off = card.off /\ node' = node
        BY <1>w, <2>3, <3>4 DEF Changed, Cards
      <4> QED
        BY <2>1, <3>1, <3>2, <4>1, <4>2
    <3> QED
      BY <3>3, <3>4
  <2> QED
    BY <1>8, <2>2, <2>3 DEF Change, ChangeFails
<1>9. CASE Check
  <2>1. UNCHANGED <<card, node, pending>>
    BY <1>9 DEF Check, worldVars
  <2>2. worker'.at \in {"apply", "stopapply", "ended", "next"}
    BY <1>9, <1>g, <1>u DEF Check
  <2> QED
    BY <1>s, <2>1, <2>2
<1>10. CASE CheckFails
  BY <1>10, <1>s, <1>u DEF CheckFails, worldVars
<1>11. ASSUME Undone, card.id # 0 PROVE ~card'.off /\ ~card'.held /\ card'.id # 0
  BY <1>11, <1>w DEF Undone, Cards
<1>12. CASE Apply
  BY <1>12, <1>11, <1>u DEF Apply
<1>13. CASE ApplyFails
  <2>1. UNCHANGED pending /\ worker'.at \in {"ended", "next"}
    BY <1>13, <1>u DEF ApplyFails, Unsettled
  <2>2. CASE Undone /\ card.id # 0
    BY <1>11, <2>1, <2>2
  <2>3. CASE UNCHANGED worldVars
    BY <1>s, <2>1, <2>3 DEF worldVars
  <2> QED
    BY <1>13, <2>2, <2>3 DEF ApplyFails
<1>14. CASE Join
  <2>1. UNCHANGED <<card, node, pending>>
    BY <1>14 DEF Join, worldVars
  <2>2. worker'.at = (IF pending = Clear THEN "done" ELSE "stopcheck")
    BY <1>14, <1>g DEF Join
  <2> QED
    BY <2>1, <2>2
<1> QED
  BY <1>1, <1>p, <1>2, <1>3, <1>4, <1>5, <1>6, <1>7, <1>8, <1>9, <1>10, <1>12, <1>13, <1>14
  DEF Next, Worker

\* The strengthening is inductive.
LEMMA Invariant == Spec => []IInv
<1>1. Init => IInv
  <2> SUFFICES ASSUME Init PROVE IInv
    OBVIOUS
  <2> USE HealthAssumption
  <2>1. WorldOK
    BY IdsAssumption DEF Init, WorldOK, NoCard, Cards, Names
  <2>2. ScriptOK
    BY ScriptsAssumption DEF Init, ScriptOK
  <2>3. HandOK /\ worker.due = <<>> /\ worker.at = "first"
    BY DEF Init, HandOK, Idle, Clear, Workers, Pendings, Points, Names
  <2>4. capture \in Captures /\ sink \in Sinks /\ capture.clean.id = 0 /\ sink.clean = 0
        /\ capture.attempts = 0 /\ sink.attempts = 0
    BY DEF Init, NewCapture, NewSink, NoGlitch, NoClean, Captures, Sinks, Glitches, Names
  <2>5. Rested \in Wear(CleanRefill) /\ Rested \in Wear(SinkRefill) /\ Rested.spent = 0
    BY DEF Rested, Wear, Names
  <2>6. WatchOK /\ Budget
    BY <2>4, <2>5 DEF Init, WatchOK, Budget, CapturePaired, SinkPaired
  <2>7. Due
    BY <2>3 DEF Due
  <2>8. Owed
    BY <2>3, IdsAssumption DEF Init, Owed, NothingLeftOff, NoCard
  <2> QED
    BY <2>1, <2>2, <2>3, <2>6, <2>7, <2>8 DEF IInv, TypeOK
<1>2. IInv /\ [Next]_vars => IInv'
  BY WorldStep, ScriptStep, BudgetStep, HandStep, DueStep, OwedStep DEF IInv, TypeOK
<1> QED
  BY <1>1, <1>2, PTL DEF Spec

\* README, recovery budget: between two unbroken healthy intervals of one
\* generation, a capture and an output are disturbed MaxAttempts times at most.
THEOREM RemediesBounded == Spec => []BoundedRemedies
<1>1. IInv => BoundedRemedies
  <2> SUFFICES ASSUME IInv PROVE BoundedRemedies
    OBVIOUS
  <2>1. /\ wear.capture.spent \in Nat /\ capture.attempts \in Nat
        /\ wear.sink.spent \in Nat /\ sink.attempts \in Nat
    BY DEF IInv, TypeOK, WatchOK, Captures, Sinks, Wear
  <2> QED
    BY <2>1, HealthAssumption DEF IInv, Budget, CapturePaired, SinkPaired, BoundedRemedies
<1> QED
  BY <1>1, Invariant, PTL

\* Restoration: a card without its profile and a suspended output are owed under
\* their own identity until they are back, unless they were plugged in between
\* the last resolution and the command, and the daemon ends when nothing is owed.
THEOREM DebtKept == Spec => []NothingLeftOff
<1>1. IInv => NothingLeftOff
  BY DEF IInv, Owed
<1> QED
  BY <1>1, Invariant, PTL
=============================================================================
