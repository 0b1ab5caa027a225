---------------------------- MODULE HealthWatch -----------------------------
(* The health policy (openwave-core/src/health.rs): what one check of a      *)
(* capture and of an output remembers and when it makes a remedy due.  A     *)
(* watch belongs to the stable name of a node, and outlives the node.  Times *)
(* are ages in ticks, cut off where the code stops telling them apart.       *)
EXTENDS Naturals

CONSTANTS
    Confirm,        \* GLITCH_CONFIRM_CHECKS
    MaxAttempts,    \* MAX_ATTEMPTS
    Cooldown,       \* COOLDOWN
    CleanRefill,    \* CLEAN_REFILL
    SinkRefill      \* STALL_CLEAN_REFILL_CHECKS

ASSUME HealthAssumption ==
    {Confirm, MaxAttempts, Cooldown, CleanRefill, SinkRefill} \subseteq Nat \ {0}

UpTo(limit, n) == IF n > limit THEN limit ELSE n

\* What a check sees of a capture: no sample, one that is not running or whose
\* mute is on or unknown, or one of its xruns (against the sample before) and
\* of the age of its bytes; and of the stream of an output.
Samples == [seen : BOOLEAN, xruns : {"few", "many", "back", "unknown"},
            bytes : {"fresh", "stale", "unknown"}]
Flows == {"moving", "stuck", "xrun", "back", "unclear"}
Unclear == [seen |-> FALSE, xruns |-> "unknown", bytes |-> "unknown"]
Capture(xruns, bytes) == [seen |-> TRUE, xruns |-> xruns, bytes |-> bytes]

-----------------------------------------------------------------------------
(* CaptureWatch *)

NoGlitch == [id |-> 0, streak |-> 0, delta |-> "none"]
NoClean  == [id |-> 0, age |-> 0]
NewCapture == [glitch |-> NoGlitch, clean |-> NoClean, attempts |-> 0, cool |-> Cooldown]

\* StallWatch::pause
Unwell_KeepsClean(w) == w
Unwell(w) == [w EXCEPT !.clean = NoClean]
PauseCapture(w) == [Unwell(w) EXCEPT !.glitch = NoGlitch]

\* GlitchWatch::observe: another generation or a counter that fell is a new
\* baseline.
Glitch(g, id, xruns) ==
    IF xruns = "unknown" THEN NoGlitch
    ELSE IF g.id # id \/ xruns = "back" THEN [NoGlitch EXCEPT !.id = id]
    ELSE [id |-> id, delta |-> xruns,
          streak |-> IF xruns = "many" THEN UpTo(Confirm, g.streak + 1) ELSE 0]

Healthy(g, bytes) == g.delta = "few" /\ bytes = "fresh"

\* StallWatch::record_recovered: one healthy interval of one generation.
Recovered(w, id, d) ==
    LET age == IF w.clean.id = id THEN UpTo(CleanRefill, w.clean.age + d) ELSE 0
    IN  [w EXCEPT !.clean = [id |-> id, age |-> age],
                  !.attempts = IF age = CleanRefill THEN 0 ELSE @,
                  !.cool = IF age = CleanRefill THEN Cooldown ELSE @]

\* CaptureWatch::observe, d after the check before.
ObserveCapture(w, id, sample, d) ==
    LET aged == [w EXCEPT !.cool = UpTo(Cooldown, @ + d)]
        g    == Glitch(w.glitch, id, sample.xruns)
        next == [aged EXCEPT !.glitch = g]
    IN  IF ~sample.seen THEN PauseCapture(aged)
        ELSE IF Healthy(g, sample.bytes) THEN Recovered(next, id, d)
        ELSE Unwell(next)
CaptureDue(w, sample) ==
    /\ sample.seen
    /\ sample.bytes = "stale" \/ w.glitch.streak = Confirm
    /\ w.attempts < MaxAttempts /\ w.cool = Cooldown

SpendCapture(w) == [w EXCEPT !.attempts = @ + 1, !.cool = 0, !.clean = NoClean, !.glitch = NoGlitch]

-----------------------------------------------------------------------------
(* SinkStallWatch *)

NewSink == [base |-> 0, stalled |-> FALSE, clean |-> 0, attempts |-> 0, cool |-> Cooldown]
PauseSink(w) == [w EXCEPT !.base = 0, !.stalled = FALSE, !.clean = 0]

ObserveSink(w, id, sample, d) ==
    LET aged == [w EXCEPT !.cool = UpTo(Cooldown, @ + d)]
        follows == w.base = id /\ sample # "back"
        stalled == sample = "xrun" \/ (follows /\ sample = "stuck")
        clean   == IF follows /\ ~stalled THEN UpTo(SinkRefill, w.clean + 1) ELSE 0
    IN  IF sample = "unclear" THEN PauseSink(aged)
        ELSE [aged EXCEPT !.base = id, !.stalled = stalled, !.clean = clean,
                          !.attempts = IF clean = SinkRefill THEN 0 ELSE @]
SinkDue(w) == w.stalled /\ w.attempts < MaxAttempts /\ w.cool = Cooldown
SpendSink(w) == [w EXCEPT !.attempts = @ + 1, !.cool = 0, !.base = 0, !.clean = 0]
=============================================================================
