------------------------------- MODULE Health -------------------------------
(* The health worker of the capture daemon with automatic recovery (health.rs,*)
(* recovery.rs, bin/openwave-daemon.rs): it samples the graph between two    *)
(* reads of it, spends an attempt, takes a card off its profile or suspends  *)
(* an output with a command that may take effect although it failed, and     *)
(* owes the way back to the identity it meant, across checks and shutdown.   *)
(* One card carries the capture and the output; unplugging makes new ones.   *)
EXTENDS HealthWatch, Sequences, FiniteSets

CONSTANTS
    Ids,        \* identities of cards and nodes: one that nobody remembers is new
    Scripts     \* [captures, sinks: what samples show, fail, unplug: how often]

\* There is always an identity that nobody remembers.
ASSUME IdsAssumption == Ids \subseteq Nat \ {0} /\ {1, 2} \subseteq Ids
                        /\ (IsFiniteSet(Ids) => Cardinality(Ids) > 11)
ASSUME ScriptsAssumption ==
    Scripts \subseteq [captures : SUBSET Samples, sinks : SUBSET Flows, fail : Nat, unplug : Nat]

VARIABLES
    card,       \* identity of the card, or 0; its profile is off or its output
                \* suspended; history: plugged in as the command for another was due
    node,       \* identity of its nodes, or 0
    capture, sink,  \* the watches
    worker,     \* the health thread and what it has in hand
    pending,    \* Restoration
    cancel,     \* a signal asked the daemon to stop
    wear,       \* history: remedies since the last healthy interval of the samples
    script

worldVars == <<card, node>>
watchVars == <<capture, sink, wear>>
vars == <<worldVars, watchVars, worker, pending, cancel, script>>

NoCard == [id |-> 0, off |-> FALSE, held |-> FALSE, late |-> FALSE]
Clear == [kind |-> "none", id |-> 0]
Rested == [spent |-> 0, id |-> 0, run |-> 0]
Idle == [at |-> "first", node |-> 0, due |-> <<>>, card |-> 0]

Init ==
    /\ card = [NoCard EXCEPT !.id = 1] /\ node = 2
    /\ capture = NewCapture /\ sink = NewSink
    /\ worker = Idle /\ pending = Clear /\ cancel = FALSE
    /\ wear = [capture |-> Rested, sink |-> Rested]
    /\ script \in Scripts

\* Serials are never given twice.
Remembered == {card.id, node, capture.glitch.id, capture.clean.id, sink.base, worker.node, worker.card,
               pending.id, wear.capture.id, wear.sink.id}
New(not) == CHOOSE i \in Ids \ (Remembered \cup not) : TRUE

Spend(what) == script[what] > 0 /\ script' = [script EXCEPT ![what] = @ - 1]

-----------------------------------------------------------------------------
(* The world *)

Unplug ==
    /\ Spend("unplug") /\ card.id # 0
    /\ card' = NoCard /\ node' = 0
    /\ UNCHANGED <<watchVars, worker, pending, cancel>>
Plug ==
    /\ card.id = 0
    /\ card' = [NoCard EXCEPT !.id = New({}), !.late = worker.at = "change"]
    /\ node' = New({New({})})
    /\ UNCHANGED <<watchVars, worker, pending, cancel, script>>
Stop ==
    /\ ~cancel /\ cancel' = TRUE
    /\ UNCHANGED <<worldVars, watchVars, worker, pending, script>>

-----------------------------------------------------------------------------
(* One check *)

Go(at) == worker' = [worker EXCEPT !.at = at]

\* The loop looks for a stop before each check.
Collect ==
    /\ worker.at = "first"
    /\ worker' = IF cancel THEN [Idle EXCEPT !.at = "ended"] ELSE [Idle EXCEPT !.at = "second", !.node = node]
    /\ UNCHANGED <<worldVars, watchVars, pending, cancel, script>>

\* History of the samples alone: remedies spent since they were healthy for as
\* long as it takes, without a break and of one generation.
Run(h, id, good, d, first, limit) ==
    LET run == IF ~good THEN 0 ELSE IF h.id = id THEN UpTo(limit, h.run + d) ELSE first
    IN  [spent |-> IF run = limit THEN 0 ELSE h.spent, id |-> IF good THEN id ELSE 0, run |-> run]

\* The graph between the two reads is the same, or nothing is known; a node
\* that is not there has no sample.
Unknown == node # worker.node \/ cancel
Observed(cs, ss, d) ==
    LET known == ~Unknown /\ node # 0
        c == IF known THEN cs ELSE Unclear
        s == IF known THEN ss ELSE "unclear"
    IN  /\ capture' = ObserveCapture(capture, node, c, d)
        /\ sink' = ObserveSink(sink, node, s, d)
        /\ wear' = [capture |-> Run(wear.capture, node, c = Capture("few", "fresh"), d, 0, CleanRefill),
                    sink |-> Run(wear.sink, node, s = "moving", 1, 1, SinkRefill)]
        /\ worker' = [worker EXCEPT
              !.at = IF pending # Clear THEN "check" ELSE "next",
              !.due = IF pending # Clear THEN <<>>
                      ELSE (IF CaptureDue(capture', c) THEN <<"capture">> ELSE <<>>)
                           \o (IF s # "unclear" /\ SinkDue(sink') THEN <<"sink">> ELSE <<>>)]
Observe ==
    /\ worker.at = "second"
    /\ \E cs \in script.captures, ss \in script.sinks, d \in 1..2 : Observed(cs, ss, d)
    /\ UNCHANGED <<worldVars, pending, cancel, script>>

\* check_once: an attempt is spent before anything is looked up.
Attempt(kind) ==
    /\ capture' = IF kind = "capture" THEN SpendCapture(capture) ELSE capture
    /\ sink' = IF kind = "sink" THEN SpendSink(sink) ELSE sink
    /\ wear' = [wear EXCEPT ![kind].spent = @ + 1]
NextRemedy ==
    /\ worker.at = "next"
    /\ IF worker.due = <<>> \/ cancel \/ pending # Clear
       THEN Go("first") /\ UNCHANGED watchVars
       ELSE Attempt(Head(worker.due)) /\ Go("resolve")
    /\ UNCHANGED <<worldVars, pending, cancel, script>>
Kind == Head(worker.due)
Drop == worker' = [worker EXCEPT !.at = "next", !.due = Tail(@), !.card = 0]

\* The first resolution finds the card of the sampled node.
Resolve ==
    /\ worker.at = "resolve"
    /\ IF cancel \/ node # worker.node THEN Drop
       ELSE worker' = [worker EXCEPT !.at = "confirm", !.card = card.id]
    /\ UNCHANGED <<worldVars, watchVars, pending, cancel, script>>
\* The second one finds the same, and the way back is owed before the command.
Owes == pending' = IF Kind = "capture" THEN [kind |-> "card", id |-> worker.card]
                                       ELSE [kind |-> "sink", id |-> worker.node]
ConfirmTarget_Once ==
    /\ worker.at = "confirm"
    /\ IF cancel THEN Drop /\ UNCHANGED pending ELSE Owes /\ Go("change")
    /\ UNCHANGED <<worldVars, watchVars, cancel, script>>
ConfirmTarget ==
    /\ worker.at = "confirm"
    /\ IF cancel \/ node # worker.node \/ card.id # worker.card
       THEN Drop /\ UNCHANGED pending
       ELSE Owes /\ Go("change")
    /\ UNCHANGED <<worldVars, watchVars, cancel, script>>

\* The command names its target: whatever has the name then, be it another card
\* than the one whose identity is owed.
Changed == IF Kind = "capture" THEN card' = [card EXCEPT !.off = TRUE] /\ node' = 0
                               ELSE card' = [card EXCEPT !.held = TRUE] /\ UNCHANGED node
Change ==
    /\ worker.at = "change" /\ node # 0
    /\ Changed /\ Go("check")
    /\ UNCHANGED <<watchVars, pending, cancel, script>>
\* It fails without its target, after a stop, or otherwise; it may have had its effect.
ChangeFails ==
    /\ worker.at = "change"
    /\ IF node = 0 \/ cancel THEN UNCHANGED script ELSE Spend("fail")
    /\ (node # 0 /\ Changed) \/ UNCHANGED worldVars
    /\ Go("check")
    /\ UNCHANGED <<watchVars, pending, cancel>>

-----------------------------------------------------------------------------
(* Restoration::restore_with: after the change, in later checks, after stop *)

\* A stop retries what it owes; a check goes on to the next remedy.
After == IF worker.at \in {"stopcheck", "stopapply"} THEN "ended" ELSE "next"
Unpaid == worker' = [worker EXCEPT !.at = After, !.due = IF @ = <<>> THEN @ ELSE Tail(@), !.card = 0]

IsTarget == IF pending.kind = "card" THEN card.id = pending.id ELSE node = pending.id
Check ==
    /\ worker.at \in {"check", "stopcheck"}
    /\ IF IsTarget THEN Go(IF worker.at = "check" THEN "apply" ELSE "stopapply") ELSE Unpaid
    /\ UNCHANGED <<worldVars, watchVars, pending, cancel, script>>
CheckFails ==
    /\ worker.at \in {"check", "stopcheck"} /\ Spend("fail")
    /\ Unpaid
    /\ UNCHANGED <<worldVars, watchVars, pending, cancel>>
Undone == IF pending.kind = "card"
          THEN /\ card' = [card EXCEPT !.off = FALSE]
               /\ node' = IF card.off THEN New({}) ELSE node
          ELSE card' = [card EXCEPT !.held = FALSE] /\ UNCHANGED node
Apply ==
    /\ worker.at \in {"apply", "stopapply"} /\ card.id # 0
    /\ Undone /\ pending' = Clear /\ Unpaid
    /\ UNCHANGED <<watchVars, cancel, script>>
Unsettled == UNCHANGED pending
ApplyFails ==
    /\ worker.at \in {"apply", "stopapply"}
    /\ IF card.id = 0 THEN UNCHANGED script ELSE Spend("fail")
    /\ (card.id # 0 /\ Undone) \/ UNCHANGED worldVars
    /\ Unsettled /\ Unpaid
    /\ UNCHANGED <<watchVars, cancel>>

\* stop_until_restored, after the thread was joined.
Join_Abandons ==
    /\ worker.at = "ended" /\ Go("done")
    /\ UNCHANGED <<worldVars, watchVars, pending, cancel, script>>
Join ==
    /\ worker.at = "ended"
    /\ Go(IF pending = Clear THEN "done" ELSE "stopcheck")
    /\ UNCHANGED <<worldVars, watchVars, pending, cancel, script>>

Worker == Collect \/ Observe \/ NextRemedy \/ Resolve \/ ConfirmTarget \/ Change \/ ChangeFails
          \/ Check \/ CheckFails \/ Apply \/ ApplyFails \/ Join

Next == Unplug \/ Plug \/ Stop \/ Worker
Spec == Init /\ [][Next]_vars
\* The thread runs, its commands are bounded, and the check loop is timed.
FairSpec == Spec /\ WF_vars(Worker)

-----------------------------------------------------------------------------

\* README: capture xruns and no-data faults share a recovery budget; muted,
\* unknown, absent or recreated observations cannot refill it.  Between two
\* unbroken healthy intervals of one generation a name is not disturbed more
\* often than the budget says, whatever came between.
BoundedRemedies == wear.capture.spent <= MaxAttempts /\ wear.sink.spent <= MaxAttempts

\* A card without its profile and a suspended output are owed until they are
\* back, under their own identity and through failed commands, and a worker that
\* ends owes nothing.  One card is excepted: the one plugged in between the last
\* resolution and the command.  The command goes by name and reaches it
\* (recovery.rs:356), against "Never switch a replaced target" (recovery.rs:348),
\* while the debt names the card that is gone and is never repaid.
NothingLeftOff ==
    /\ card.off => pending.kind = "card" /\ (pending.id = card.id \/ card.late)
    /\ card.held => pending.kind = "sink" /\ (pending.id = node \/ card.late)
    /\ worker.at = "done" => pending = Clear

\* What was disturbed comes back, while the identity that is owed is there.
Disturbed == card.off \/ card.held
Gone == IF pending.kind = "card" THEN card.id # pending.id ELSE node # pending.id
Repaid == Disturbed ~> ~Disturbed \/ Gone
=============================================================================
