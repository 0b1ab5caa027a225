-------------------------------- MODULE Pins --------------------------------
(* The capture pin of the daemon (audio.rs): a loop that looks at the graph, *)
(* keeps one recording child on a Wave input so that it stays awake, and     *)
(* recycles the child when no bytes or only zeros come.  What was tried      *)
(* against silence is remembered for the name of the input, over children    *)
(* and replugs.  One input; times are ages in ticks, cut off at their limit. *)
EXTENDS Naturals

CONSTANTS
    Children,   \* recording children
    Startup, Wedge, Silence, Recheck,   \* limits, in ticks
    MaxNode,    \* bound: times the input appears
    MaxFaults   \* bound: failed spawns, children that end or hang

ASSUME PinsAssumption ==
    {Startup, Wedge, Silence, Recheck} \subseteq Nat \ {0} /\ {MaxNode, MaxFaults} \subseteq Nat

VARIABLES
    node,       \* identity of the input, or 0
    last,       \* the last identity given
    audio,      \* the loop
    pin,        \* what it knows of the input
    watch,      \* PinWatch, also while the input is away
    reader,     \* the thread of the pin, or at = none
    samples,    \* what the thread saw, shared with the loop
    child, handle,
    quiet,      \* history: silence restarts since the input was heard
    faults

Proc == INSTANCE Processes
vars == <<node, last, audio, pin, watch, reader, samples, child, handle, quiet, faults>>
worldVars == <<node, last, faults>>
childVars == <<child, handle>>

Never(limit) == limit + 1
NewWatch == [started |-> 0, data |-> 0, silence |-> 0, received |-> FALSE, spent |-> FALSE]
NoSamples == [data |-> Never(Wedge), signal |-> Never(Silence), exited |-> FALSE]
NoReader == [at |-> "none", cancel |-> FALSE, child |-> 0]
NoPin == [id |-> 0, muted |-> "unknown", checked |-> 0]

Init ==
    /\ node = 1 /\ last = 1
    /\ audio = [at |-> "look", id |-> 0, muted |-> "unknown", cancel |-> FALSE, error |-> FALSE]
    /\ pin = NoPin /\ watch = NewWatch
    /\ reader = NoReader /\ samples = NoSamples
    /\ Proc!ProcessesInit
    /\ quiet = 0 /\ faults = 0

Go(at) == audio' = [audio EXCEPT !.at = at]
Fault == faults < MaxFaults /\ faults' = faults + 1

-----------------------------------------------------------------------------
(* PinWatch *)

Restarted(w) == [w EXCEPT !.started = 0, !.data = 0, !.silence = 0, !.received = FALSE]

\* Pin::observe: bytes, and the last that were not all zero.
AtMost(a, b) == IF a <= b THEN a ELSE b
Heard(w) == [w EXCEPT !.data = IF samples.data > Wedge THEN @ ELSE AtMost(@, samples.data),
                      !.received = @ \/ samples.data <= Wedge,
                      !.silence = IF samples.signal > Silence THEN @ ELSE samples.signal,
                      !.spent = @ /\ samples.signal > Silence]
Seen(w) == IF reader.at = "none" THEN w ELSE Heard(w)
Consumed == samples' = [samples EXCEPT !.signal = Never(Silence)]
Alive == reader.at # "none" /\ ~samples.exited

\* PinWatch::step
Wedged(w) == w.data = Wedge
Starting(w) == w.started < Startup
Silent(w) == ~Starting(w) /\ ~Wedged(w) /\ w.received /\ pin.muted = "no" /\ w.silence = Silence
NeedsRestart(w) ==
    /\ pin.muted # "unknown"
    /\ ~Alive \/ (~Starting(w) /\ Wedged(w)) \/ (Silent(w) /\ ~w.spent)
Stepped(w) ==
    [w EXCEPT !.silence = IF pin.muted = "unknown" \/ (Alive /\ ~Starting(w) /\ ~Wedged(w) /\ w.received /\ pin.muted = "yes")
                          THEN 0 ELSE @,
              !.spent = @ \/ (Alive /\ Silent(w))]

-----------------------------------------------------------------------------
(* audio_loop *)

\* Pin::start, when its reader was joined.
Starts(w) == /\ watch' = Restarted(w)
             /\ samples' = NoSamples
             /\ reader' = [NoReader EXCEPT !.at = "start"]
Cancels == reader' = [reader EXCEPT !.cancel = TRUE]
Joined_AtOnce == TRUE
Joined == reader.at \in {"none", "ended", "failed"}

\* A graph that is not known changes no pin.
LookFails ==
    /\ audio.at = "look" /\ ~audio.cancel
    /\ Go("wait")
    /\ watch' = IF pin.id = 0 THEN watch ELSE [Seen(watch) EXCEPT !.silence = 0]
    /\ Consumed
    /\ UNCHANGED <<worldVars, pin, reader, childVars, quiet>>
Look ==
    /\ audio.at = "look"
    /\ IF audio.cancel THEN Go("end")
       ELSE \E m \in {"yes", "no", "unknown"} :
              audio' = [audio EXCEPT !.at = IF pin.id \notin {0, node} THEN "retire" ELSE "adopt",
                                     !.id = node, !.muted = m]
    /\ UNCHANGED <<worldVars, pin, watch, reader, samples, childVars, quiet>>
Retire ==
    /\ audio.at = "retire"
    /\ watch' = Seen(watch) /\ Consumed /\ Cancels
    /\ Go("retiring")
    /\ UNCHANGED <<worldVars, pin, childVars, quiet>>
\* The watch of an input that went away waits for its name.
Dormant_Anew(w) == NewWatch
Dormant(w) == w
Retired ==
    /\ audio.at = "retiring" /\ Joined
    /\ audio' = [audio EXCEPT !.at = "adopt", !.error = @ \/ reader.at = "failed"]
    /\ pin' = NoPin /\ reader' = NoReader /\ watch' = Dormant(watch)
    /\ UNCHANGED <<worldVars, samples, childVars, quiet>>
Adopt ==
    /\ audio.at = "adopt"
    /\ IF audio.cancel \/ audio.id = 0
       THEN UNCHANGED <<pin, watch, reader, samples>>
       ELSE IF pin.id = 0
       THEN pin' = [id |-> audio.id, muted |-> audio.muted, checked |-> 0] /\ Starts(watch)
       ELSE /\ pin' = IF pin.checked = Recheck THEN [pin EXCEPT !.muted = audio.muted, !.checked = 0] ELSE pin
            /\ UNCHANGED <<watch, reader, samples>>
    /\ Go(IF pin'.id = 0 THEN "wait" ELSE "step")
    /\ UNCHANGED <<worldVars, childVars, quiet>>
Step ==
    /\ audio.at = "step"
    /\ LET w == Seen(watch)
       IN  IF NeedsRestart(w)
           THEN /\ Go("restarting")
                /\ watch' = Stepped(w) /\ Consumed
                /\ IF reader.at = "none" THEN UNCHANGED reader ELSE Cancels
                /\ quiet' = IF Alive /\ Silent(w) THEN quiet + 1 ELSE quiet
           ELSE /\ Go("wait")
                /\ watch' = Stepped(w) /\ Consumed
                /\ UNCHANGED <<reader, quiet>>
    /\ UNCHANGED <<worldVars, pin, childVars>>
\* The error of the reader before aborts this start, and the next one has none.
Restart ==
    /\ audio.at = "restarting" /\ Joined
    /\ Go("wait")
    /\ IF reader.at = "failed"
       THEN reader' = NoReader /\ UNCHANGED <<watch, samples>>
       ELSE Starts(watch)
    /\ UNCHANGED <<worldVars, pin, childVars, quiet>>
Wake ==
    /\ audio.at = "wait" /\ (audio.cancel \/ watch.started > 0 \/ pin.id = 0)
    /\ Go("look")
    /\ UNCHANGED <<worldVars, pin, watch, reader, samples, childVars, quiet>>
Ends ==
    /\ audio.at = "end"
    /\ IF reader.at = "none" THEN UNCHANGED reader ELSE Cancels
    /\ Go("ending")
    /\ UNCHANGED <<worldVars, pin, watch, samples, childVars, quiet>>
Ended ==
    /\ audio.at = "ending" /\ Joined
    /\ audio' = [audio EXCEPT !.at = "done", !.error = @ \/ reader.at = "failed"]
    /\ reader' = NoReader /\ pin' = NoPin
    /\ UNCHANGED <<worldVars, watch, samples, childVars, quiet>>

Loop == LookFails \/ Look \/ Retire \/ Retired \/ Adopt \/ Step \/ Restart \/ Wake \/ Ends \/ Ended

-----------------------------------------------------------------------------
(* drain_pin *)

Exits(at) == /\ reader' = [reader EXCEPT !.at = at]
             /\ samples' = [samples EXCEPT !.exited = TRUE]
Spawns ==
    /\ reader.at = "start"
    /\ IF reader.cancel THEN Exits("ended") /\ UNCHANGED childVars
       ELSE \E c \in Children :
              /\ child[c] \in {"none", "dead"} /\ handle[c] \in {"none", "reaped"}
              /\ Proc!Spawn(c)
              /\ reader' = [reader EXCEPT !.at = "reading", !.child = c]
              /\ UNCHANGED samples
    /\ UNCHANGED <<worldVars, audio, pin, watch, quiet>>
SpawnFails ==
    /\ reader.at = "start" /\ ~reader.cancel /\ Fault
    /\ Exits("failed")
    /\ UNCHANGED <<node, last, audio, pin, watch, childVars, quiet>>
Reads(signal) ==
    /\ reader.at = "reading" /\ ~reader.cancel /\ child[reader.child] = "live" /\ node = pin.id
    /\ samples' = [samples EXCEPT !.data = 0, !.signal = IF signal THEN 0 ELSE @]
    /\ quiet' = IF signal THEN 0 ELSE quiet
    /\ UNCHANGED <<worldVars, audio, pin, watch, reader, childVars>>
\* Its child has one bounded attempt to end; the error of that is the thread's.
Stops ==
    /\ reader.at = "reading" /\ (reader.cancel \/ child[reader.child] = "dead")
    /\ Proc!Terminate(reader.child)
    /\ Exits(IF Proc!Terminated(reader.child) THEN "ended" ELSE "failed")
    /\ UNCHANGED <<worldVars, audio, pin, watch, quiet>>
Reader == Spawns \/ SpawnFails \/ (\E signal \in BOOLEAN : Reads(signal)) \/ Stops

-----------------------------------------------------------------------------
(* The world *)

Replug ==
    /\ \/ node # 0 /\ node' = 0 /\ UNCHANGED last
       \/ node = 0 /\ last < MaxNode /\ node' = last + 1 /\ last' = last + 1
    /\ UNCHANGED <<faults, audio, pin, watch, reader, samples, childVars, quiet>>
Stop ==
    /\ ~audio.cancel /\ audio' = [audio EXCEPT !.cancel = TRUE]
    /\ UNCHANGED <<worldVars, pin, watch, reader, samples, childVars, quiet>>
\* The loop looks again within a tick; only a join takes longer.
Older(a, limit) == IF a < limit THEN a + 1 ELSE a
Tick ==
    /\ audio.at = "wait" \/ (audio.at \in {"retiring", "restarting"} /\ ~Joined)
    /\ watch' = [watch EXCEPT !.started = Older(@, Startup), !.data = Older(@, Wedge), !.silence = Older(@, Silence)]
    /\ samples' = [samples EXCEPT !.data = Older(@, Wedge), !.signal = Older(@, Silence)]
    /\ pin' = [pin EXCEPT !.checked = IF pin.id = 0 THEN 0 ELSE Older(@, Recheck)]
    /\ UNCHANGED <<worldVars, audio, reader, childVars, quiet>>
ChildStarts == /\ \E c \in Children : Proc!Protect(c, TRUE)
               /\ UNCHANGED <<worldVars, audio, pin, watch, reader, samples, handle, quiet>>
ChildFails == /\ Fault /\ \E c \in Children : Proc!Dies(c) \/ Proc!Sticks(c)
              /\ UNCHANGED <<node, last, audio, pin, watch, reader, samples, handle, quiet>>
ChildLeaves == /\ \E c \in Children : Proc!Released(c)
               /\ UNCHANGED <<worldVars, audio, pin, watch, reader, samples, handle, quiet>>

Next == Loop \/ Reader \/ Replug \/ Stop \/ Tick \/ ChildStarts \/ ChildFails \/ ChildLeaves
Spec == Init /\ [][Next]_vars

-----------------------------------------------------------------------------
\* One child at a time records the input, apart from one that did not
\* acknowledge its end and waits in the kernel (Pin::start joins the reader
\* before); and none is left when the daemon has stopped, apart from those.
Recording == {c \in Children : child[c] \in {"born", "live"}}
OnePin == /\ \A b, c \in Recording : b = c
          /\ audio.at = "done" => Recording = {}

\* Silence is answered by one restart until the input is heard, whatever
\* happens to the child, the mute or the input itself (the allowance belongs to
\* the name, PinWatch).
SilenceOnce == quiet <= 1
=============================================================================
