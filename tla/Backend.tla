------------------------------ MODULE Backend -------------------------------
(* The native backend of the controller (controller/native.rs): the leases   *)
(* it holds, the workers it starts when setup is done, and the drain that a  *)
(* shutdown repeats until nothing is owed.  The meters and their children    *)
(* are modelled in detail; of the other workers, whether their thread runs,  *)
(* panicked or was joined, and of the mixer whether its graph is cleaned up. *)
EXTENDS Meters

CONSTANTS
    Bindings,   \* key -> node or none: the targets the rows may ask for
    Plans       \* bounds: how often each of Budgeted may happen in a behaviour

Budgeted == {"target", "panic", "spawn", "child", "cleanup", "crash"}
ASSUME BackendAssumption ==
    Bindings \subseteq [Keys -> Nodes \cup {"none"}] /\ Plans \subseteq [Budgeted -> Nat]

VARIABLES
    alive,      \* the process
    leases,     \* what it holds
    thread,     \* worker -> its thread
    mixer,      \* its graph
    active,     \* the workers of audio and devices exist
    drain,      \* the attempt to stop, and what the ones before left
    stopping, stopped,
    left        \* what may still happen

backendVars == <<alive, leases, thread, mixer, active, drain, stopping, stopped, left>>
vars == <<backendVars, meterVars>>

Outer == {"calibration", "devices"}
Workers == {"host", "health"} \cup Outer
Idle == [at |-> "idle", issue |-> FALSE, outer |-> "none"]

Init ==
    /\ MetersInit
    /\ alive = TRUE /\ leases = {"installation"}
    /\ thread = [w \in Workers |-> IF w = "host" THEN "up" ELSE "off"]
    /\ mixer = "off" /\ active = FALSE
    /\ drain = Idle /\ stopping = FALSE /\ stopped = FALSE
    /\ left \in Plans

Owner == alive /\ UNCHANGED <<alive, left>>
Spend(what) == left[what] > 0 /\ left' = [left EXCEPT ![what] = @ - 1]

-----------------------------------------------------------------------------
(* Activation and commands *)

\* ActiveWorkers::start: one that fails stops those before it, which own
\* nothing yet.
Starts == /\ mixer' = "running"
          /\ thread' = [w \in Workers |-> IF w = "host" THEN thread[w] ELSE "up"]
\* The vendor lease precedes every worker.
Activate ==
    /\ Owner /\ ~stopping /\ ~active
    /\ leases' = leases \cup {"vendor"}
    /\ active' = TRUE /\ Starts
    /\ UNCHANGED <<drain, stopping, stopped, meterVars>>

Retarget(new) ==
    /\ alive /\ UNCHANGED alive /\ Spend("target") /\ ~stopping /\ active
    /\ SetTargets(new)
    /\ UNCHANGED <<leases, thread, mixer, active, drain, stopping, stopped>>

-----------------------------------------------------------------------------
(* The drain *)

Quiet == UNCHANGED <<leases, active, stopping, stopped>>
Join(ws) == thread' = [w \in Workers |-> IF w \in ws /\ thread[w] = "up" THEN "joined"
                                         ELSE IF w \in ws /\ thread[w] = "panicked" THEN "failed"
                                         ELSE thread[w]]
\* Errors of a join are told by every attempt that follows.
Failed(ws) == \E w \in ws : thread'[w] = "failed"
Goes(at, issue) == drain' = [drain EXCEPT !.at = at, !.issue = @ \/ issue]

Shutdown ==
    /\ Owner /\ ~stopped /\ drain.at = "idle"
    /\ stopping' = TRUE
    /\ drain' = [drain EXCEPT !.at = "host", !.issue = FALSE]
    /\ UNCHANGED <<leases, thread, mixer, active, stopped, meterVars>>
StopHost ==
    /\ Owner /\ drain.at = "host"
    /\ Join({"host"})
    /\ Goes(IF active THEN "health" ELSE "end", Failed({"host"}))
    /\ Quiet /\ UNCHANGED <<mixer, meterVars>>
StopHealth ==
    /\ Owner /\ drain.at = "health"
    /\ Join({"health"})
    /\ Goes("outer", Failed({"health"}))
    /\ Quiet /\ UNCHANGED <<mixer, meterVars>>
\* These joins are consumed once, and their outcome is kept for the retries.
OuterIssue == IF drain.outer = "none" THEN Failed(Outer) ELSE drain.outer = "issue"
StopOuter ==
    /\ Owner /\ drain.at = "outer"
    /\ IF drain.outer = "none" THEN Join(Outer) ELSE UNCHANGED thread
    /\ drain' = [at |-> "meters", issue |-> drain.issue \/ OuterIssue,
                 outer |-> IF OuterIssue THEN "issue" ELSE "clean"]
    /\ Quiet /\ UNCHANGED <<mixer, meterVars>>
StopMeters ==
    /\ Owner /\ drain.at = "meters"
    /\ CancelMeters
    /\ Goes("wait", FALSE)
    /\ Quiet /\ UNCHANGED <<thread, mixer>>
\* The readers have a bounded time; the graph is left alone until they are done.
AfterWait_Regardless == Goes("mixer", ~MetersJoined \/ MetersFailed)
AfterWait == IF MetersJoined /\ ~MetersFailed THEN Goes("mixer", FALSE) ELSE Goes("end", TRUE)
WaitMeters ==
    /\ Owner /\ drain.at = "wait"
    /\ AfterWait
    /\ Quiet /\ UNCHANGED <<thread, mixer, meterVars>>
CleansUp == mixer' = "clean" /\ Goes("end", FALSE)
StopMixer ==
    /\ Owner /\ drain.at = "mixer"
    /\ CleansUp
    /\ Quiet /\ UNCHANGED <<thread, meterVars>>
CleanupFails ==
    /\ alive /\ UNCHANGED alive /\ Spend("cleanup") /\ drain.at = "mixer" /\ mixer # "clean"
    /\ mixer' = "dirty" /\ Goes("end", TRUE)
    /\ Quiet /\ UNCHANGED <<thread, meterVars>>
\* An attempt with an issue releases nothing.
Releasable == ~drain.issue
EndDrain ==
    /\ Owner /\ drain.at = "end"
    /\ IF Releasable THEN leases' = {} /\ stopped' = TRUE /\ active' = FALSE
                     ELSE UNCHANGED <<leases, stopped, active>>
    /\ Goes("idle", FALSE)
    /\ UNCHANGED <<thread, mixer, stopping, meterVars>>

Drain == StopHost \/ StopHealth \/ StopOuter \/ StopMeters \/ WaitMeters \/ StopMixer \/ EndDrain

-----------------------------------------------------------------------------
(* Threads, children and the death of the process *)

MetersStep == Owner /\ active /\ Coordinator /\ UNCHANGED backendVars
ReaderStep(t) == Owner /\ Reader(t) /\ UNCHANGED backendVars
SpawnError(t) == /\ alive /\ Spend("spawn") /\ SpawnFails(t)
                 /\ UNCHANGED <<alive, leases, thread, mixer, active, drain, stopping, stopped>>
Panic(w) == /\ alive /\ Spend("panic") /\ thread[w] = "up"
            /\ thread' = [thread EXCEPT ![w] = "panicked"]
            /\ UNCHANGED <<alive, leases, mixer, active, drain, stopping, stopped, meterVars>>
Crash == /\ alive /\ alive' = FALSE /\ leases' = {} /\ Spend("crash")
         /\ Proc!OwnerDies
         /\ UNCHANGED <<thread, mixer, active, drain, stopping, stopped,
                        bank, next, taps, flows, meters, workers, reader, handle>>

ChildStarts(t) == /\ Proc!Protect(t, alive)
                  /\ UNCHANGED <<backendVars, coordination, meters, workers, reader, handle>>
ChildLeaves(t) == /\ Proc!Released(t)
                  /\ UNCHANGED <<backendVars, coordination, meters, workers, reader, handle>>
ChildFails(t) == /\ Spend("child") /\ (Proc!Dies(t) \/ Proc!Sticks(t))
                 /\ UNCHANGED <<alive, leases, thread, mixer, active, drain, stopping, stopped,
                                coordination, meters, workers, reader, handle>>

Next ==
    \/ Activate \/ (\E new \in Bindings : Retarget(new))
    \/ Shutdown \/ StopHost \/ StopHealth \/ StopOuter \/ StopMeters \/ WaitMeters
    \/ StopMixer \/ CleanupFails \/ EndDrain
    \/ MetersStep \/ \E t \in Tokens : ReaderStep(t) \/ SpawnError(t)
    \/ (\E w \in Workers : Panic(w)) \/ Crash
    \/ \E t \in Tokens : ChildStarts(t) \/ ChildLeaves(t) \/ ChildFails(t)

\* Threads run, a kernel wait ends, and a shutdown that failed is asked for again.
Fairness ==
    /\ WF_vars(Drain) /\ WF_vars(stopping /\ Shutdown)
    /\ WF_vars(MetersStep)
    /\ \A t \in Tokens : WF_vars(ReaderStep(t)) /\ WF_vars(ChildStarts(t)) /\ WF_vars(ChildLeaves(t))
FairSpec == Init /\ [][Next]_vars /\ Fairness

-----------------------------------------------------------------------------

Children == {t \in Tokens : Proc!Runs(t)}

\* A row is recorded by one child at a time, however often its target changes
\* and however long the child before takes to die (stop_worker joins the
\* reader, which terminates its child, before another is started).
OneReader == \A s, t \in Children : s # t => reader[s].key # reader[t].key

\* Capture readiness, which the mixer opens a raw input by, comes from the
\* reader of the target in force and ends with it (CaptureTap, meter_reader).
ReadyIsCurrent == \A t \in flows : reader[t].at = "reading" /\ IsWanted(t)

\* Nothing the process owns outlives its leases: when it lets a removal take
\* the exclusive lease, every thread is joined, the graph is clean and every
\* child is gone; and the graph is not cleaned up under a child that reads it.
OwnedUnderLease ==
    /\ alive /\ "installation" \notin leases =>
          /\ Children = {} /\ mixer \in {"off", "clean"}
          /\ \A w \in Workers : thread[w] \in {"off", "joined"}
    /\ drain.at = "mixer" \/ mixer \in {"dirty", "clean"} => Children = {} \/ ~alive

\* A drain that is asked for again ends, unless the failure of a thread is
\* kept against it; and of a process that died no child remains.
KeptFailure == MetersFailed \/ \E w \in Workers : thread[w] = "failed"
DrainEnds == /\ stopping ~> stopped \/ KeptFailure \/ ~alive
             /\ ~alive ~> Children = {}
=============================================================================
