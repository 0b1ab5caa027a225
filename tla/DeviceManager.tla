--------------------------- MODULE DeviceManager ---------------------------
(***************************************************************************)
(* The serialized USB owners of crates/openwave-runtime/src/device.rs: one *)
(* discovery thread, one worker thread and one job queue per connected     *)
(* unit, and the callers of DeviceManager::submit, rescan and stop.        *)
(*                                                                         *)
(* A unit is a USB location (profile, bus, address) together with an       *)
(* incarnation number drawn from one global counter.  A unit is named here *)
(* by its incarnation; `location` remembers where it was found.            *)
(*                                                                         *)
(* The lock of the registry is held by one thread at a time: a step below  *)
(* is one critical section, or one blocking operation done without it.     *)
(* Discovery keeps the registry locked over its whole spawning loop, which *)
(* is the control point "spawn".                                           *)
(***************************************************************************)
EXTENDS Naturals, Sequences

CONSTANTS
    Locations,   \* USB locations that can hold a supported device
    Jobs,        \* job identifiers the controller may submit
    NoLocation,  \* location of a number that was never given out
    MaxInc       \* last incarnation number before the counter is exhausted

ASSUME DeviceAssumption == MaxInc \in Nat /\ Jobs \subseteq Nat /\ NoLocation \notin Locations

Unit == 1 .. MaxInc

VARIABLES
    stopped,     \* Registry.stopped
    registry,    \* keys of Registry.units
    ready,       \* QueueState.ready, per unit
    retiring,    \* QueueState.retiring, per unit
    unplugged,   \* QueueState.unplugged, per unit
    jobs,        \* QueueState.jobs, per unit: oldest first
    nextInc,     \* INCARNATION, the global counter
    location,    \* location of every unit discovery numbered
    worker,      \* control point of the unit's thread
    inflight,    \* the job the unit's thread took: <<>> or <<job>>
    failures,    \* consecutive failed polls of the unit's thread
    timedOut,    \* UsbTransport.timed_out, later the thread's result
    discovery,   \* control point of the discovery thread
    found,       \* result of the scan being processed
    todo,        \* locations of that scan not yet looked at
    workers,     \* units whose JoinHandle discovery holds
    suppressed,  \* locations discovery will not reopen
    scanDue,     \* a rescan was requested: next_scan = now
    mailbox,     \* ManagerCommand channel
    stopper,     \* control point of the thread inside DeviceManager::stop
    used,        \* jobs already submitted
    admitted,    \* per unit, jobs accepted by submit, in order
    answered,    \* per unit, jobs whose Completed event was sent, in order
    results,     \* per unit, the results of those events
    stage,       \* per unit, the last lifecycle event that was sent
    wedged       \* locations lost to a timeout and not seen absent since

queueVars     == <<ready, retiring, unplugged, jobs>>
unitVars      == <<worker, inflight, failures, timedOut>>
discoveryVars == <<discovery, found, todo, workers, suppressed, scanDue>>
numberVars    == <<nextInc, location>>
historyVars   == <<admitted, answered, results, stage, wedged>>
eventVars     == <<answered, results, stage>>
\* What the thread of a unit never touches.
outsideVars   == <<stopped, registry, discoveryVars, numberVars, mailbox,
                   stopper, used, admitted>>

vars == <<stopped, registry, queueVars, unitVars, discoveryVars, numberVars,
          mailbox, stopper, used, historyVars>>

WorkerPoints ==
    {"unborn", "start", "open", "probe", "admit", "loop",
     "apply", "poll", "retire", "drain", "done"}

\* The points between a successful factory.open and the drop of the handle.
HoldsHandle(u) ==
    worker[u] \in {"probe", "admit", "loop", "apply", "poll"}

DiscoveryPoints ==
    {"top", "scan", "commit", "spawn", "receive", "shutdown", "join", "done"}

\* Discovery holds the registry lock over its spawning loop.
RegistryFree == discovery # "spawn"

Init ==
    /\ stopped = FALSE
    /\ registry = {}
    /\ ready = [u \in Unit |-> FALSE]
    /\ retiring = [u \in Unit |-> FALSE]
    /\ unplugged = [u \in Unit |-> FALSE]
    /\ jobs = [u \in Unit |-> <<>>]
    /\ nextInc = 1
    /\ location = [u \in Unit |-> NoLocation]
    /\ worker = [u \in Unit |-> "unborn"]
    /\ inflight = [u \in Unit |-> <<>>]
    /\ failures = [u \in Unit |-> 0]
    /\ timedOut = [u \in Unit |-> FALSE]
    /\ discovery = "top"
    /\ found = {}
    /\ todo = {}
    /\ workers = {}
    /\ suppressed = {}
    /\ scanDue = FALSE
    /\ mailbox = <<>>
    /\ stopper = "idle"
    /\ used = {}
    /\ admitted = [u \in Unit |-> <<>>]
    /\ answered = [u \in Unit |-> <<>>]
    /\ results = [u \in Unit |-> <<>>]
    /\ stage = [u \in Unit |-> "silent"]
    /\ wedged = {}

-----------------------------------------------------------------------------
(* Callers: submit, rescan, stop.                                          *)

\* Queue::retire on every unit of a set.
RetireAll(S) ==
    /\ ready' = [u \in Unit |-> ready[u] /\ u \notin S]
    /\ retiring' = [u \in Unit |-> retiring[u] \/ u \in S]

\* The checks of submit, made under the registry lock and the queue lock.
Accepts(u) == ~stopped /\ u \in registry /\ ready[u] /\ ~retiring[u]

\* submit: the caller names the unit it captured, however stale; jobs carry the
\* numbers next_job gave them in turn, and a refused number is not used again.
Submit(j, u) ==
    /\ j \notin used /\ \A i \in Jobs \ used : j <= i
    /\ RegistryFree
    /\ used' = used \cup {j}
    /\ IF Accepts(u)
       THEN /\ jobs' = [jobs EXCEPT ![u] = Append(@, j)]
            /\ admitted' = [admitted EXCEPT ![u] = Append(@, j)]
       ELSE UNCHANGED <<jobs, admitted>>
    /\ UNCHANGED <<stopped, registry, ready, retiring, unplugged, unitVars,
                   discoveryVars, numberVars, mailbox, stopper, answered,
                   results, stage, wedged>>

\* rescan: bounded to one waiting request.
Rescan ==
    /\ RegistryFree
    /\ ~stopped
    /\ mailbox = <<>>
    /\ mailbox' = Append(mailbox, "rescan")
    /\ UNCHANGED <<stopped, registry, queueVars, unitVars, discoveryVars,
                   numberVars, stopper, used, historyVars>>

\* stop, first half: the flag and the queues, under the registry lock.
StopFlag ==
    /\ stopper = "idle"
    /\ RegistryFree
    /\ stopped' = TRUE
    /\ RetireAll(registry)
    /\ stopper' = "send"
    /\ UNCHANGED <<registry, unplugged, jobs, unitVars, discoveryVars,
                   numberVars, mailbox, used, historyVars>>

\* stop, second half: the message; a failed send is ignored.
StopSend ==
    /\ stopper = "send"
    /\ stopper' = "joining"
    /\ mailbox' = IF discovery = "done" THEN mailbox ELSE Append(mailbox, "stop")
    /\ UNCHANGED <<stopped, registry, queueVars, unitVars, discoveryVars,
                   numberVars, used, historyVars>>

\* stop returns when the discovery thread has been joined.
StopReturn ==
    /\ stopper = "joining"
    /\ discovery = "done"
    /\ stopper' = "returned"
    /\ UNCHANGED <<stopped, registry, queueVars, unitVars, discoveryVars,
                   numberVars, mailbox, used, historyVars>>

-----------------------------------------------------------------------------
(* The thread of one unit: unit_worker.                                    *)

\* The handle is closed; what it last knew of timeouts is the thread's result.
\* A timeout on a unit that no scan has missed wedges its location.
Close(u, timeout) ==
    /\ worker' = [worker EXCEPT ![u] = "retire"]
    /\ timedOut' = [timedOut EXCEPT ![u] = timeout]
    /\ failures' = [failures EXCEPT ![u] = 0]
    /\ wedged' = IF timeout /\ ~unplugged[u]
                 THEN wedged \cup {location[u]} ELSE wedged

Goto(u, point) ==
    /\ worker' = [worker EXCEPT ![u] = point]
    /\ UNCHANGED <<timedOut, failures, wedged>>

\* A transfer came back: the loop goes on with what it says of timeouts.
Continue(u, timeout, n) ==
    /\ worker' = [worker EXCEPT ![u] = "loop"]
    /\ timedOut' = [timedOut EXCEPT ![u] = timeout]
    /\ failures' = [failures EXCEPT ![u] = n]
    /\ UNCHANGED wedged

Start(u) ==
    /\ worker[u] = "start"
    /\ Goto(u, IF retiring[u] THEN "retire" ELSE "open")
    /\ UNCHANGED <<queueVars, inflight, outsideVars, eventVars>>

\* factory.open: no handle exists when it fails, hence no timeout to report.
Open(u) ==
    /\ worker[u] = "open"
    /\ \E point \in {"probe", "retire"} : Goto(u, point)
    /\ UNCHANGED <<queueVars, inflight, outsideVars, eventVars>>

\* device.info and the first device.poll, before any job is accepted.
Probe(u) ==
    /\ worker[u] = "probe"
    /\ \/ Goto(u, "admit")
       \/ \E timeout \in BOOLEAN : Close(u, timeout)
    /\ UNCHANGED <<queueVars, inflight, outsideVars, eventVars>>

\* The queue becomes ready unless retirement came first; Connected is sent.
Admit(u) ==
    /\ worker[u] = "admit"
    /\ IF retiring[u]
       THEN Close(u, timedOut[u]) /\ UNCHANGED <<ready, stage>>
       ELSE /\ Goto(u, "loop")
            /\ ready' = [ready EXCEPT ![u] = TRUE]
            /\ stage' = [stage EXCEPT ![u] = "connected"]
    /\ UNCHANGED <<retiring, unplugged, jobs, inflight, outsideVars, answered,
                   results>>

\* The loop's critical section has three ways out: leave when retiring, poll
\* when the poll is due, take the oldest job otherwise.  The timer is not
\* modelled: a poll may be due at any time.
MayLeave_WhenIdle(u) == retiring[u] /\ jobs[u] = <<>>

MayLeave(u) == retiring[u]

Leave(u) ==
    /\ worker[u] = "loop"
    /\ MayLeave(u)
    /\ Close(u, timedOut[u])
    /\ UNCHANGED <<queueVars, inflight, outsideVars, eventVars>>

BeginPoll(u) ==
    /\ worker[u] = "loop"
    /\ ~retiring[u]
    /\ Goto(u, "poll")
    /\ UNCHANGED <<queueVars, inflight, outsideVars, eventVars>>

NextJob_Newest(u) == jobs[u][Len(jobs[u])]

NextJob(u) == Head(jobs[u])

TakeJob(u) ==
    /\ worker[u] = "loop"
    /\ ~retiring[u]
    /\ jobs[u] # <<>>
    /\ inflight' = [inflight EXCEPT ![u] = <<NextJob(u)>>]
    /\ jobs' = [jobs EXCEPT ![u] = Tail(@)]
    /\ Goto(u, "apply")
    /\ UNCHANGED <<ready, retiring, unplugged, outsideVars, eventVars>>

\* A failed job ends the unit: its Completed event has been sent.
AfterFailedJob(u, timeout) == Close(u, timeout)

\* device.apply on the job taken, and its Completed event.  A job that fails
\* before its transfer leaves what was known of timeouts.
Apply(u) ==
    /\ worker[u] = "apply"
    /\ answered' = [answered EXCEPT ![u] = @ \o inflight[u]]
    /\ inflight' = [inflight EXCEPT ![u] = <<>>]
    /\ \/ /\ results' = [results EXCEPT ![u] = Append(@, "ok")]
          /\ Continue(u, FALSE, failures[u])
       \/ /\ results' = [results EXCEPT ![u] = Append(@, "failed")]
          /\ \E timeout \in BOOLEAN : AfterFailedJob(u, timeout)
    /\ UNCHANGED <<queueVars, outsideVars, stage>>

FailureLimit == 3

\* device.poll: the third failure in a row ends the unit.  A panic inside
\* the transfer ends it too, with the result still false.
Poll(u) ==
    /\ worker[u] = "poll"
    /\ \/ Continue(u, FALSE, 0)
       \/ \E timeout \in BOOLEAN :
             IF failures[u] + 1 >= FailureLimit
             THEN Close(u, timeout)
             ELSE Continue(u, timeout, failures[u] + 1)
       \/ Close(u, FALSE)
    /\ UNCHANGED <<queueVars, inflight, outsideVars, eventVars>>

QueueRetired(u) == RetireAll({u})

Retire(u) ==
    /\ worker[u] = "retire"
    /\ QueueRetired(u)
    /\ Goto(u, "drain")
    /\ UNCHANGED <<unplugged, jobs, inflight, outsideVars, eventVars>>

Cancelled_NotReported(u) == <<>>

\* The jobs answered as cancelled: all that are left in the queue.
Cancelled(u) == jobs[u]

\* The queue is emptied, its jobs cancelled in order, and Retired is sent as
\* the thread's last act.
Drain(u) ==
    /\ worker[u] = "drain"
    /\ jobs' = [jobs EXCEPT ![u] = <<>>]
    /\ answered' = [answered EXCEPT ![u] = @ \o Cancelled(u)]
    /\ results' = [results EXCEPT
                     ![u] = @ \o [k \in DOMAIN Cancelled(u) |-> "cancelled"]]
    /\ stage' = [stage EXCEPT ![u] = "retired"]
    /\ Goto(u, "done")
    /\ UNCHANGED <<ready, retiring, unplugged, inflight, outsideVars>>

-----------------------------------------------------------------------------
(* The discovery thread: discovery.                                        *)

Finished == {u \in workers : worker[u] = "done"}

SuppressedBy_Never(S) == {}

\* A unit that stopped answering suppresses its location, unless it was seen
\* unplugged.
SuppressedBy(S) == {location[u] : u \in {v \in S : timedOut[v] /\ ~unplugged[v]}}

\* Top of the loop: finished threads are joined and leave the registry, then
\* the stop flag and the scan timer, not modelled, are read.
Reap ==
    /\ discovery = "top"
    /\ workers' = workers \ Finished
    /\ registry' = registry \ Finished
    /\ suppressed' = suppressed \cup SuppressedBy(Finished)
    /\ \/ stopped /\ discovery' = "shutdown"
       \/ ~stopped /\ discovery' = "scan"
       \/ ~stopped /\ ~scanDue /\ discovery' = "receive"
    /\ timedOut' = [u \in Unit |-> timedOut[u] /\ u \notin Finished]
    /\ UNCHANGED <<stopped, queueVars, worker, inflight, failures, found, todo,
                   scanDue, numberVars, mailbox, stopper, used, historyVars>>

\* factory.scan, without any lock.  A failed scan is reported, not believed.
Scan ==
    /\ discovery = "scan"
    /\ \/ /\ found' \in SUBSET Locations
          /\ discovery' = "commit"
          /\ UNCHANGED scanDue
       \/ /\ discovery' = "receive"
          /\ scanDue' = FALSE
          /\ UNCHANGED found
    /\ UNCHANGED <<stopped, registry, queueVars, unitVars, todo, workers,
                   suppressed, numberVars, mailbox, stopper, used, historyVars>>

\* The scan's result under the registry lock: locations no longer present
\* lose their suppression and their units retire.
Commit ==
    LET gone == {u \in registry : location[u] \notin found} IN
    /\ discovery = "commit"
    /\ suppressed' = suppressed \cap found
    /\ wedged' = wedged \cap found
    /\ unplugged' = [u \in Unit |-> unplugged[u] \/ u \in gone]
    /\ RetireAll(gone)
    /\ todo' = IF stopped THEN {} ELSE found
    /\ found' = {}
    /\ discovery' = "spawn"
    /\ UNCHANGED <<stopped, registry, jobs, unitVars, workers, scanDue,
                   numberVars, mailbox, stopper, used, admitted, answered,
                   results, stage>>

Unowned_ByRetiring(l) == ~\E u \in registry : location[u] = l /\ ~retiring[u]

\* No unit of this location is registered, whatever its state.
Unowned(l) == ~\E u \in registry : location[u] = l

Skip(l) ==
    /\ discovery = "spawn"
    /\ l \in todo
    /\ l \in suppressed \/ ~Unowned(l)
    /\ todo' = todo \ {l}
    /\ UNCHANGED <<stopped, registry, queueVars, unitVars, discovery, found,
                   workers, suppressed, scanDue, numberVars, mailbox, stopper,
                   used, historyVars>>

\* A new unit: its number is consumed even when the thread cannot be spawned.
\* Locations are taken in any order; the code takes them by bus and address.
Spawn(l) ==
    /\ discovery = "spawn"
    /\ l \in todo
    /\ l \notin suppressed
    /\ Unowned(l)
    /\ nextInc <= MaxInc
    /\ nextInc' = nextInc + 1
    /\ location' = [location EXCEPT ![nextInc] = l]
    /\ todo' = todo \ {l}
    /\ \/ /\ registry' = registry \cup {nextInc}
          /\ workers' = workers \cup {nextInc}
          /\ worker' = [worker EXCEPT ![nextInc] = "start"]
       \/ UNCHANGED <<registry, workers, worker>>
    /\ UNCHANGED <<stopped, queueVars, inflight, failures, timedOut,
                   discovery, found, suppressed, scanDue, mailbox, stopper,
                   used, historyVars>>

\* The counter is exhausted: the manager stops accepting work and scanning.
Exhaust(l) ==
    /\ discovery = "spawn"
    /\ l \in todo
    /\ l \notin suppressed
    /\ Unowned(l)
    /\ nextInc > MaxInc
    /\ stopped' = TRUE
    /\ todo' = {}
    /\ UNCHANGED <<registry, queueVars, unitVars, discovery, found, workers,
                   suppressed, scanDue, numberVars, mailbox, stopper, used,
                   historyVars>>

EndScan ==
    /\ discovery = "spawn"
    /\ todo = {}
    /\ discovery' = "receive"
    /\ scanDue' = FALSE
    /\ UNCHANGED <<stopped, registry, queueVars, unitVars, found, todo,
                   workers, suppressed, numberVars, mailbox, stopper, used,
                   historyVars>>

\* recv_timeout: a message, or 25 ms without one.
Receive ==
    /\ discovery = "receive"
    /\ IF mailbox = <<>>
       THEN /\ discovery' = "top"
            /\ UNCHANGED <<mailbox, scanDue>>
       ELSE /\ mailbox' = Tail(mailbox)
            /\ IF Head(mailbox) = "stop"
               THEN discovery' = "shutdown" /\ UNCHANGED scanDue
               ELSE discovery' = "top" /\ scanDue' = TRUE
    /\ UNCHANGED <<stopped, registry, queueVars, unitVars, found, todo,
                   workers, suppressed, numberVars, stopper, used, historyVars>>

Shutdown ==
    /\ discovery = "shutdown"
    /\ stopped' = TRUE
    /\ RetireAll(registry)
    /\ discovery' = "join"
    /\ UNCHANGED <<registry, unplugged, jobs, unitVars, found, todo, workers,
                   suppressed, scanDue, numberVars, mailbox, stopper, used,
                   historyVars>>

AllJoined == workers = Finished

\* Every thread is joined before the registry is cleared and the thread ends.
Join ==
    /\ discovery = "join"
    /\ AllJoined
    /\ workers' = {}
    /\ registry' = {}
    /\ discovery' = "done"
    /\ UNCHANGED <<stopped, queueVars, unitVars, found, todo, suppressed,
                   scanDue, numberVars, mailbox, stopper, used, historyVars>>

-----------------------------------------------------------------------------

Caller ==
    \/ \E j \in Jobs, u \in Unit : u < nextInc /\ Submit(j, u)
    \/ Rescan \/ StopFlag \/ StopSend \/ StopReturn

UnitThread(u) ==
    \/ Start(u) \/ Open(u) \/ Probe(u) \/ Admit(u)
    \/ Leave(u) \/ BeginPoll(u) \/ TakeJob(u) \/ Apply(u) \/ Poll(u)
    \/ Retire(u) \/ Drain(u)

DiscoveryThread ==
    \/ Reap \/ Scan \/ Commit \/ EndScan \/ Receive \/ Shutdown \/ Join
    \/ \E l \in Locations : Skip(l) \/ Spawn(l) \/ Exhaust(l)

Next ==
    \/ Caller
    \/ \E u \in Unit : UnitThread(u)
    \/ DiscoveryThread

Spec == Init /\ [][Next]_vars

\* What the threads' steps do to where they are: no other action does it.
Runs(u) ==
    /\ worker[u] \notin {"unborn", "done"}
    /\ worker[u] = "loop" => MayLeave(u) \/ ~retiring[u]
    /\ \E p \in WorkerPoints \ {worker[u]} : worker' = [worker EXCEPT ![u] = p]
Takes(u) ==
    /\ worker[u] = "loop" /\ ~retiring[u] /\ jobs[u] # <<>>
    /\ worker' = [worker EXCEPT ![u] = "apply"]
Discovers ==
    /\ discovery # "done" /\ (discovery = "join" => AllJoined)
    /\ discovery' \in DiscoveryPoints /\ todo' \in SUBSET Locations
Stops ==
    \/ stopper = "send" /\ stopper' = "joining"
    \/ stopper = "joining" /\ discovery = "done" /\ stopper' = "returned"

\* Every transfer ends (TRANSFER_TIMEOUT, COMMAND_TIMEOUT), so both kinds of
\* thread keep running.  A poll moves the next one 100 ms away and the loop
\* is re-entered at once, so a queued job is reached again and again: strong
\* fairness of taking it.
Fairness ==
    /\ \A u \in Unit : WF_worker(Runs(u)) /\ SF_worker(Takes(u))
    /\ WF_<<discovery, todo>>(Discovers)
    /\ WF_stopper(Stops)

FairSpec == Spec /\ Fairness

-----------------------------------------------------------------------------
(* Properties.                                                             *)

TypeOK ==
    /\ stopped \in BOOLEAN
    /\ registry \subseteq Unit
    /\ ready \in [Unit -> BOOLEAN]
    /\ retiring \in [Unit -> BOOLEAN]
    /\ unplugged \in [Unit -> BOOLEAN]
    /\ jobs \in [Unit -> Seq(Jobs)]
    /\ nextInc \in 1 .. MaxInc + 1
    /\ location \in [Unit -> Locations \cup {NoLocation}]
    /\ worker \in [Unit -> WorkerPoints]
    /\ inflight \in [Unit -> Seq(Jobs)]
    /\ failures \in [Unit -> 0 .. 2]
    /\ timedOut \in [Unit -> BOOLEAN]
    /\ discovery \in DiscoveryPoints
    /\ found \subseteq Locations
    /\ todo \subseteq Locations
    /\ workers \subseteq Unit
    /\ suppressed \subseteq Locations \cup {NoLocation}
    /\ scanDue \in BOOLEAN
    /\ mailbox \in Seq({"rescan", "stop"})
    /\ stopper \in {"idle", "send", "joining", "returned"}
    /\ used \subseteq Jobs
    /\ admitted \in [Unit -> Seq(Jobs)]
    /\ answered \in [Unit -> Seq(Jobs)]
    /\ results \in [Unit -> Seq({"ok", "failed", "cancelled"})]
    /\ stage \in [Unit -> {"silent", "connected", "retired"}]
    /\ wedged \subseteq Locations \cup {NoLocation}

\* Two threads never hold a handle on the same USB location, whatever the
\* order of unplugs, rescans and slow retirements: the read-modify-write of a
\* unit's config has one owner (unit_worker and the spawning loop).
SingleOwner ==
    \A u, v \in Unit :
        u # v /\ HoldsHandle(u) /\ HoldsHandle(v) => location[u] # location[v]

\* Nothing admitted is lost, doubled or overtaken: what submit accepted for a
\* unit is what was answered, then the job in hand, then the queue.
AccountedFor ==
    \A u \in Unit : admitted[u] = answered[u] \o inflight[u] \o jobs[u]

\* By the time a unit announces its retirement every job accepted for it has
\* been answered, however late submit raced with the end of its thread.
RetiredAnsweredAll ==
    \A u \in Unit : stage[u] = "retired" => answered[u] = admitted[u]

\* A job is not written over a state another job left unknown: after the
\* first failure of a unit only cancellations follow.
NoWriteAfterFailure ==
    \A u \in Unit : \A m, n \in DOMAIN results[u] :
        m < n /\ results[u][m] # "ok" => results[u][n] = "cancelled"

\* A location that stopped answering is not given a new owner until a scan
\* has seen it absent (the suppressed set, against reaping and rescans).
WedgedNotReopened ==
    [][\A u \in Unit : worker[u] = "unborn" /\ worker'[u] = "start"
                          => location'[u] \notin wedged]_vars

\* stop returns only when no thread runs, no handle is open and no unit is
\* registered: the leases may then be released (NativeBackend::shutdown).
StoppedOwnsNothing ==
    stopper = "returned" =>
        registry = {} /\ \A u \in Unit : worker[u] \in {"unborn", "done"}

\* Whatever the threads were doing, stop returns: no queue keeps its thread
\* and no thread keeps discovery waiting.
StopReturns == stopper # "idle" ~> stopper = "returned"

\* Every accepted job is answered in the end, by a result or a cancellation:
\* due polls do not starve it and retirement does not drop it.
JobsAnswered ==
    \A u \in Unit : []<>(answered[u] = admitted[u])
=============================================================================
