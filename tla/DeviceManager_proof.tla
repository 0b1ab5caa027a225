------------------------ MODULE DeviceManager_proof ------------------------
(***************************************************************************)
(* The USB owners for any number of locations, jobs and incarnations: one  *)
(* owner per location, no accepted job lost, and a stop that leaves no     *)
(* thread behind.                                                          *)
(***************************************************************************)
EXTENDS DeviceManager, SequenceTheorems, TLAPS

\* The registry and the join handles of discovery name the same units.
SameUnits == registry = workers

\* A thread that runs belongs to a registered unit.
ThreadsRegistered ==
    \A u \in Unit : worker[u] \notin {"unborn", "done"} => u \in workers

\* Numbers not given out yet name nothing.
FreshUnborn ==
    \A u \in Unit : u >= nextInc => worker[u] = "unborn" /\ u \notin workers

\* Two registered units are at different locations.
Apart ==
    \A u, v \in registry : u # v => location[u] # location[v]

\* The core of the ownership argument.
Ownership == SameUnits /\ ThreadsRegistered /\ FreshUnborn /\ Apart

\* Only a thread inside a job holds one.
InHand == \A u \in Unit : inflight[u] # <<>> => worker[u] = "apply"

\* A thread that drains its queue, or drained it, has closed it before.
ClosedBeforeDrain ==
    \A u \in Unit :
        /\ worker[u] \in {"drain", "done"} => retiring[u]
        /\ worker[u] = "done" => jobs[u] = <<>>
        /\ stage[u] = "retired" => worker[u] = "done"

\* What answers for every job.
Bookkeeping == InHand /\ ClosedBeforeDrain /\ AccountedFor

\* Discovery leaves its last point only with an empty registry.
DoneIsEmpty ==
    /\ discovery = "done" => workers = {}
    /\ stopper = "returned" => discovery = "done"

-----------------------------------------------------------------------------
(* Type correctness.                                                       *)

\* Cancelling a queue yields one result per job of it.
LEMMA CancelledType ==
    ASSUME NEW s \in Seq(Jobs), NEW r \in Seq({"ok", "failed", "cancelled"})
    PROVE  r \o [k \in DOMAIN s |-> "cancelled"] \in Seq({"ok", "failed", "cancelled"})
<1> DEFINE R == {"ok", "failed", "cancelled"}
<1> DEFINE c == [k \in DOMAIN s |-> "cancelled"]
<1>1. Len(s) \in Nat /\ DOMAIN s = 1 .. Len(s)
  BY LenProperties
<1>2. c \in [1 .. Len(s) -> R]
  BY <1>1
<1>3. c \in Seq(R)
  BY <1>1, <1>2, SeqDef
<1> QED
  BY <1>3, ConcatProperties

\* The types of what a thread's moves change.
MoveType ==
    /\ worker \in [Unit -> WorkerPoints]
    /\ timedOut \in [Unit -> BOOLEAN]
    /\ failures \in [Unit -> 0 .. 2]
    /\ wedged \subseteq Locations \cup {NoLocation}

\* Closing a handle, moving on and going round the loop keep the types.
LEMMA MovesKeepType ==
    ASSUME TypeOK, NEW u \in Unit
    PROVE  /\ \A timeout \in BOOLEAN : Close(u, timeout) => MoveType'
           /\ \A point \in WorkerPoints : Goto(u, point) => MoveType'
           /\ \A timeout \in BOOLEAN, n \in 0 .. 2 :
                 Continue(u, timeout, n) => MoveType'
<1> USE DEF TypeOK, MoveType, WorkerPoints
<1>1. ASSUME NEW timeout \in BOOLEAN, Close(u, timeout) PROVE MoveType'
  BY <1>1 DEF Close
<1>2. ASSUME NEW point \in WorkerPoints, Goto(u, point) PROVE MoveType'
  BY <1>2 DEF Goto
<1>3. ASSUME NEW timeout \in BOOLEAN, NEW n \in 0 .. 2, Continue(u, timeout, n)
      PROVE  MoveType'
  BY <1>3 DEF Continue
<1> QED
  BY <1>1, <1>2, <1>3

\* The initial state has the right types.
LEMMA TypeInit == Init => TypeOK
<1> SUFFICES ASSUME Init PROVE TypeOK
  OBVIOUS
<1>1. nextInc \in 1 .. MaxInc + 1
  BY DeviceAssumption DEF Init
<1>2. /\ jobs \in [Unit -> Seq(Jobs)]
      /\ inflight \in [Unit -> Seq(Jobs)]
      /\ admitted \in [Unit -> Seq(Jobs)]
      /\ answered \in [Unit -> Seq(Jobs)]
      /\ results \in [Unit -> Seq({"ok", "failed", "cancelled"})]
      /\ mailbox \in Seq({"rescan", "stop"})
  BY EmptySeq DEF Init
<1>3. /\ worker \in [Unit -> WorkerPoints]
      /\ stage \in [Unit -> {"silent", "connected", "retired"}]
      /\ location \in [Unit -> Locations \cup {NoLocation}]
      /\ failures \in [Unit -> 0 .. 2]
      /\ discovery \in DiscoveryPoints
  BY DEF Init, WorkerPoints, DiscoveryPoints
<1> QED
  BY <1>1, <1>2, <1>3 DEF Init, TypeOK

\* Steps of the callers keep the types.
LEMMA TypeCaller == TypeOK /\ Caller => TypeOK'
<1> SUFFICES ASSUME TypeOK, Caller PROVE TypeOK'
  OBVIOUS
<1> USE DEF TypeOK, queueVars, unitVars, discoveryVars, numberVars, historyVars
<1>1. ASSUME NEW j \in Jobs, NEW u \in Unit, Submit(j, u) PROVE TypeOK'
  <2>1. /\ Append(jobs[u], j) \in Seq(Jobs)
        /\ Append(admitted[u], j) \in Seq(Jobs)
    BY AppendProperties
  <2>2. jobs' \in [Unit -> Seq(Jobs)] /\ admitted' \in [Unit -> Seq(Jobs)]
    <3>1. CASE Accepts(u)
      <4>1. /\ jobs' = [jobs EXCEPT ![u] = Append(jobs[u], j)]
            /\ admitted' = [admitted EXCEPT ![u] = Append(admitted[u], j)]
        BY <1>1, <3>1 DEF Submit
      <4> QED
        BY <2>1, <4>1
    <3>2. CASE ~Accepts(u)
      BY <1>1, <3>2 DEF Submit
    <3> QED
      BY <3>1, <3>2
  <2> QED
    BY <1>1, <2>2 DEF Submit
<1>2. CASE Rescan
  BY <1>2 DEF Rescan
<1>3. CASE StopFlag
  BY <1>3 DEF StopFlag, RetireAll
<1>4. CASE StopSend
  BY <1>4 DEF StopSend
<1>5. CASE StopReturn
  BY <1>5 DEF StopReturn
<1> QED
  BY <1>1, <1>2, <1>3, <1>4, <1>5 DEF Caller

\* What a unit's thread does not touch keeps its type.
LEMMA TypeOutside ==
    ASSUME TypeOK, UNCHANGED outsideVars, UNCHANGED unplugged, MoveType',
           (/\ ready \in [Unit -> BOOLEAN] /\ retiring \in [Unit -> BOOLEAN]
            /\ jobs \in [Unit -> Seq(Jobs)] /\ inflight \in [Unit -> Seq(Jobs)]
            /\ answered \in [Unit -> Seq(Jobs)]
            /\ results \in [Unit -> Seq({"ok", "failed", "cancelled"})]
            /\ stage \in [Unit -> {"silent", "connected", "retired"}])'
    PROVE  TypeOK'
  BY DEF TypeOK, MoveType, outsideVars, discoveryVars, numberVars

\* Steps of a unit's thread keep the types.
LEMMA TypeUnitThread ==
    ASSUME TypeOK, NEW u \in Unit, UnitThread(u)
    PROVE  TypeOK'
<1> DEFINE Results == {"ok", "failed", "cancelled"}
<1> USE DEF queueVars, eventVars
<1>m. {"open", "retire", "probe", "admit", "loop", "poll", "apply", "drain", "done"}
        \subseteq WorkerPoints
  BY DEF WorkerPoints
<1>t. /\ timedOut[u] \in BOOLEAN
      /\ failures[u] \in 0 .. 2
      /\ jobs[u] \in Seq(Jobs) /\ inflight[u] \in Seq(Jobs)
      /\ answered[u] \in Seq(Jobs) /\ results[u] \in Seq(Results)
  BY DEF TypeOK
<1>1. CASE Start(u)
  <2>1. MoveType'
    BY <1>1, <1>m, MovesKeepType DEF Start
  <2> QED
    BY <1>1, <2>1, TypeOutside DEF Start, TypeOK
<1>2. CASE Open(u)
  <2>1. MoveType'
    BY <1>2, <1>m, MovesKeepType DEF Open
  <2> QED
    BY <1>2, <2>1, TypeOutside DEF Open, TypeOK
<1>3. CASE Probe(u)
  <2>1. MoveType'
    BY <1>3, <1>m, MovesKeepType DEF Probe
  <2> QED
    BY <1>3, <2>1, TypeOutside DEF Probe, TypeOK
<1>4. CASE Admit(u)
  <2>1. MoveType'
    BY <1>4, <1>m, <1>t, MovesKeepType DEF Admit
  <2>2. /\ ready' \in [Unit -> BOOLEAN]
        /\ stage' \in [Unit -> {"silent", "connected", "retired"}]
    BY <1>4 DEF Admit, TypeOK
  <2> QED
    BY <1>4, <2>1, <2>2, TypeOutside DEF Admit, TypeOK
<1>5. CASE Leave(u)
  <2>1. MoveType'
    BY <1>5, <1>t, MovesKeepType DEF Leave
  <2> QED
    BY <1>5, <2>1, TypeOutside DEF Leave, TypeOK
<1>6. CASE BeginPoll(u)
  <2>1. MoveType'
    BY <1>6, <1>m, MovesKeepType DEF BeginPoll
  <2> QED
    BY <1>6, <2>1, TypeOutside DEF BeginPoll, TypeOK
<1>7. CASE TakeJob(u)
  <2>1. MoveType'
    BY <1>7, <1>m, MovesKeepType DEF TakeJob
  <2>2. NextJob(u) \in Jobs /\ Tail(jobs[u]) \in Seq(Jobs)
    BY <1>7, <1>t, HeadTailProperties DEF TakeJob, NextJob
  <2>3. /\ jobs' \in [Unit -> Seq(Jobs)]
        /\ inflight' \in [Unit -> Seq(Jobs)]
    BY <1>7, <2>2 DEF TakeJob, TypeOK
  <2> QED
    BY <1>7, <2>1, <2>3, TypeOutside DEF TakeJob, TypeOK
<1>8. CASE Apply(u)
  <2>1. MoveType'
    BY <1>8, <1>t, MovesKeepType DEF Apply, AfterFailedJob
  <2>2. answered[u] \o inflight[u] \in Seq(Jobs)
    BY <1>t, ConcatProperties
  <2>3. /\ Append(results[u], "ok") \in Seq(Results)
        /\ Append(results[u], "failed") \in Seq(Results)
    BY <1>t, AppendProperties
  <2>4. results' \in [Unit -> Seq(Results)]
    BY <1>8, <2>3 DEF Apply, TypeOK
  <2>5. /\ answered' \in [Unit -> Seq(Jobs)]
        /\ inflight' \in [Unit -> Seq(Jobs)]
    BY <1>8, <2>2 DEF Apply, TypeOK
  <2> QED
    BY <1>8, <2>1, <2>4, <2>5, TypeOutside DEF Apply, TypeOK
<1>9. CASE Poll(u)
  <2>1. MoveType'
    <3>1. failures[u] + 1 >= 3 \/ failures[u] + 1 \in 0 .. 2
      BY <1>t
    <3>2. 0 \in 0 .. 2 /\ FALSE \in BOOLEAN
      OBVIOUS
    <3> QED
      BY <1>9, <3>1, <3>2, MovesKeepType DEF Poll, FailureLimit
  <2> QED
    BY <1>9, <2>1, TypeOutside DEF Poll, TypeOK
<1>10. CASE Retire(u)
  <2>1. MoveType'
    BY <1>10, <1>m, MovesKeepType DEF Retire
  <2>2. ready' \in [Unit -> BOOLEAN] /\ retiring' \in [Unit -> BOOLEAN]
    BY <1>10 DEF Retire, QueueRetired, RetireAll, TypeOK
  <2> QED
    BY <1>10, <2>1, <2>2, TypeOutside DEF Retire, TypeOK
<1>11. CASE Drain(u)
  <2>1. MoveType'
    BY <1>11, <1>m, MovesKeepType DEF Drain
  <2>2. results[u] \o [k \in DOMAIN jobs[u] |-> "cancelled"] \in Seq(Results)
    BY <1>t, CancelledType
  <2>3. answered[u] \o jobs[u] \in Seq(Jobs)
    BY <1>t, ConcatProperties
  <2>4. /\ results' \in [Unit -> Seq(Results)]
        /\ answered' \in [Unit -> Seq(Jobs)]
        /\ jobs' \in [Unit -> Seq(Jobs)]
        /\ stage' \in [Unit -> {"silent", "connected", "retired"}]
    BY <1>11, <2>2, <2>3 DEF Drain, Cancelled, TypeOK
  <2> QED
    BY <1>11, <2>1, <2>4, TypeOutside DEF Drain, TypeOK
<1> QED
  BY <1>1, <1>2, <1>3, <1>4, <1>5, <1>6, <1>7, <1>8, <1>9, <1>10, <1>11
  DEF UnitThread

\* Steps of discovery keep the types.
LEMMA TypeDiscovery == TypeOK /\ DiscoveryThread => TypeOK'
<1> SUFFICES ASSUME TypeOK, DiscoveryThread PROVE TypeOK'
  OBVIOUS
<1> USE DEF TypeOK, DiscoveryPoints, queueVars, unitVars, numberVars,
            historyVars, RetireAll
<1>1. CASE Reap
  BY <1>1 DEF Reap, SuppressedBy, Finished
<1>2. CASE Scan
  BY <1>2 DEF Scan
<1>3. CASE Commit
  BY <1>3 DEF Commit
<1>4. CASE EndScan
  BY <1>4 DEF EndScan
<1>5. CASE Receive
  <2>1. mailbox # <<>> => Tail(mailbox) \in Seq({"rescan", "stop"})
    BY HeadTailProperties
  <2>2. mailbox' \in Seq({"rescan", "stop"})
    BY <1>5, <2>1 DEF Receive
  <2>3. discovery' \in DiscoveryPoints /\ scanDue' \in BOOLEAN
    BY <1>5 DEF Receive
  <2> QED
    BY <1>5, <2>2, <2>3 DEF Receive
<1>6. CASE Shutdown
  BY <1>6 DEF Shutdown
<1>7. CASE Join
  BY <1>7 DEF Join
<1>8. ASSUME NEW l \in Locations, Skip(l) PROVE TypeOK'
  BY <1>8 DEF Skip
<1>9. ASSUME NEW l \in Locations, Spawn(l) PROVE TypeOK'
  <2>1. nextInc \in Unit /\ nextInc' \in 1 .. MaxInc + 1
    BY <1>9, DeviceAssumption DEF Spawn, Unit
  <2>2. /\ location' \in [Unit -> Locations \cup {NoLocation}]
        /\ worker' \in [Unit -> WorkerPoints]
        /\ registry' \subseteq Unit /\ workers' \subseteq Unit
    BY <1>9, <2>1 DEF Spawn, WorkerPoints
  <2> QED
    BY <1>9, <2>1, <2>2 DEF Spawn
<1>10. ASSUME NEW l \in Locations, Exhaust(l) PROVE TypeOK'
  BY <1>10 DEF Exhaust
<1> QED
  BY <1>1, <1>2, <1>3, <1>4, <1>5, <1>6, <1>7, <1>8, <1>9, <1>10
  DEF DiscoveryThread

\* Every step keeps the types.
LEMMA TypeStep == TypeOK /\ [Next]_vars => TypeOK'
<1>1. CASE UNCHANGED vars
  BY <1>1 DEF TypeOK, vars, queueVars, unitVars, discoveryVars, numberVars,
              historyVars
<1> QED
  BY <1>1, TypeCaller, TypeUnitThread, TypeDiscovery DEF Next

\* Every variable of the manager stays within its type.
THEOREM TypeCorrect == Spec => []TypeOK
  BY TypeInit, TypeStep, PTL DEF Spec

-----------------------------------------------------------------------------
(* Ownership.                                                              *)

\* A step of a unit's thread moves that thread only, and it was alive.
LEMMA MovesOneThread ==
    ASSUME NEW u \in Unit, UnitThread(u)
    PROVE  /\ worker[u] \notin {"unborn", "done"}
           /\ \E p : p # "unborn" /\ worker' = [worker EXCEPT ![u] = p]
           /\ UNCHANGED outsideVars
<1> USE DEF Close, Goto, Continue
<1>1. CASE Start(u)
  BY <1>1 DEF Start
<1>2. CASE Open(u)
  BY <1>2 DEF Open
<1>3. CASE Probe(u)
  BY <1>3 DEF Probe
<1>4. CASE Admit(u)
  BY <1>4 DEF Admit
<1>5. CASE Leave(u)
  BY <1>5 DEF Leave
<1>6. CASE BeginPoll(u)
  BY <1>6 DEF BeginPoll
<1>7. CASE TakeJob(u)
  BY <1>7 DEF TakeJob
<1>8. CASE Apply(u)
  BY <1>8 DEF Apply, AfterFailedJob
<1>9. CASE Poll(u)
  BY <1>9 DEF Poll
<1>10. CASE Retire(u)
  BY <1>10 DEF Retire
<1>11. CASE Drain(u)
  BY <1>11 DEF Drain
<1> QED
  BY <1>1, <1>2, <1>3, <1>4, <1>5, <1>6, <1>7, <1>8, <1>9, <1>10, <1>11
  DEF UnitThread

\* What a step that starts or joins no thread leaves alone.
OwnersAlone == UNCHANGED <<registry, workers, worker, nextInc, location>>

\* The callers touch neither threads nor registered units.
LEMMA CallersOwnNothing == Caller => OwnersAlone
<1> USE DEF OwnersAlone, queueVars, unitVars, discoveryVars, numberVars
<1>1. ASSUME NEW j \in Jobs, NEW u \in Unit, Submit(j, u) PROVE OwnersAlone
  BY <1>1 DEF Submit
<1> QED
  BY <1>1 DEF Caller, Rescan, StopFlag, StopSend, StopReturn

\* Every step keeps the ownership: a number is spawned once, on a location
\* that no registered unit has, and only ended threads are given up.
LEMMA OwnershipStep ==
    ASSUME TypeOK, Ownership, [Next]_vars
    PROVE  Ownership'
<1> USE DEF Ownership, SameUnits, ThreadsRegistered, FreshUnborn, Apart
<1>1. CASE OwnersAlone
  BY <1>1 DEF OwnersAlone
<1>2. ASSUME NEW u \in Unit, UnitThread(u) PROVE Ownership'
  <2>1. PICK p : p # "unborn" /\ worker' = [worker EXCEPT ![u] = p]
    BY <1>2, MovesOneThread
  <2>2. worker[u] \notin {"unborn", "done"} /\ u \in workers
    BY <1>2, MovesOneThread
  <2>3. UNCHANGED <<registry, workers, nextInc, location>>
    BY <1>2, MovesOneThread DEF outsideVars, discoveryVars, numberVars
  <2> QED
    BY <2>1, <2>2, <2>3 DEF TypeOK
<1>3. CASE Reap
  BY <1>3 DEF Reap, Finished, numberVars, TypeOK
<1>4. CASE Join
  BY <1>4 DEF Join, AllJoined, Finished, numberVars, unitVars, TypeOK
<1>5. ASSUME NEW l \in Locations, Spawn(l) PROVE Ownership'
  <2>1. nextInc \in Unit /\ nextInc' = nextInc + 1
    BY <1>5 DEF Spawn, Unit, TypeOK
  <2>2. \A u \in Unit : u \in Nat
    BY DeviceAssumption DEF Unit
  <2>3. nextInc \notin registry /\ worker[nextInc] = "unborn"
    BY <2>1, <2>2
  <2>4. location' = [location EXCEPT ![nextInc] = l]
    BY <1>5 DEF Spawn
  <2>5. \A u \in registry : location'[u] = location[u] /\ location[u] # l
    BY <1>5, <2>3, <2>4 DEF Spawn, Unowned, TypeOK
  <2>6. CASE UNCHANGED <<registry, workers, worker>>
    BY <2>1, <2>2, <2>5, <2>6
  <2>7. CASE /\ registry' = registry \cup {nextInc}
             /\ workers' = workers \cup {nextInc}
             /\ worker' = [worker EXCEPT ![nextInc] = "start"]
    <3>1. Apart'
      BY <2>1, <2>3, <2>4, <2>5, <2>7 DEF TypeOK
    <3>2. FreshUnborn'
      BY <2>1, <2>2, <2>7 DEF TypeOK
    <3>3. SameUnits' /\ ThreadsRegistered'
      BY <2>1, <2>7 DEF TypeOK
    <3> QED
      BY <3>1, <3>2, <3>3
  <2> QED
    BY <1>5, <2>6, <2>7 DEF Spawn
<1>6. CASE Scan \/ Commit \/ EndScan \/ Receive \/ Shutdown
  BY <1>6, <1>1 DEF Scan, Commit, EndScan, Receive, Shutdown, OwnersAlone,
                    unitVars, numberVars
<1>7. ASSUME NEW l \in Locations, Skip(l) \/ Exhaust(l) PROVE Ownership'
  BY <1>7, <1>1 DEF Skip, Exhaust, OwnersAlone, unitVars, numberVars
<1>8. CASE UNCHANGED vars
  BY <1>8, <1>1 DEF vars, OwnersAlone, unitVars, discoveryVars, numberVars
<1> QED
  BY <1>1, <1>2, <1>3, <1>4, <1>5, <1>6, <1>7, <1>8, CallersOwnNothing
  DEF Next, DiscoveryThread

\* Nobody owns anything at the start.
LEMMA OwnershipInit == Init => Ownership
  BY DEF Init, Ownership, SameUnits, ThreadsRegistered, FreshUnborn, Apart

\* A thread with a handle is registered, and registered units are apart.
LEMMA OwnershipSuffices == Ownership => SingleOwner
  BY DEF Ownership, SameUnits, ThreadsRegistered, Apart, SingleOwner, HoldsHandle

\* However unplugs, rescans, slow retirements and stops interleave, no two
\* threads ever hold a handle on one USB location.
THEOREM OneOwnerPerLocation == Spec => []SingleOwner
<1>1. Init => TypeOK /\ Ownership
  BY TypeInit, OwnershipInit
<1>2. TypeOK /\ Ownership /\ [Next]_vars => (TypeOK /\ Ownership)'
  BY TypeStep, OwnershipStep
<1> QED
  BY <1>1, <1>2, OwnershipSuffices, PTL DEF Spec

-----------------------------------------------------------------------------
(* The jobs.                                                               *)

\* A step of thread u that neither takes, answers nor cancels a job.
Quiet(u) ==
    /\ UNCHANGED <<admitted, answered, inflight, jobs, retiring>>
    /\ worker[u] \notin {"apply", "drain", "done"}
    /\ \E p : p \notin {"drain", "done"} /\ worker' = [worker EXCEPT ![u] = p]
    /\ \A v \in Unit : stage'[v] = "retired" => stage[v] = "retired"

\* All but four actions of a unit's thread are quiet.
LEMMA QuietActions ==
    ASSUME TypeOK, NEW u \in Unit,
           \/ Start(u) \/ Open(u) \/ Probe(u) \/ Admit(u)
           \/ Leave(u) \/ BeginPoll(u) \/ Poll(u)
    PROVE  Quiet(u)
<1> USE DEF Quiet, Close, Goto, Continue, queueVars, eventVars, outsideVars
<1>1. CASE Start(u)
  BY <1>1 DEF Start
<1>2. CASE Open(u)
  BY <1>2 DEF Open
<1>3. CASE Probe(u)
  BY <1>3 DEF Probe
<1>4. CASE Admit(u)
  BY <1>4 DEF Admit, TypeOK
<1>5. CASE Leave(u)
  BY <1>5 DEF Leave
<1>6. CASE BeginPoll(u)
  BY <1>6 DEF BeginPoll
<1>7. CASE Poll(u)
  BY <1>7 DEF Poll
<1> QED
  BY <1>1, <1>2, <1>3, <1>4, <1>5, <1>6, <1>7

\* What a step of discovery or of a caller other than submit does to the jobs:
\* it may start threads and close queues, and nothing else.
JobsAlone ==
    /\ UNCHANGED <<admitted, answered, inflight, jobs, stage>>
    /\ \A v \in Unit : retiring[v] => retiring'[v]
    /\ \A v \in Unit : \/ worker'[v] = worker[v]
                       \/ worker[v] = "unborn" /\ worker'[v] = "start"

\* Such steps keep the books.
LEMMA BooksAlone == Bookkeeping /\ JobsAlone => Bookkeeping'
  BY DEF Bookkeeping, JobsAlone, InHand, ClosedBeforeDrain, AccountedFor

\* Discovery never touches a job.
LEMMA DiscoveryLeavesJobs ==
    ASSUME TypeOK, Ownership, DiscoveryThread
    PROVE  JobsAlone
<1> USE DEF JobsAlone, RetireAll, queueVars, unitVars, historyVars, numberVars
<1>1. CASE Commit
  BY <1>1 DEF Commit, TypeOK
<1>2. CASE Shutdown
  BY <1>2 DEF Shutdown, TypeOK
<1>3. ASSUME NEW l \in Locations, Spawn(l) PROVE JobsAlone
  <2>1. nextInc \in Unit
    BY <1>3 DEF Spawn, Unit, TypeOK
  <2>2. worker[nextInc] = "unborn"
    BY <2>1, DeviceAssumption DEF Ownership, FreshUnborn, Unit
  <2> QED
    BY <1>3, <2>1, <2>2 DEF Spawn, TypeOK
<1>4. CASE Reap \/ Scan \/ EndScan \/ Receive \/ Join
  BY <1>4 DEF Reap, Scan, EndScan, Receive, Join
<1>5. ASSUME NEW l \in Locations, Skip(l) \/ Exhaust(l) PROVE JobsAlone
  BY <1>5 DEF Skip, Exhaust
<1> QED
  BY <1>1, <1>2, <1>3, <1>4, <1>5 DEF DiscoveryThread

\* Concatenation of job sequences is associative.
LEMMA JobsAssociative ==
    \A s, t, r \in Seq(Jobs) : (s \o t) \o r = s \o (t \o r)
<1> TAKE s, t, r \in Seq(Jobs)
<1>1. s \in Seq(Jobs) /\ t \in Seq(Jobs) /\ r \in Seq(Jobs)
  OBVIOUS
<1> QED
  BY <1>1, ConcatAssociative, SMT

\* A job accepted is queued behind the others of an open queue.
LEMMA SubmitKeepsBooks ==
    ASSUME TypeOK, Bookkeeping, NEW j \in Jobs, NEW u \in Unit, Submit(j, u)
    PROVE  Bookkeeping'
<1> USE DEF Bookkeeping, queueVars, unitVars
<1>1. CASE ~Accepts(u)
  BY <1>1, BooksAlone DEF Submit, JobsAlone
<1>2. CASE Accepts(u)
  <2>1. /\ UNCHANGED <<retiring, worker, inflight, answered, stage>>
        /\ jobs' = [jobs EXCEPT ![u] = Append(jobs[u], j)]
        /\ admitted' = [admitted EXCEPT ![u] = Append(admitted[u], j)]
    BY <1>2 DEF Submit
  <2>2. InHand'
    BY <2>1 DEF InHand
  <2>3. ClosedBeforeDrain'
    BY <1>2, <2>1 DEF ClosedBeforeDrain, Accepts, TypeOK
  <2>4. answered[u] \o inflight[u] \in Seq(Jobs)
    BY ConcatProperties DEF TypeOK
  <2>5. /\ Append(admitted[u], j) = admitted[u] \o <<j>>
        /\ Append(jobs[u], j) = jobs[u] \o <<j>>
        /\ <<j>> \in Seq(Jobs)
    BY AppendIsConcat DEF TypeOK
  <2>6. (answered[u] \o inflight[u]) \o (jobs[u] \o <<j>>)
          = ((answered[u] \o inflight[u]) \o jobs[u]) \o <<j>>
    BY <2>4, <2>5, JobsAssociative DEF TypeOK
  <2>7. Append(admitted[u], j) = (answered[u] \o inflight[u]) \o Append(jobs[u], j)
    BY <2>5, <2>6 DEF AccountedFor
  <2>8. AccountedFor'
    BY <2>1, <2>7 DEF AccountedFor, TypeOK
  <2> QED
    BY <2>2, <2>3, <2>8
<1> QED
  BY <1>1, <1>2

\* A unit's thread answers, takes and cancels its jobs in their order.
LEMMA UnitKeepsBooks ==
    ASSUME TypeOK, Bookkeeping, NEW u \in Unit, UnitThread(u)
    PROVE  Bookkeeping'
<1> USE DEF Bookkeeping, queueVars, eventVars, outsideVars, Goto
<1>t. /\ jobs[u] \in Seq(Jobs) /\ inflight[u] \in Seq(Jobs)
      /\ answered[u] \in Seq(Jobs) /\ u \in DOMAIN worker
  BY DEF TypeOK
<1>e. \A s \in Seq(Jobs) : s \o <<>> = s /\ <<>> \o s = s
  BY ConcatEmptySeq
<1>1. CASE Quiet(u)
  <2>a. /\ \A v \in Unit : v = u \/ worker'[v] = worker[v]
        /\ worker[u] \notin {"apply", "drain", "done"} /\ worker'[u] \notin {"drain", "done"}
        /\ UNCHANGED <<inflight, jobs, retiring>>
        /\ \A v \in Unit : stage'[v] = "retired" => stage[v] = "retired"
    BY <1>1 DEF Quiet, TypeOK
  <2>b. InHand'
    BY <2>a DEF InHand
  <2>c. ClosedBeforeDrain'
    <3> SUFFICES ASSUME NEW v \in Unit
                 PROVE  /\ worker'[v] \in {"drain", "done"} => retiring'[v]
                        /\ worker'[v] = "done" => jobs'[v] = <<>>
                        /\ stage'[v] = "retired" => worker'[v] = "done"
      BY DEF ClosedBeforeDrain
    <3>1. CASE v = u
      BY <2>a, <3>1 DEF ClosedBeforeDrain
    <3>2. CASE v # u
      BY <2>a, <3>2 DEF ClosedBeforeDrain
    <3> QED
      BY <3>1, <3>2
  <2>1. InHand' /\ ClosedBeforeDrain'
    BY <2>b, <2>c
  <2> QED
    BY <1>1, <2>1 DEF Quiet, AccountedFor
<1>2. CASE TakeJob(u)
  <2>1. inflight[u] = <<>>
    BY <1>2 DEF TakeJob, InHand
  <2>2. <<Head(jobs[u])>> \o Tail(jobs[u]) = jobs[u]
    BY <1>2, <1>t DEF TakeJob
  <2>3. /\ <<Head(jobs[u])>> \in Seq(Jobs) /\ Tail(jobs[u]) \in Seq(Jobs)
    BY <1>2, <1>t, HeadTailProperties DEF TakeJob
  <2>4. (answered[u] \o <<Head(jobs[u])>>) \o Tail(jobs[u])
          = answered[u] \o (<<Head(jobs[u])>> \o Tail(jobs[u]))
    <3> DEFINE first == <<Head(jobs[u])>>
               rest == Tail(jobs[u])
               done == answered[u]
    <3>1. first \in Seq(Jobs) /\ rest \in Seq(Jobs) /\ done \in Seq(Jobs)
      BY <2>3, <1>t
    <3> HIDE DEF first, rest, done
    <3>2. (done \o first) \o rest = done \o (first \o rest)
      BY <3>1, JobsAssociative
    <3> QED
      BY <3>2 DEF first, rest, done
  <2>5. (answered[u] \o inflight[u]) \o jobs[u] = answered[u] \o jobs[u]
    BY <2>1, <1>t, <1>e
  <2>6. AccountedFor'
    BY <1>2, <2>2, <2>4, <2>5 DEF TakeJob, NextJob, AccountedFor, TypeOK
  <2>7. InHand' /\ ClosedBeforeDrain'
    BY <1>2 DEF TakeJob, InHand, ClosedBeforeDrain, TypeOK
  <2> QED
    BY <2>6, <2>7
<1>3. CASE Apply(u)
  <2>1. PICK p : p \notin {"drain", "done"} /\ worker' = [worker EXCEPT ![u] = p]
    BY <1>3 DEF Apply, AfterFailedJob, Close, Continue
  <2>2. /\ UNCHANGED <<admitted, jobs, retiring, stage>>
        /\ answered' = [answered EXCEPT ![u] = answered[u] \o inflight[u]]
        /\ inflight' = [inflight EXCEPT ![u] = <<>>]
        /\ worker[u] = "apply"
    BY <1>3 DEF Apply
  <2>3. InHand' /\ ClosedBeforeDrain'
    BY <2>1, <2>2 DEF InHand, ClosedBeforeDrain, TypeOK
  <2>4. answered[u] \o inflight[u] \in Seq(Jobs)
    BY <1>t, ConcatProperties
  <2>5. (answered[u] \o inflight[u]) \o <<>> = answered[u] \o inflight[u]
    BY <2>4, <1>e
  <2>6. AccountedFor'
    BY <2>2, <2>5 DEF AccountedFor, TypeOK
  <2> QED
    BY <2>3, <2>6
<1>4. CASE Retire(u)
  <2>1. /\ UNCHANGED <<admitted, answered, inflight, jobs, stage>>
        /\ retiring' = [v \in Unit |-> retiring[v] \/ v \in {u}]
        /\ worker' = [worker EXCEPT ![u] = "drain"]
        /\ worker[u] = "retire"
    BY <1>4 DEF Retire, QueueRetired, RetireAll
  <2>2. InHand' /\ ClosedBeforeDrain'
    BY <2>1 DEF InHand, ClosedBeforeDrain, TypeOK
  <2> QED
    BY <2>1, <2>2 DEF AccountedFor
<1>5. CASE Drain(u)
  <2>1. /\ UNCHANGED <<admitted, inflight, retiring>>
        /\ jobs' = [jobs EXCEPT ![u] = <<>>]
        /\ answered' = [answered EXCEPT ![u] = answered[u] \o jobs[u]]
        /\ worker' = [worker EXCEPT ![u] = "done"]
        /\ stage' = [stage EXCEPT ![u] = "retired"]
        /\ worker[u] = "drain"
    BY <1>5 DEF Drain, Cancelled
  <2>2. inflight[u] = <<>> /\ retiring[u]
    BY <2>1 DEF InHand, ClosedBeforeDrain
  <2>3. InHand' /\ ClosedBeforeDrain'
    BY <2>1, <2>2 DEF InHand, ClosedBeforeDrain, TypeOK
  <2>4. answered[u] \o jobs[u] \in Seq(Jobs)
    BY <1>t, ConcatProperties
  <2>5. ((answered[u] \o jobs[u]) \o <<>>) \o <<>> = (answered[u] \o <<>>) \o jobs[u]
    BY <1>t, <2>4, <1>e
  <2>6. AccountedFor'
    BY <2>1, <2>2, <2>5 DEF AccountedFor, TypeOK
  <2> QED
    BY <2>3, <2>6
<1> QED
  BY <1>1, <1>2, <1>3, <1>4, <1>5, QuietActions DEF UnitThread

\* Every step keeps the books.
LEMMA BooksStep ==
    ASSUME TypeOK, Ownership, Bookkeeping, [Next]_vars
    PROVE  Bookkeeping'
<1>1. CASE Caller
  <2>1. CASE Rescan \/ StopFlag \/ StopSend \/ StopReturn
    <3>1. JobsAlone
      BY <2>1 DEF Rescan, StopFlag, StopSend, StopReturn, JobsAlone, RetireAll,
                  queueVars, unitVars, historyVars, TypeOK
    <3> QED
      BY <3>1, BooksAlone
  <2> QED
    BY <1>1, <2>1, SubmitKeepsBooks DEF Caller
<1>2. CASE UNCHANGED vars
  BY <1>2, BooksAlone DEF vars, JobsAlone, queueVars, unitVars, historyVars
<1> QED
  BY <1>1, <1>2, UnitKeepsBooks, DiscoveryLeavesJobs, BooksAlone DEF Next

\* The books are empty at the start.
LEMMA BooksInit == Init => Bookkeeping
<1>1. <<>> \o <<>> = <<>>
  BY ConcatEmptySeq, EmptySeq
<1> QED
  BY <1>1 DEF Init, Bookkeeping, InHand, ClosedBeforeDrain, AccountedFor

\* With the books in order, a retired unit owes nothing.
LEMMA BooksSuffice == TypeOK /\ Bookkeeping => RetiredAnsweredAll
<1> SUFFICES ASSUME TypeOK, Bookkeeping, NEW u \in Unit, stage[u] = "retired"
             PROVE  answered[u] = admitted[u]
  BY DEF RetiredAnsweredAll
<1>1. inflight[u] = <<>> /\ jobs[u] = <<>>
  BY DEF Bookkeeping, InHand, ClosedBeforeDrain
<1>2. answered[u] \o <<>> = answered[u]
  BY ConcatEmptySeq DEF TypeOK
<1> QED
  BY <1>1, <1>2 DEF Bookkeeping, AccountedFor

\* The inductive invariant of the jobs, over that of the ownership.
LEMMA BooksInvariant == Spec => [](TypeOK /\ Ownership /\ Bookkeeping)
<1>1. Init => TypeOK /\ Ownership /\ Bookkeeping
  BY TypeInit, OwnershipInit, BooksInit
<1>2. TypeOK /\ Ownership /\ Bookkeeping /\ [Next]_vars
        => (TypeOK /\ Ownership /\ Bookkeeping)'
  BY TypeStep, OwnershipStep, BooksStep
<1> QED
  BY <1>1, <1>2, PTL DEF Spec

\* Whatever submit raced with, the jobs it accepted are the jobs answered,
\* the job in hand and the jobs queued, in the order of their acceptance.
THEOREM NoJobLost == Spec => []AccountedFor
<1>1. Bookkeeping => AccountedFor
  BY DEF Bookkeeping
<1> QED
  BY <1>1, BooksInvariant, PTL

\* A unit announces its retirement only after its last job was answered.
THEOREM RetirementIsFinal == Spec => []RetiredAnsweredAll
  BY BooksInvariant, BooksSuffice, PTL

-----------------------------------------------------------------------------
(* The end.                                                                *)

\* Every step keeps the end empty: discovery gives up its handles only with
\* its last step, and stop waits for it.
LEMMA EndStep ==
    ASSUME TypeOK, DoneIsEmpty, [Next]_vars
    PROVE  DoneIsEmpty'
<1> USE DEF DoneIsEmpty
<1>1. ASSUME NEW j \in Jobs, NEW u \in Unit, Submit(j, u) PROVE DoneIsEmpty'
  BY <1>1 DEF Submit, discoveryVars
<1>2. CASE Rescan \/ StopFlag \/ StopSend \/ StopReturn
  BY <1>2 DEF Rescan, StopFlag, StopSend, StopReturn, discoveryVars
<1>3. ASSUME NEW u \in Unit, UnitThread(u) PROVE DoneIsEmpty'
  BY <1>3, MovesOneThread DEF outsideVars, discoveryVars
<1>4. CASE DiscoveryThread
  <2>1. CASE Join
    BY <2>1 DEF Join
  <2>2. CASE Reap \/ Scan \/ Commit \/ EndScan \/ Receive \/ Shutdown
    BY <2>2 DEF Reap, Scan, Commit, EndScan, Receive, Shutdown
  <2>3. ASSUME NEW l \in Locations, Skip(l) \/ Spawn(l) \/ Exhaust(l)
        PROVE  DoneIsEmpty'
    BY <2>3 DEF Skip, Spawn, Exhaust
  <2> QED
    BY <1>4, <2>1, <2>2, <2>3 DEF DiscoveryThread
<1>5. CASE UNCHANGED vars
  BY <1>5 DEF vars, discoveryVars
<1> QED
  BY <1>1, <1>2, <1>3, <1>4, <1>5 DEF Next, Caller

\* When stop has returned, no thread runs and no unit is registered.
THEOREM StopJoinsAll == Spec => []StoppedOwnsNothing
<1>1. Init => DoneIsEmpty
  BY DEF Init, DoneIsEmpty
<1>2. TypeOK /\ Ownership /\ DoneIsEmpty => StoppedOwnsNothing
  BY DEF Ownership, SameUnits, ThreadsRegistered, DoneIsEmpty,
         StoppedOwnsNothing
<1>3. TypeOK /\ DoneIsEmpty /\ [Next]_vars => DoneIsEmpty'
  BY EndStep
<1> QED
  BY <1>1, <1>2, <1>3, BooksInvariant, PTL DEF Spec

-----------------------------------------------------------------------------
(* Failures.                                                               *)

\* A unit of which a job did not succeed is on its way out.
FailedIsLeaving ==
    \A u \in Unit : worker[u] \notin {"retire", "drain", "done"} =>
        \A m \in DOMAIN results[u] : results[u][m] = "ok"

\* What else a step of thread u may do, apart from the end of a job: it goes
\* on, and what has begun to leave does not come back.
Leaving == {"retire", "drain", "done"}
ResultsAlone(u) ==
    /\ UNCHANGED results
    /\ \E p : worker' = [worker EXCEPT ![u] = p]
              /\ (worker[u] \in Leaving => p \in Leaving)

\* All actions of a unit's thread but Apply and Drain.
LEMMA ResultsOnlyOfJobs ==
    ASSUME NEW u \in Unit, UnitThread(u)
    PROVE  Apply(u) \/ Drain(u) \/ ResultsAlone(u)
<1> USE DEF ResultsAlone, Leaving, Close, Goto, Continue, eventVars
<1>1. CASE Start(u)
  BY <1>1 DEF Start
<1>2. CASE Open(u)
  BY <1>2 DEF Open
<1>3. CASE Probe(u)
  BY <1>3 DEF Probe
<1>4. CASE Admit(u)
  BY <1>4 DEF Admit
<1>5. CASE Leave(u)
  BY <1>5 DEF Leave
<1>6. CASE BeginPoll(u)
  BY <1>6 DEF BeginPoll
<1>7. CASE TakeJob(u)
  BY <1>7 DEF TakeJob
<1>8. CASE Poll(u)
  BY <1>8 DEF Poll
<1>9. CASE Retire(u)
  BY <1>9 DEF Retire
<1> QED
  BY <1>1, <1>2, <1>3, <1>4, <1>5, <1>6, <1>7, <1>8, <1>9 DEF UnitThread

\* One more result after results that are all fine.
LEMMA AppendResult ==
    ASSUME NEW r \in Seq({"ok", "failed", "cancelled"}), NEW x \in {"ok", "failed"},
           \A m \in DOMAIN r : r[m] = "ok"
    PROVE  /\ \A m, n \in DOMAIN Append(r, x) : m < n => Append(r, x)[m] = "ok"
           /\ x = "ok" => \A m \in DOMAIN Append(r, x) : Append(r, x)[m] = "ok"
<1>1. Len(r) \in Nat /\ DOMAIN r = 1 .. Len(r)
  BY LenProperties
<1>2. /\ Len(Append(r, x)) = Len(r) + 1
      /\ Append(r, x)[Len(r) + 1] = x
      /\ \A i \in 1 .. Len(r) : Append(r, x)[i] = r[i]
      /\ DOMAIN Append(r, x) = 1 .. Len(r) + 1
  BY AppendProperties
<1> QED
  BY <1>1, <1>2

\* Cancellations after results in which only cancellations follow a failure.
LEMMA AppendCancelled ==
    ASSUME NEW r \in Seq({"ok", "failed", "cancelled"}), NEW s \in Seq(Jobs),
           \A m, n \in DOMAIN r : m < n /\ r[m] # "ok" => r[n] = "cancelled",
           NEW q, q = r \o [k \in DOMAIN s |-> "cancelled"]
    PROVE  \A m, n \in DOMAIN q : m < n /\ q[m] # "ok" => q[n] = "cancelled"
<1> DEFINE R == {"ok", "failed", "cancelled"}
<1> DEFINE c == [k \in DOMAIN s |-> "cancelled"]
<1>1. /\ Len(r) \in Nat /\ DOMAIN r = 1 .. Len(r)
      /\ Len(s) \in Nat /\ DOMAIN s = 1 .. Len(s)
  BY LenProperties
<1>2. c \in Seq(R)
  <2>1. c \in [1 .. Len(s) -> R]
    BY <1>1
  <2> QED
    BY <1>1, <2>1, SeqDef
<1>3. Len(c) = Len(s)
  <2>1. DOMAIN c = 1 .. Len(s)
    BY <1>1
  <2> QED
    BY <1>1, <1>2, <2>1, LenProperties
<1> HIDE DEF c
<1>4. /\ Len(r \o c) = Len(r) + Len(c)
      /\ \A i \in 1 .. Len(r) + Len(c) :
            (r \o c)[i] = IF i <= Len(r) THEN r[i] ELSE c[i - Len(r)]
  BY <1>2, ConcatProperties
<1>5. \A k \in 1 .. Len(s) : c[k] = "cancelled"
  BY <1>1 DEF c
<1>6. q = r \o c
  BY DEF c
<1>7. DOMAIN q = 1 .. Len(r) + Len(s)
  <2>1. r \o c \in Seq(R)
    BY <1>2, ConcatProperties
  <2> QED
    BY <1>3, <1>4, <1>6, <2>1, LenProperties
<1>8. SUFFICES ASSUME NEW m \in DOMAIN q, NEW n \in DOMAIN q, m < n, q[m] # "ok"
               PROVE  q[n] = "cancelled"
  OBVIOUS
<1>9. CASE n > Len(r)
  <2>1. n - Len(r) \in 1 .. Len(s) /\ q[n] = c[n - Len(r)]
    BY <1>1, <1>3, <1>4, <1>6, <1>7, <1>8, <1>9
  <2> QED
    BY <2>1, <1>5
<1>10. CASE n <= Len(r)
  <2>1. /\ m \in DOMAIN r /\ n \in DOMAIN r
        /\ q[m] = r[m] /\ q[n] = r[n]
    BY <1>1, <1>3, <1>4, <1>6, <1>7, <1>8, <1>10
  <2> QED
    BY <2>1, <1>8
<1> QED
  BY <1>1, <1>7, <1>8, <1>9, <1>10

\* Every step keeps the failures at the end.
LEMMA FailureStep ==
    ASSUME TypeOK, Ownership, Bookkeeping, FailedIsLeaving, NoWriteAfterFailure,
           [Next]_vars
    PROVE  FailedIsLeaving' /\ NoWriteAfterFailure'
<1> USE DEF FailedIsLeaving, NoWriteAfterFailure
<1>1. CASE /\ UNCHANGED results
           /\ \A v \in Unit : \/ worker'[v] = worker[v]
                              \/ worker[v] = "unborn" /\ worker'[v] = "start"
  BY <1>1
<1>2. ASSUME NEW u \in Unit, UnitThread(u)
      PROVE  FailedIsLeaving' /\ NoWriteAfterFailure'
  <2>1. CASE ResultsAlone(u)
    <3>1. PICK p : /\ worker' = [worker EXCEPT ![u] = p]
                   /\ worker[u] \in Leaving => p \in Leaving
      BY <2>1 DEF ResultsAlone
    <3>2. UNCHANGED results
      BY <2>1 DEF ResultsAlone
    <3> QED
      BY <3>1, <3>2 DEF Leaving, TypeOK
  <2>2. CASE Apply(u)
    <3>1. \A m \in DOMAIN results[u] : results[u][m] = "ok"
      BY <2>2 DEF Apply
    <3>2. results[u] \in Seq({"ok", "failed", "cancelled"})
      BY DEF TypeOK
    <3>a. \/ /\ results' = [results EXCEPT ![u] = Append(results[u], "ok")]
             /\ worker' = [worker EXCEPT ![u] = "loop"]
          \/ /\ results' = [results EXCEPT ![u] = Append(results[u], "failed")]
             /\ worker' = [worker EXCEPT ![u] = "retire"]
      BY <2>2 DEF Apply, AfterFailedJob, Close, Continue
    <3>3. PICK p \in {"loop", "retire"}, x \in {"ok", "failed"} :
             /\ results' = [results EXCEPT ![u] = Append(results[u], x)]
             /\ worker' = [worker EXCEPT ![u] = p]
             /\ x = "failed" => p = "retire"
      BY <3>a
    <3>4. results'[u] = Append(results[u], x)
      BY <3>3 DEF TypeOK
    <3>5. /\ \A m, n \in DOMAIN results'[u] : m < n => results'[u][m] = "ok"
          /\ x = "ok" => \A m \in DOMAIN results'[u] : results'[u][m] = "ok"
      BY <3>1, <3>2, <3>4, AppendResult
    <3>6. NoWriteAfterFailure'
      BY <3>3, <3>5 DEF TypeOK
    <3>7. FailedIsLeaving'
      BY <3>3, <3>5 DEF TypeOK
    <3> QED
      BY <3>6, <3>7
  <2>3. CASE Drain(u)
    <3>1. /\ results' = [results EXCEPT ![u] =
                            results[u] \o [k \in DOMAIN jobs[u] |-> "cancelled"]]
          /\ worker' = [worker EXCEPT ![u] = "done"]
      BY <2>3 DEF Drain, Cancelled, Goto
    <3>2. results'[u] = results[u] \o [k \in DOMAIN jobs[u] |-> "cancelled"]
      BY <3>1 DEF TypeOK
    <3>3. results[u] \in Seq({"ok", "failed", "cancelled"}) /\ jobs[u] \in Seq(Jobs)
      BY DEF TypeOK
    <3>4. \A m, n \in DOMAIN results'[u] :
             m < n /\ results'[u][m] # "ok" => results'[u][n] = "cancelled"
      BY <3>2, <3>3, AppendCancelled
    <3>5. NoWriteAfterFailure'
      <4>1. \A v \in Unit \ {u} : results'[v] = results[v]
        BY <3>1 DEF TypeOK
      <4> QED
        BY <3>4, <4>1
    <3>6. FailedIsLeaving'
      BY <3>1 DEF TypeOK
    <3> QED
      BY <3>5, <3>6
  <2> QED
    BY <1>2, <2>1, <2>2, <2>3, ResultsOnlyOfJobs
<1>3. CASE Caller
  BY <1>1, <1>3 DEF Caller, Submit, Rescan, StopFlag, StopSend, StopReturn,
                    unitVars, historyVars
<1>4. CASE DiscoveryThread
  <2>1. UNCHANGED results
    BY <1>4 DEF DiscoveryThread, Reap, Scan, Commit, EndScan, Receive, Shutdown,
                Join, Skip, Spawn, Exhaust, historyVars
  <2> QED
    BY <1>1, <1>4, <2>1, DiscoveryLeavesJobs DEF JobsAlone
<1>5. CASE UNCHANGED vars
  BY <1>1, <1>5 DEF vars, unitVars, historyVars
<1> QED
  BY <1>2, <1>3, <1>4, <1>5 DEF Next

\* After the first job that fails nothing is written to the unit any more:
\* its other jobs are cancelled.
THEOREM FailureIsLast == Spec => []NoWriteAfterFailure
<1>1. Init => FailedIsLeaving /\ NoWriteAfterFailure
  BY DEF Init, FailedIsLeaving, NoWriteAfterFailure
<1>2. TypeOK /\ Ownership /\ Bookkeeping /\ FailedIsLeaving /\ NoWriteAfterFailure
        /\ [Next]_vars => (FailedIsLeaving /\ NoWriteAfterFailure)'
  BY FailureStep
<1> QED
  BY <1>1, <1>2, BooksInvariant, PTL DEF Spec

-----------------------------------------------------------------------------
(* Suppression.                                                            *)

\* Unit u, registered, was lost to a timeout and no scan has missed it.
Wedges(u) ==
    /\ worker[u] \in {"retire", "drain", "done"}
    /\ timedOut[u]
    /\ ~unplugged[u]

\* A location lost to a timeout is suppressed, or will be when the thread that
\* lost it is joined; discovery that has ended spawns nothing.
WedgedIsKept ==
    discovery # "done" =>
        \A l \in wedged : \/ l \in suppressed
                          \/ \E u \in registry : location[u] = l /\ Wedges(u)

\* What a step of thread u does to the timeouts: it closes its handle, or it
\* stays on its side of having closed it.
TimeoutsOf(u) ==
    \/ /\ worker[u] \notin {"retire", "drain", "done"}
       /\ \E timeout \in BOOLEAN :
             /\ timedOut' = [timedOut EXCEPT ![u] = timeout]
             /\ worker' = [worker EXCEPT ![u] = "retire"]
             /\ wedged' = IF timeout /\ ~unplugged[u]
                          THEN wedged \cup {location[u]} ELSE wedged
    \/ /\ UNCHANGED wedged
       /\ \E p : worker' = [worker EXCEPT ![u] = p]
                 /\ \/ /\ worker[u] \notin {"retire", "drain", "done"}
                       /\ \E t \in BOOLEAN : timedOut' = [timedOut EXCEPT ![u] = t]
                    \/ /\ p \in {"retire", "drain", "done"}
                       /\ UNCHANGED timedOut

\* Every action of a unit's thread is of that kind.
LEMMA ClosingOnce ==
    ASSUME TypeOK, NEW u \in Unit, UnitThread(u)
    PROVE  TimeoutsOf(u) /\ UNCHANGED <<unplugged, outsideVars>>
<1> USE DEF TimeoutsOf, Close, Goto, Continue, queueVars
<1>t. timedOut[u] \in BOOLEAN /\ timedOut = [timedOut EXCEPT ![u] = timedOut[u]]
  BY DEF TypeOK
<1>1. CASE Start(u)
  BY <1>1, <1>t DEF Start
<1>2. CASE Open(u)
  BY <1>2, <1>t DEF Open
<1>3. CASE Probe(u)
  BY <1>3, <1>t DEF Probe
<1>4. CASE Admit(u)
  BY <1>4, <1>t DEF Admit
<1>5. CASE Leave(u)
  BY <1>5, <1>t DEF Leave
<1>6. CASE BeginPoll(u)
  BY <1>6, <1>t DEF BeginPoll
<1>7. CASE TakeJob(u)
  BY <1>7, <1>t DEF TakeJob
<1>8. CASE Apply(u)
  BY <1>8, <1>t DEF Apply, AfterFailedJob
<1>9. CASE Poll(u)
  BY <1>9, <1>t DEF Poll
<1>10. CASE Retire(u)
  BY <1>10, <1>t DEF Retire
<1>11. CASE Drain(u)
  BY <1>11, <1>t DEF Drain
<1> QED
  BY <1>1, <1>2, <1>3, <1>4, <1>5, <1>6, <1>7, <1>8, <1>9, <1>10, <1>11
  DEF UnitThread

\* A thread that closes its handle is registered: what it adds is kept.
LEMMA ClosingKeeps ==
    ASSUME TypeOK, Ownership, WedgedIsKept, NEW u \in Unit, UnitThread(u)
    PROVE  WedgedIsKept'
<1> USE DEF WedgedIsKept, Wedges
<1>1. u \in registry /\ registry \subseteq Unit
  BY MovesOneThread DEF Ownership, SameUnits, ThreadsRegistered, TypeOK
<1>2. TimeoutsOf(u)
  BY ClosingOnce
<1>3. UNCHANGED <<unplugged, registry, location, suppressed, discovery>>
  BY ClosingOnce DEF outsideVars, discoveryVars, numberVars
<1>4. CASE UNCHANGED wedged
  <2>1. ASSUME NEW v \in registry, Wedges(v)
        PROVE  Wedges(v)'
    <3>1. CASE v # u
      <4>1. worker'[v] = worker[v] /\ timedOut'[v] = timedOut[v]
        BY <1>1, <1>2, <3>1 DEF TimeoutsOf, TypeOK
      <4> QED
        BY <1>3, <2>1, <4>1
    <3>2. CASE v = u
      <4>1. worker'[u] \in {"retire", "drain", "done"} /\ UNCHANGED timedOut
        BY <1>1, <1>2, <2>1, <3>2 DEF TimeoutsOf, TypeOK
      <4> QED
        BY <1>3, <2>1, <3>2, <4>1
    <3> QED
      BY <3>1, <3>2
  <2> QED
    BY <1>3, <1>4, <2>1
<1>5. CASE /\ worker[u] \notin {"retire", "drain", "done"}
           /\ timedOut' = [timedOut EXCEPT ![u] = TRUE]
           /\ worker' = [worker EXCEPT ![u] = "retire"]
           /\ wedged' = wedged \cup {location[u]}
           /\ ~unplugged[u]
  <2>1. \A v \in registry : Wedges(v) => Wedges(v)'
    BY <1>1, <1>3, <1>5 DEF TypeOK
  <2>2. Wedges(u)'
    BY <1>1, <1>3, <1>5 DEF TypeOK
  <2> QED
    BY <1>1, <1>3, <1>5, <2>1, <2>2
<1> QED
  BY <1>2, <1>4, <1>5 DEF TimeoutsOf, TypeOK

\* Discovery gives up a wedged unit for its suppression, and a suppression
\* only to a scan that missed the location.
LEMMA DiscoveryKeeps ==
    ASSUME TypeOK, Ownership, WedgedIsKept, DiscoveryThread
    PROVE  WedgedIsKept'
<1> USE DEF WedgedIsKept, Wedges
<1>1. CASE Reap
  <2>1. /\ registry' = registry \ Finished
        /\ suppressed' = suppressed \cup SuppressedBy(Finished)
        /\ timedOut' = [u \in Unit |-> timedOut[u] /\ u \notin Finished]
        /\ UNCHANGED <<worker, unplugged, location, wedged>>
        /\ discovery = "top" /\ registry \subseteq Unit
    BY <1>1 DEF Reap, queueVars, numberVars, historyVars, TypeOK
  <2>2. \A u \in registry : Wedges(u) =>
           \/ location[u] \in suppressed'
           \/ u \in registry' /\ Wedges(u)'
    BY <2>1 DEF SuppressedBy
  <2> QED
    BY <2>1, <2>2
<1>2. CASE Commit
  <2>1. /\ suppressed' = suppressed \cap found /\ wedged' = wedged \cap found
        /\ unplugged' = [u \in Unit |-> unplugged[u] \/
                            (u \in registry /\ location[u] \notin found)]
        /\ UNCHANGED <<registry, worker, timedOut, location>>
        /\ discovery = "commit" /\ registry \subseteq Unit
    BY <1>2 DEF Commit, unitVars, numberVars, TypeOK
  <2>2. ASSUME NEW u \in registry, location[u] \in found, Wedges(u)
        PROVE  Wedges(u)'
    BY <2>1, <2>2
  <2> QED
    BY <2>1, <2>2
<1>3. ASSUME NEW l \in Locations, Spawn(l) PROVE WedgedIsKept'
  <2>1. nextInc \in Unit /\ nextInc \notin registry /\ worker[nextInc] = "unborn"
    BY <1>3, DeviceAssumption DEF Spawn, Unit, Ownership, SameUnits, FreshUnborn, TypeOK
  <2>2. /\ location' = [location EXCEPT ![nextInc] = l]
        /\ registry \subseteq registry'
        /\ \A u \in Unit : u # nextInc => worker'[u] = worker[u]
        /\ UNCHANGED <<timedOut, unplugged, suppressed, wedged, discovery>>
    BY <1>3 DEF Spawn, queueVars, historyVars, TypeOK
  <2>3. \A v \in registry : v \in Unit /\ v # nextInc /\ location'[v] = location[v]
    BY <2>1, <2>2 DEF TypeOK
  <2>4. \A v \in registry : Wedges(v) => Wedges(v)'
    BY <2>2, <2>3
  <2> QED
    BY <2>2, <2>3, <2>4
<1>4. CASE Join
  BY <1>4 DEF Join
<1>5. CASE Scan \/ EndScan \/ Receive \/ Shutdown
  BY <1>5 DEF Scan, EndScan, Receive, Shutdown, unitVars, numberVars, historyVars,
              queueVars
<1>6. ASSUME NEW l \in Locations, Skip(l) \/ Exhaust(l) PROVE WedgedIsKept'
  BY <1>6 DEF Skip, Exhaust, unitVars, numberVars, historyVars, queueVars
<1> QED
  BY <1>1, <1>2, <1>3, <1>4, <1>5, <1>6 DEF DiscoveryThread

\* Every step keeps what is wedged.
LEMMA WedgedStep ==
    ASSUME TypeOK, Ownership, WedgedIsKept, [Next]_vars
    PROVE  WedgedIsKept'
<1>1. CASE Caller \/ UNCHANGED vars
  BY <1>1 DEF Caller, Submit, Rescan, StopFlag, StopSend, StopReturn, vars,
              unitVars, numberVars, historyVars, queueVars, discoveryVars,
              WedgedIsKept, Wedges
<1> QED
  BY <1>1, ClosingKeeps, DiscoveryKeeps DEF Next

\* Only a spawn starts a thread, at a location that is not suppressed and that
\* no registered unit has.
LEMMA SpawnsElsewhere ==
    ASSUME TypeOK, Ownership, WedgedIsKept, [Next]_vars,
           NEW u \in Unit, worker[u] = "unborn", worker'[u] = "start"
    PROVE  location'[u] \notin wedged
<1>1. ASSUME NEW l \in Locations, Spawn(l) PROVE location'[u] \notin wedged
  <2>1. nextInc \in Unit /\ discovery = "spawn"
    BY <1>1, DeviceAssumption DEF Spawn, Unit, TypeOK
  <2>2. u = nextInc /\ location'[u] = l
    BY <1>1, <2>1 DEF Spawn, TypeOK
  <2>3. l \notin suppressed /\ \A v \in registry : location[v] # l
    BY <1>1 DEF Spawn, Unowned
  <2> QED
    BY <2>1, <2>2, <2>3 DEF WedgedIsKept
<1>2. ASSUME NEW v \in Unit, UnitThread(v) PROVE FALSE
  BY <1>2, MovesOneThread DEF TypeOK
<1>3. CASE Caller \/ UNCHANGED vars
  BY <1>3 DEF Caller, Submit, Rescan, StopFlag, StopSend, StopReturn, vars, unitVars
<1>4. CASE Reap \/ Scan \/ Commit \/ EndScan \/ Receive \/ Shutdown \/ Join
  BY <1>4 DEF Reap, Scan, Commit, EndScan, Receive, Shutdown, Join, unitVars
<1>5. ASSUME NEW l \in Locations, Skip(l) \/ Exhaust(l) PROVE FALSE
  BY <1>5 DEF Skip, Exhaust, unitVars
<1> QED
  BY <1>1, <1>2, <1>3, <1>4, <1>5 DEF Next, DiscoveryThread

\* A location that timed out gets no new owner before a scan has missed it,
\* whatever the order of reaping, rescans and retirements.
THEOREM WedgedStaysClosed == Spec => WedgedNotReopened
<1> DEFINE Opens == \A u \in Unit : worker[u] = "unborn" /\ worker'[u] = "start"
                                       => location'[u] \notin wedged
<1>1. Init => WedgedIsKept
  BY DEF Init, WedgedIsKept
<1>2. TypeOK /\ Ownership /\ WedgedIsKept /\ [Next]_vars => WedgedIsKept'
  BY WedgedStep
<1>3. TypeOK /\ Ownership /\ WedgedIsKept /\ [Next]_vars => [Opens]_vars
  BY SpawnsElsewhere
<1>4. Spec => []TypeOK /\ []Ownership
  BY BooksInvariant, PTL
<1> QED
  BY <1>1, <1>2, <1>3, <1>4, PTL DEF Spec, WedgedNotReopened
=============================================================================
