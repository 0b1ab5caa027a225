------------------------------- MODULE Meters -------------------------------
(* The meter readers (meter.rs): a bank of targets under a lock, a           *)
(* coordinator thread that retires and starts readers, one reader thread per *)
(* target with a child that records, and the taps that say which capture     *)
(* flows.  A target that is not the one of before gets a new token.          *)
EXTENDS Naturals, FiniteSets

CONSTANTS
    Keys,       \* rows with a meter, numbers
    Nodes,      \* identities a row may be bound to
    MaxTokens   \* bound: targets in one behaviour

ASSUME MetersAssumption ==
    Keys \subseteq Nat /\ IsFiniteSet(Keys) /\ MaxTokens \in Nat

Tokens == 1..MaxTokens
NoTarget == [node |-> "none", token |-> 0]
Targets == {NoTarget} \cup [node : Nodes, token : Tokens]

VARIABLES
    bank,       \* key -> target
    next,       \* the last token given
    taps,       \* tokens that are registered
    flows,      \* those of them that received bytes
    meters,     \* the coordinator
    workers,    \* key -> token of its reader, or 0
    reader,     \* token -> its thread
    child, handle

Proc == INSTANCE Processes WITH Children <- Tokens

coordination == <<bank, next, taps, flows>>
meterVars == <<bank, next, taps, flows, meters, workers, reader, child, handle>>

NoReader == [at |-> "none", key |-> 0, cancel |-> FALSE]
MetersInit ==
    /\ bank = [k \in Keys |-> NoTarget] /\ next = 0 /\ taps = {} /\ flows = {}
    /\ meters = [at |-> "recv", want |-> [k \in Keys |-> NoTarget], wake |-> TRUE, cancel |-> FALSE,
                 join |-> 0, failed |-> FALSE]
    /\ workers = [k \in Keys |-> 0]
    /\ reader = [t \in Tokens |-> NoReader]
    /\ Proc!ProcessesInit

Invalid(gone) == taps' = taps \ gone /\ flows' = flows \ gone
Banked(b) == {b[k].token : k \in Keys} \ {0}

-----------------------------------------------------------------------------
(* MeterMonitor: called by the controller thread. *)

\* The same target keeps its token while its tap is registered.
Keeps(k, node) == bank[k].node = node /\ bank[k].token \in taps
Fresh(new) == {k \in Keys : new[k] # "none" /\ ~Keeps(k, new[k])}
Assigned(new) ==
    [k \in Keys |-> IF new[k] = "none" THEN NoTarget
                    ELSE IF k \in Fresh(new)
                         THEN [node |-> new[k], token |-> next + Cardinality({j \in Fresh(new) : j <= k})]
                         ELSE bank[k]]
SetTargets(new) ==
    /\ ~meters.cancel
    /\ next + Cardinality(Fresh(new)) <= MaxTokens
    /\ next' = next + Cardinality(Fresh(new))
    /\ bank' = Assigned(new)
    /\ LET gone == Banked(bank) \ Banked(bank')
       IN  /\ taps' = (taps \ gone) \cup (Banked(bank') \ Banked(bank))
           /\ flows' = flows \ gone
    /\ meters' = [meters EXCEPT !.wake = TRUE]
    /\ UNCHANGED <<workers, reader, child, handle>>

\* stop: what precedes the wait for the coordinator.
CancelMeters ==
    /\ bank' = [k \in Keys |-> NoTarget]
    /\ Invalid(Banked(bank))
    /\ meters' = [meters EXCEPT !.cancel = TRUE, !.wake = TRUE]
    /\ UNCHANGED <<next, workers, reader, child, handle>>
MetersJoined == meters.at = "done"
MetersFailed == meters.failed

-----------------------------------------------------------------------------
(* meter_loop *)

Step(at) == meters' = [meters EXCEPT !.at = at]

ReadBank ==
    /\ meters.at = "read"
    /\ meters' = [meters EXCEPT !.at = "retire",
                                !.want = IF meters.cancel THEN [k \in Keys |-> NoTarget] ELSE bank]
    /\ UNCHANGED <<coordination, workers, reader, child, handle>>

\* Readers of other targets than those wanted; the last one is joined before
\* anything is started.  After a cancellation nothing is wanted.
Stale == {k \in Keys : workers[k] # 0 /\ meters.want[k].token # workers[k]}
RetireStale ==
    /\ meters.at = "retire" /\ Stale # {}
    /\ \E k \in Stale :
          /\ reader' = [reader EXCEPT ![workers[k]].cancel = TRUE]
          /\ Invalid({workers[k]})
          /\ meters' = [meters EXCEPT !.at = "join", !.join = workers[k]]
          /\ workers' = [workers EXCEPT ![k] = 0]
    /\ UNCHANGED <<bank, next, child, handle>>
Joined_AtOnce(t) == TRUE
Joined(t) == reader[t].at \in {"ended", "failed"}
JoinStale ==
    /\ meters.at = "join" /\ Joined(meters.join)
    /\ meters' = [meters EXCEPT !.at = "retire", !.join = 0,
                                !.failed = @ \/ reader[meters.join].at = "failed"]
    /\ UNCHANGED <<coordination, workers, reader, child, handle>>
RetiredAll ==
    /\ meters.at = "retire" /\ Stale = {}
    /\ Step(IF meters.cancel /\ Banked(meters.want) = {} THEN "done" ELSE "start")
    /\ UNCHANGED <<coordination, workers, reader, child, handle>>

Unstarted == {k \in Keys : meters.want[k].token # 0 /\ workers[k] = 0}
StartReader ==
    /\ meters.at = "start" /\ ~meters.cancel
    /\ \E k \in Unstarted :
          /\ workers' = [workers EXCEPT ![k] = meters.want[k].token]
          /\ reader' = [reader EXCEPT ![meters.want[k].token] = [NoReader EXCEPT !.at = "start", !.key = k]]
    /\ UNCHANGED <<coordination, meters, child, handle>>
StartedAll ==
    /\ meters.at = "start" /\ (meters.cancel \/ Unstarted = {})
    /\ Step("recv")
    /\ UNCHANGED <<coordination, workers, reader, child, handle>>
Woken ==
    /\ meters.at = "recv" /\ meters.wake
    /\ meters' = [meters EXCEPT !.at = "read", !.wake = FALSE]
    /\ UNCHANGED <<coordination, workers, reader, child, handle>>

Coordinator == ReadBank \/ RetireStale \/ JoinStale \/ RetiredAll \/ StartReader \/ StartedAll \/ Woken

-----------------------------------------------------------------------------
(* meter_reader *)

Becomes(t, at) == reader' = [reader EXCEPT ![t].at = at]

ReaderSpawns(t) ==
    /\ reader[t].at = "start"
    /\ IF reader[t].cancel
       THEN Becomes(t, "ended") /\ Invalid({t}) /\ UNCHANGED <<child, handle>>
       ELSE Becomes(t, "reading") /\ Proc!Spawn(t) /\ UNCHANGED <<taps, flows>>
    /\ UNCHANGED <<bank, next, meters, workers>>
SpawnFails(t) ==
    /\ reader[t].at = "start" /\ ~reader[t].cancel
    /\ Becomes(t, "failed") /\ Invalid({t})
    /\ UNCHANGED <<bank, next, meters, workers, child, handle>>
IsWanted(t) == bank[reader[t].key].token = t
ReaderReads(t) ==
    /\ reader[t].at = "reading" /\ ~reader[t].cancel
    /\ child[t] = "live" /\ IsWanted(t)
    /\ flows' = flows \cup ({t} \cap taps)
    /\ UNCHANGED <<bank, next, taps, meters, workers, reader, child, handle>>
\* End of file, the token of another, or a cancellation: the tap first.
EndsTap_Later(t) == UNCHANGED <<taps, flows>>
EndsTap(t) == Invalid({t})
ReaderEnds(t) ==
    /\ reader[t].at = "reading"
    /\ reader[t].cancel \/ child[t] = "dead" \/ (child[t] = "live" /\ ~IsWanted(t))
    /\ Becomes(t, "ending") /\ EndsTap(t)
    /\ UNCHANGED <<bank, next, meters, workers, child, handle>>
\* Its child is terminated until that succeeds.
ReaderReaps(t) ==
    /\ reader[t].at = "ending" /\ Proc!Terminate(t)
    /\ Becomes(t, IF Proc!Terminated(t) THEN "ended" ELSE "ending")
    /\ UNCHANGED <<coordination, meters, workers>>

Reader(t) == ReaderSpawns(t) \/ ReaderReads(t) \/ ReaderEnds(t) \/ ReaderReaps(t)
=============================================================================
