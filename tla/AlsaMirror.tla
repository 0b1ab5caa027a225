----------------------------- MODULE AlsaMirror -----------------------------
(***************************************************************************)
(* The owner of one USB unit keeps its firmware and the ALSA controls of   *)
(* its card in step: SyncedDevice, Mirror and CardControls of device.rs.   *)
(*                                                                         *)
(* A poll reads the firmware, writes to the card what changed since the    *)
(* last poll, takes over what another ALSA client set there, and writes    *)
(* the configuration back when it took something over.  A job reads the    *)
(* firmware, changes its settings and writes the whole configuration.      *)
(* Every transfer and every amixer command is a step: between two of them  *)
(* a person turns the knobs of the unit, another program sets the          *)
(* controls of the card, and the transfer or the command may fail.         *)
(* The threads, queues and retirement are in DeviceManager.                *)
(***************************************************************************)
EXTENDS Naturals

CONSTANTS
    Synced,       \* the fields the profile of the unit mirrors
    Volumes,      \* the headphone volumes of the firmware that are tried
    CardStep,     \* firmware units in one step of the control of the card
    CardMin,      \* the lowest value the control of the card takes
    Jobs,         \* the settings a job may carry: fields to values
    PollsToRead,  \* polls after which the card is read, and searched, again
    MaxFailures,  \* polls that fail in a row before the owner gives up
    Plans,        \* the controls the card has at first, and how often the
                  \* surroundings act: hands, clients, jobs, faults, replugs
    Unknown       \* no value

ASSUME MirrorAssumption ==
    /\ Synced \subseteq {"Mute", "Headphone", "Gain"}
    /\ Volumes \subseteq Nat
    /\ CardStep \in Nat \ {0}
    /\ {CardMin, PollsToRead, MaxFailures} \subseteq Nat
    /\ \A settings \in Jobs :
          /\ DOMAIN settings \subseteq {"Mute", "Headphone", "Gain"}
          /\ \A f \in DOMAIN settings : settings[f] \in Nat
    /\ Unknown \notin Nat \cup [{"Mute", "Headphone", "Gain"} -> Nat]

VARIABLES
    firmware,     \* what the unit holds: field -> value
    card,         \* the controls of its card: field -> value
    shown,        \* the fields the card has a control for
    at,           \* where the owner is
    config,       \* the configuration it works on
    job,          \* the settings of the job in hand
    mirror,       \* Mirror: last, pending and the polls since the last read
    controls,     \* CardControls: the fields it knows, polls since the last search
    poll,         \* the poll in hand: due, rediscovered, dirty
    failures,     \* polls that failed in a row
    left,         \* what is left of the plan
    foreign,      \* the fields of the card another client set, not taken over yet
    adrift        \* the fields whose baseline is not what the card was told

world == <<firmware, card, shown>>
owner == <<at, config, job, mirror, controls, poll, failures>>
vars == <<world, owner, left, foreign, adrift>>

Fields == {"Mute", "Headphone", "Gain"}
Values(f) == IF f = "Headphone" THEN Volumes ELSE 0 .. 1

-----------------------------------------------------------------------------
(* Scales.                                                                 *)

\* Field::alsa, Field::setting: a step of the card is several of the firmware.
ToCard(f, value) == IF f = "Headphone" THEN value \div CardStep ELSE value
FromCard(f, value) == IF f = "Headphone" THEN value * CardStep ELSE value

\* CardControls::expected: the control has a range of its own.
Expected(f, value) ==
    IF f = "Headphone" /\ value < CardMin THEN CardMin ELSE value

\* What the card should show for a firmware value.
Shows(f, value) == Expected(f, ToCard(f, value))

CardValues(f) == {Shows(f, value) : value \in Values(f)}

-----------------------------------------------------------------------------
(* The surroundings.                                                       *)

Spend(what) == left[what] > 0 /\ left' = [left EXCEPT ![what] = @ - 1]

\* A button or a knob of the unit.
Hand(f, value) ==
    /\ firmware[f] # value
    /\ Spend("hands")
    /\ firmware' = [firmware EXCEPT ![f] = value]
    /\ UNCHANGED <<card, shown, owner, foreign, adrift>>

\* Another program, or alsamixer.
Client(f, value) ==
    /\ f \in shown
    /\ card[f] # value
    /\ Spend("clients")
    /\ card' = [card EXCEPT ![f] = value]
    /\ foreign' = foreign \cup {f}
    /\ UNCHANGED <<firmware, shown, owner, adrift>>

\* The card brings up the rest of its controls.
Show ==
    /\ shown # Synced
    /\ shown' = Synced
    /\ UNCHANGED <<firmware, card, owner, left, foreign, adrift>>

\* A unit nobody owns is plugged in again: its card starts over, and discovery
\* forgets what it held against the place when a scan misses the unit there.
Replug ==
    /\ at \in {"closed", "suppressed"}
    /\ Spend("replugs")
    /\ at' = "closed"
    /\ firmware' \in {firmware, [f \in Fields |-> 0]}
    /\ card' = [f \in Fields |-> Shows(f, 0)]
    /\ shown' = {}
    /\ foreign' = Synced
    /\ UNCHANGED <<config, job, mirror, controls, poll, failures, adrift>>

-----------------------------------------------------------------------------
(* Opening and retiring.                                                   *)

NoPoll == [due |-> FALSE, rediscovered |-> FALSE, dirty |-> FALSE]
NoMirror == [last |-> Unknown, pending |-> [f \in Fields |-> Unknown],
             reread |-> PollsToRead]

Complete == Synced \subseteq controls.known

\* NativeFactory::open finds the controls there are; they may be few or none.
\* Discovery starts no owner at a place it suppresses.
Open ==
    /\ at = "closed"
    /\ at' = "idle"
    /\ mirror' = NoMirror
    /\ controls' = [known |-> shown, searched |-> 0]
    /\ failures' = 0
    /\ UNCHANGED <<world, config, job, poll, left, foreign, adrift>>

\* A failed job retires the unit, as does its first poll or three in a row.
\* When its last transfer ran into the timeout, discovery suppresses the place of
\* the unit for as long as the scans find it there.
Retire ==
    /\ at' \in {"closed", "suppressed"}
    /\ UNCHANGED failures

PollFails ==
    /\ Spend("faults")
    /\ IF mirror.last = Unknown \/ failures + 1 >= MaxFailures
       THEN Retire
       ELSE at' = "idle" /\ failures' = failures + 1

-----------------------------------------------------------------------------
(* A poll.                                                                 *)

ReadFirmware ==
    /\ at = "idle"
    /\ \/ /\ at' = "refresh"
          /\ config' = firmware
          /\ poll' = [NoPoll EXCEPT !.due = mirror.reread >= PollsToRead]
          /\ mirror' = [mirror EXCEPT !.reread = IF @ >= PollsToRead THEN 1 ELSE @ + 1]
          /\ controls' = [controls EXCEPT !.searched = IF @ < PollsToRead THEN @ + 1 ELSE @]
          /\ UNCHANGED <<failures, left>>
       \/ PollFails /\ UNCHANGED <<config, poll, mirror, controls>>
    /\ UNCHANGED <<world, job, foreign, adrift>>

AllPending(values) ==
    [f \in Fields |-> IF f \in Synced THEN ToCard(f, values[f]) ELSE mirror.pending[f]]

Undone_Kept == mirror.pending

\* A failed search may hide controls the firmware has news for.
Undone == AllPending(config)

Refresh ==
    /\ at = "refresh"
    /\ IF Complete \/ controls.searched < PollsToRead
       THEN at' = "Mute" /\ UNCHANGED <<mirror, controls, poll, left>>
       ELSE \/ /\ at' = "Mute"
               /\ controls' = [known |-> shown, searched |-> 0]
               /\ poll' = [poll EXCEPT !.rediscovered = shown # controls.known]
               /\ UNCHANGED <<mirror, left>>
            \/ /\ Spend("faults")
               /\ at' = "commit"
               /\ controls' = [controls EXCEPT !.searched = 0]
               /\ mirror' = [mirror EXCEPT !.pending = Undone]
               /\ UNCHANGED poll
    /\ UNCHANGED <<world, config, job, failures, foreign, adrift>>

\* The value the card is to be told, if any.
Wanted(f) ==
    IF \/ mirror.last = Unknown
       \/ mirror.last # Unknown /\ mirror.last[f] # config[f]
       \/ poll.rediscovered
    THEN ToCard(f, config[f])
    ELSE mirror.pending[f]

After(f) == CASE f = "Mute" -> "Headphone" [] f = "Headphone" -> "Gain" [] f = "Gain" -> "commit"

\* amixer cset: it may fail before or after it took effect.
Tell(f) ==
    /\ f \in Synced
    /\ Wanted(f) # Unknown
    /\ \/ /\ f \in controls.known
          /\ card' = [card EXCEPT ![f] = Expected(f, Wanted(f))]
          /\ foreign' = foreign \ {f}
          /\ adrift' = IF Wanted(f) = ToCard(f, config[f]) THEN adrift \ {f} ELSE adrift
          /\ mirror' = [mirror EXCEPT !.pending[f] = Unknown]
          /\ UNCHANGED left
       \/ /\ mirror' = [mirror EXCEPT !.pending[f] = Wanted(f)]
          /\ \/ f \notin controls.known /\ UNCHANGED <<card, foreign, left>>
             \/ f \in controls.known /\ Spend("faults") /\ UNCHANGED <<card, foreign>>
             \/ /\ f \in controls.known
                /\ Spend("faults")
                /\ card' = [card EXCEPT ![f] = Expected(f, Wanted(f))]
                /\ foreign' = foreign \ {f}
          /\ UNCHANGED adrift
    /\ UNCHANGED <<config, poll>>

\* amixer cget, never in the poll that told the card something.
Reads(f) == f \in Synced /\ Wanted(f) = Unknown /\ poll.due /\ f # "Gain"

TakeOver(f) ==
    /\ Reads(f)
    /\ f \in controls.known
    /\ card[f] # Shows(f, config[f])
    /\ config' = [config EXCEPT ![f] = FromCard(f, card[f])]
    /\ poll' = [poll EXCEPT !.dirty = TRUE]
    /\ foreign' = foreign \ {f}
    /\ adrift' = adrift \ {f}
    /\ UNCHANGED <<mirror, card, left>>

Pass(f) ==
    /\ \/ f \notin Synced
       \/ Wanted(f) = Unknown /\ ~Reads(f)
       \/ Reads(f) /\ (f \notin controls.known \/ card[f] = Shows(f, config[f]))
    /\ UNCHANGED <<config, poll, mirror, card, foreign, adrift, left>>

ReadFails(f) ==
    /\ Reads(f)
    /\ f \in controls.known
    /\ Spend("faults")
    /\ UNCHANGED <<config, poll, mirror, card, foreign, adrift>>

Observe(f) ==
    /\ at = f
    /\ at' = After(f)
    /\ Tell(f) \/ TakeOver(f) \/ Pass(f) \/ ReadFails(f)
    /\ UNCHANGED <<firmware, shown, job, controls, failures>>

\* The end of a poll.  A write that failed may have been done all the same, and
\* the baseline stays where it was, whatever the card has been told since.
Commit ==
    /\ at = "commit"
    /\ \/ /\ at' = "idle"
          /\ failures' = 0
          /\ mirror' = [mirror EXCEPT !.last = config]
          /\ firmware' = IF poll.dirty THEN config ELSE firmware
          /\ UNCHANGED <<left, adrift>>
       \/ /\ poll.dirty
          /\ PollFails
          /\ firmware' \in {firmware, config}
          /\ adrift' = adrift \cup {f \in Synced : mirror.last[f] # config[f]}
          /\ UNCHANGED mirror
    /\ UNCHANGED <<card, shown, config, job, controls, poll, foreign>>

-----------------------------------------------------------------------------
(* A job.                                                                  *)

\* A unit takes jobs once its first poll succeeded.
ReadForJob(settings) ==
    /\ at = "idle"
    /\ mirror.last # Unknown
    /\ left.jobs > 0
    /\ \/ /\ Spend("jobs")
          /\ at' = "write"
          /\ job' = settings
          /\ config' = [f \in Fields |-> IF f \in DOMAIN settings THEN settings[f]
                                        ELSE firmware[f]]
          /\ UNCHANGED failures
       \/ Spend("faults") /\ Retire /\ UNCHANGED <<config, job>>
    /\ UNCHANGED <<world, mirror, controls, poll, foreign, adrift>>

Requested_Forgotten == mirror.pending

\* The card has yet to be told the settings of the job.
Requested ==
    [f \in Fields |-> IF f \in DOMAIN job \cap Synced THEN ToCard(f, config[f])
                     ELSE mirror.pending[f]]

\* The configuration that was read becomes the baseline, and with it what a hand
\* changed since the last poll, which the card was not told.
WriteJob ==
    /\ at = "write"
    /\ \/ /\ at' = "idle"
          /\ firmware' = config
          /\ mirror' = [mirror EXCEPT !.pending = Requested, !.last = config]
          /\ adrift' = adrift \cup {f \in Synced \ DOMAIN job : mirror.last[f] # config[f]}
          /\ UNCHANGED <<failures, left>>
       \/ /\ Spend("faults")
          /\ Retire
          /\ firmware' \in {firmware, config}
          /\ UNCHANGED <<mirror, adrift>>
    /\ job' = <<>>
    /\ UNCHANGED <<card, shown, config, controls, poll, foreign>>

-----------------------------------------------------------------------------
(* Specification.                                                          *)

Init ==
    /\ \E plan \in Plans :
          /\ shown = plan.shown
          /\ left = [what \in DOMAIN plan \ {"shown"} |-> plan[what]]
    /\ firmware = [f \in Fields |-> 0]
    /\ card = [f \in Fields |-> Shows(f, 0)]
    /\ at = "closed"
    /\ config = firmware
    /\ job = <<>>
    /\ mirror = NoMirror
    /\ controls = [known |-> {}, searched |-> 0]
    /\ poll = NoPoll
    /\ failures = 0
    /\ foreign = Synced
    /\ adrift = {}

Surroundings ==
    \/ \E f \in Fields : \E value \in Values(f) : Hand(f, value)
    \/ \E f \in Synced : \E value \in CardValues(f) : Client(f, value)
    \/ Show
    \/ Replug

Works ==
    \/ Open
    \/ ReadFirmware
    \/ Refresh
    \/ \E f \in Fields : Observe(f)
    \/ Commit
    \/ WriteJob

Next == Surroundings \/ Works \/ \E settings \in Jobs : ReadForJob(settings)

Spec == Init /\ [][Next]_vars

\* Discovery opens a unit that is not suppressed and its worker polls on; the card
\* comes up in the end.  Nobody has to plug a suppressed unit in again.
FairSpec == Spec /\ WF_vars(Works) /\ WF_vars(Show)

-----------------------------------------------------------------------------
(* Properties.                                                             *)

\* "retains firmware and retries without stale feedback" (the test of
\* tests/device_mirror.rs:225): what a poll takes over from the card is what
\* another client set there, never an echo of what the firmware held before.
\* A field is excepted while its baseline is not what the card was told: after a
\* job that absorbed a change by hand, and after a write-back that failed.
NoStaleFeedback ==
    [][\A f \in Synced :
          at = f /\ config'[f] # config[f] => f \in foreign \cup adrift]_vars

\* Once the surroundings are quiet the card shows what the firmware holds,
\* whatever failed before, unless the unit is suppressed: after a transfer that
\* timed out it stays without an owner while it is plugged in (WedgedNotReopened
\* of DeviceManager), and a write that timed out and took effect all the same
\* leaves the card as it was.  The gain is only told: what another client makes
\* of it stays, as does the gain of an absorbed change.
Agrees(f) == card[f] = Shows(f, firmware[f])

InStep ==
    <>[](\/ at = "suppressed"
         \/ \A f \in Synced : Agrees(f) \/ (f = "Gain" /\ f \in foreign \cup adrift))
=============================================================================
