----------------------------- MODULE Pins_proof -----------------------------
(***************************************************************************)
(* The capture pin for any number of children and replugs and any limits:  *)
(* one child records at a time, and silence is answered once.              *)
(***************************************************************************)
EXTENDS Pins, TLAPS

Points == {"look", "retire", "retiring", "adopt", "step", "restarting", "wait", "end", "ending", "done"}

\* The records keep their fields.
TypeOK ==
    /\ node \in Nat /\ last \in Nat
    /\ audio \in [at : Points, id : Nat, muted : {"yes", "no", "unknown"},
                  cancel : BOOLEAN, error : BOOLEAN]
    /\ pin \in [id : Nat, muted : {"yes", "no", "unknown"}, checked : Nat]
    /\ watch \in [started : Nat, data : Nat, silence : Nat, received : BOOLEAN, spent : BOOLEAN]
    /\ reader \in [at : {"none", "start", "reading", "ended", "failed"}, cancel : BOOLEAN,
                   child : Children \cup {0}]
    /\ samples \in [data : Nat, signal : Nat, exited : BOOLEAN]
    /\ child \in [Children -> {"none", "born", "live", "stuck", "dead"}]
    /\ handle \in [Children -> {"none", "held", "reaping", "reaped"}]
    /\ quiet \in Nat

\* A child that records belongs to the reader, which holds its handle.
Held ==
    \A c \in Children : child[c] \in {"born", "live"} =>
        reader.at = "reading" /\ reader.child = c /\ handle[c] = "held"

\* An input that is not kept has no reader, the loop restarts only one that it
\* keeps, and ends without one.
Kept ==
    /\ pin.id = 0 \/ audio.at = "done" => reader.at = "none"
    /\ audio.at \in {"step", "restarting"} => pin.id # 0

\* Silence that was answered is remembered until the input is heard.
Remembered ==
    quiet # 0 => quiet = 1 /\ watch.spent /\ samples.signal = Never(Silence)

IInv == TypeOK /\ Held /\ Kept /\ Remembered

\* What the loop's steps do to the reader: it is left, told to end, or replaced
\* when it has ended.
ReaderKept ==
    /\ UNCHANGED childVars
    /\ \/ UNCHANGED reader
       \/ reader' = [reader EXCEPT !.cancel = TRUE]
       \/ Joined /\ reader' = [NoReader EXCEPT !.at = "start"]
       \/ Joined /\ reader' = NoReader

\* A loop step never takes the handle of a recording child.
LEMMA KeptHeld ==
    ASSUME TypeOK, Held, ReaderKept
    PROVE  Held'
  BY DEF TypeOK, Held, ReaderKept, Joined, NoReader, childVars

\* The steps of the loop are of that kind, and its last one leaves no reader.
LEMMA LoopKeepsReader ==
    ASSUME TypeOK, Kept, Loop
    PROVE  ReaderKept /\ Kept'
<1> USE DEF ReaderKept, Kept, TypeOK, Go, Cancels, Starts
<1>1. CASE LookFails
  BY <1>1 DEF LookFails
<1>2. CASE Look
  <2>1. /\ audio.at = "look" /\ audio'.at \in {"end", "retire", "adopt"}
        /\ UNCHANGED <<pin, reader, childVars>>
    BY <1>2 DEF Look
  <2> QED
    BY <2>1
<1>3. CASE Retire
  BY <1>3 DEF Retire
<1>4. CASE Retired
  BY <1>4 DEF Retired, NoReader
<1>5. CASE Adopt
  <2>1. CASE pin.id = 0 /\ ~audio.cancel /\ audio.id # 0
    <3>1. /\ reader' = [NoReader EXCEPT !.at = "start"]
          /\ pin' = [id |-> audio.id, muted |-> audio.muted, checked |-> 0]
          /\ UNCHANGED childVars
      BY <1>5, <2>1 DEF Adopt
    <3>2. audio'.at = "step"
      BY <1>5, <3>1, <2>1 DEF Adopt
    <3> QED
      BY <2>1, <3>1, <3>2 DEF Joined
  <2>2. CASE pin.id # 0 \/ audio.cancel \/ audio.id = 0
    <3>1. UNCHANGED <<reader, childVars>>
      BY <1>5, <2>2 DEF Adopt
    <3>2. pin'.id = pin.id
      BY <1>5, <2>2 DEF Adopt
    <3>3. audio'.at = IF pin'.id = 0 THEN "wait" ELSE "step"
      BY <1>5 DEF Adopt
    <3> QED
      BY <3>1, <3>2, <3>3
  <2> QED
    BY <2>1, <2>2
<1>6. CASE Step
  BY <1>6 DEF Step
<1>7. CASE Restart
  BY <1>7 DEF Restart, NoReader
<1>8. CASE Wake
  BY <1>8 DEF Wake
<1>9. CASE Ends
  BY <1>9 DEF Ends
<1>10. CASE Ended
  BY <1>10 DEF Ended, NoReader
<1> QED
  BY <1>1, <1>2, <1>3, <1>4, <1>5, <1>6, <1>7, <1>8, <1>9, <1>10 DEF Loop

\* The reader spawns a child when it has none, and gives up its handle only of
\* a child that ended, or that waits in the kernel.
LEMMA ReaderKeepsHeld ==
    ASSUME TypeOK, Held, Kept, Reader
    PROVE  Held' /\ Kept'
<1> USE DEF TypeOK, Held, Kept, Exits, childVars, worldVars
<1>1. CASE Spawns
  <2>1. CASE reader.cancel
    BY <1>1, <2>1 DEF Spawns
  <2>2. CASE ~reader.cancel
    <3>1. PICK c \in Children :
             /\ child' = [child EXCEPT ![c] = "born"]
             /\ handle' = [handle EXCEPT ![c] = "held"]
             /\ reader' = [reader EXCEPT !.at = "reading", !.child = c]
      BY <1>1, <2>2 DEF Spawns, Proc!Spawn
    <3>2. reader.at = "start" /\ UNCHANGED <<audio, pin>>
      BY <1>1 DEF Spawns
    <3> QED
      BY <3>1, <3>2
  <2> QED
    BY <2>1, <2>2
<1>2. CASE SpawnFails
  BY <1>2 DEF SpawnFails
<1>3. ASSUME NEW signal \in BOOLEAN, Reads(signal) PROVE Held' /\ Kept'
  BY <1>3 DEF Reads
<1>4. CASE Stops
  <2> DEFINE c == reader.child
  <2>1. reader.at = "reading" /\ UNCHANGED <<audio, pin>>
    BY <1>4 DEF Stops
  <2>2. Kept'
    BY <1>4, <2>1 DEF Stops
  <2>3. CASE c \in Children
    <3>1. \A b \in Children : b # c => child[b] \notin {"born", "live"}
      BY <2>1
    <3>2. /\ \A b \in Children : b # c => child'[b] = child[b]
          /\ child'[c] \notin {"born", "live"}
      BY <1>4, <2>3, <2>1 DEF Stops, Proc!Terminate
    <3> QED
      BY <2>2, <3>1, <3>2
  <2>4. CASE c \notin Children
    <3>1. \A b \in Children : child[b] \notin {"born", "live"}
      BY <2>1, <2>4
    <3>2. \A b \in Children : child'[b] = child[b]
      BY <1>4, <2>4 DEF Stops, Proc!Terminate
    <3> QED
      BY <2>2, <3>1, <3>2
  <2> QED
    BY <2>3, <2>4
<1> QED
  BY <1>1, <1>2, <1>3, <1>4 DEF Reader

\* Silence is answered only when it was not, and what resets the answer is a
\* sample that was heard.
LEMMA RememberedStep ==
    ASSUME TypeOK, Remembered, [Next]_vars
    PROVE  Remembered'
<1> USE PinsAssumption DEF TypeOK, Remembered, Never
<1> DEFINE Same == UNCHANGED quiet
<1>h. Heard(watch).spent = (watch.spent /\ samples.signal > Silence)
  BY DEF Heard
<1>s. quiet # 0 => Seen(watch).spent
  BY <1>h DEF Seen
<1>w. UNCHANGED <<watch, samples, quiet>> => Remembered'
  OBVIOUS
<1>1. CASE LookFails
  <2>1. /\ watch' = IF pin.id = 0 THEN watch ELSE [Seen(watch) EXCEPT !.silence = 0]
        /\ samples' = [samples EXCEPT !.signal = Never(Silence)] /\ UNCHANGED quiet
    BY <1>1 DEF LookFails, Consumed
  <2>2. quiet # 0 => watch'.spent
    BY <2>1, <1>s DEF Seen, Heard
  <2> QED
    BY <2>1, <2>2
<1>2. CASE Look \/ Wake \/ Ends \/ Ended
  BY <1>2, <1>w DEF Look, Wake, Ends, Ended
<1>3. CASE Retire
  BY <1>3, <1>s DEF Retire, Consumed
<1>4. CASE Retired
  BY <1>4 DEF Retired, Dormant
<1>5. CASE Adopt
  <2>1. CASE UNCHANGED <<watch, samples>>
    BY <1>5, <1>w, <2>1 DEF Adopt
  <2>2. CASE Starts(watch)
    <3>1. watch'.spent = watch.spent /\ samples'.signal = Never(Silence)
      BY <2>2 DEF Starts, Restarted, NoSamples
    <3>2. UNCHANGED quiet
      BY <1>5 DEF Adopt
    <3> QED
      BY <3>1, <3>2
  <2> QED
    BY <1>5, <2>1, <2>2 DEF Adopt
<1>6. CASE Step
  <2> DEFINE w == Seen(watch)
  <2>1. samples'.signal = Never(Silence) /\ watch' = Stepped(w)
    BY <1>6 DEF Step, Consumed
  <2>2. Stepped(w).spent = (w.spent \/ (Alive /\ Silent(w)))
    BY DEF Stepped, Seen, Heard
  <2>3. CASE NeedsRestart(w) /\ Alive /\ Silent(w)
    <3>1. ~w.spent
      BY <2>3 DEF NeedsRestart, Silent
    <3>2. quiet' = 1
      BY <1>6, <1>s, <2>3, <3>1 DEF Step
    <3> QED
      BY <2>1, <2>2, <2>3, <3>2
  <2>4. CASE ~(NeedsRestart(w) /\ Alive /\ Silent(w))
    <3>1. UNCHANGED quiet
      BY <1>6, <2>4 DEF Step
    <3> QED
      BY <1>s, <2>1, <2>2, <3>1
  <2> QED
    BY <2>3, <2>4
<1>7. CASE Restart
  <2>1. CASE UNCHANGED <<watch, samples>>
    BY <1>7, <1>w, <2>1 DEF Restart
  <2>2. CASE Starts(watch)
    <3>1. watch'.spent = watch.spent /\ samples'.signal = Never(Silence)
      BY <2>2 DEF Starts, Restarted, NoSamples
    <3>2. UNCHANGED quiet
      BY <1>7 DEF Restart
    <3> QED
      BY <3>1, <3>2
  <2> QED
    BY <1>7, <2>1, <2>2 DEF Restart
<1>8. CASE Spawns \/ SpawnFails \/ Stops
  <2>1. UNCHANGED <<watch, quiet>> /\ samples'.signal = samples.signal
    BY <1>8 DEF Spawns, SpawnFails, Stops, Exits
  <2> QED
    BY <2>1
<1>9. ASSUME NEW signal \in BOOLEAN, Reads(signal) PROVE Remembered'
  BY <1>9 DEF Reads
<1>10. CASE Replug \/ Stop \/ ChildStarts \/ ChildFails \/ ChildLeaves
  BY <1>10, <1>w DEF Replug, Stop, ChildStarts, ChildFails, ChildLeaves
<1>11. CASE Tick
  <2>1. UNCHANGED quiet /\ watch'.spent = watch.spent
    BY <1>11 DEF Tick
  <2>2. samples.signal = Never(Silence) => samples'.signal = Never(Silence)
    BY <1>11 DEF Tick, Older
  <2> QED
    BY <2>1, <2>2
<1>12. CASE UNCHANGED vars
  BY <1>12, <1>w DEF vars
<1> QED
  BY <1>1, <1>2, <1>3, <1>4, <1>5, <1>6, <1>7, <1>8, <1>9, <1>10, <1>11, <1>12
  DEF Next, Loop, Reader

\* Every step keeps the shape of the records.
LEMMA TypeStep == TypeOK /\ [Next]_vars => TypeOK'
<1> SUFFICES ASSUME TypeOK, [Next]_vars PROVE TypeOK'
  OBVIOUS
<1> USE PinsAssumption
    DEF TypeOK, Points, Go, Consumed, Cancels, Never, worldVars, childVars, Fault
<1> DEFINE Watches == [started : Nat, data : Nat, silence : Nat, received : BOOLEAN, spent : BOOLEAN]
           Audios == [at : Points, id : Nat, muted : {"yes", "no", "unknown"},
                      cancel : BOOLEAN, error : BOOLEAN]
           Readers == [at : {"none", "start", "reading", "ended", "failed"}, cancel : BOOLEAN,
                       child : Children \cup {0}]
           Samples == [data : Nat, signal : Nat, exited : BOOLEAN]
<1>n. /\ NoPin \in [id : Nat, muted : {"yes", "no", "unknown"}, checked : Nat]
      /\ NoSamples \in [data : Nat, signal : Nat, exited : BOOLEAN]
  BY DEF NoPin, NoSamples
<1>r. NoReader = [at |-> "none", cancel |-> FALSE, child |-> 0]
  BY DEF NoReader
<1>a. Alive \in BOOLEAN
  BY DEF Alive
<1>s. Seen(watch) \in Watches
  BY DEF Seen, Heard, AtMost
<1>t. \A w \in Watches : Restarted(w) \in Watches /\ Stepped(w) \in Watches
  BY <1>a DEF Restarted, Stepped
<1>g. \A p \in Points : [audio EXCEPT !.at = p] \in Audios
  OBVIOUS
<1>c. [reader EXCEPT !.cancel = TRUE] \in Readers
  OBVIOUS
<1>x. \A p \in {"ended", "failed"} :
        /\ [reader EXCEPT !.at = p] \in Readers
        /\ [samples EXCEPT !.exited = TRUE] \in Samples
  OBVIOUS
<1>h. /\ [samples EXCEPT !.signal = Never(Silence)] \in Samples
      /\ Restarted(watch) \in Watches /\ NoSamples \in Samples
  BY <1>n, <1>t
<1>o. NoReader \in Readers /\ [NoReader EXCEPT !.at = "start"] \in Readers
  BY <1>r
<1>k. UNCHANGED childVars => /\ child' \in [Children -> {"none", "born", "live", "stuck", "dead"}]
                            /\ handle' \in [Children -> {"none", "held", "reaping", "reaped"}]
  OBVIOUS
<1>1. CASE LookFails
  BY <1>1, <1>s DEF LookFails
<1>2. CASE Look
  <2>1. audio' \in Audios
    <3>1. CASE audio.cancel
      BY <1>2, <3>1, <1>g DEF Look
    <3>2. CASE ~audio.cancel
      <4>1. PICK m \in {"yes", "no", "unknown"} :
              audio' = [audio EXCEPT !.at = IF pin.id \notin {0, node} THEN "retire" ELSE "adopt",
                                     !.id = node, !.muted = m]
        BY <1>2, <3>2 DEF Look
      <4>2. CASE pin.id \notin {0, node}
        BY <4>1, <4>2
      <4>3. CASE pin.id \in {0, node}
        BY <4>1, <4>3
      <4> QED
        BY <4>2, <4>3
    <3> QED
      BY <3>1, <3>2
  <2>2. UNCHANGED <<node, last, pin, watch, reader, samples, child, handle, quiet>>
    BY <1>2 DEF Look
  <2> QED
    BY <2>1, <2>2
<1>3. CASE Retire
  <2>1. /\ watch' = Seen(watch) /\ samples' = [samples EXCEPT !.signal = Never(Silence)]
        /\ reader' = [reader EXCEPT !.cancel = TRUE] /\ audio' = [audio EXCEPT !.at = "retiring"]
        /\ UNCHANGED <<node, last, pin, child, handle, quiet>>
    BY <1>3 DEF Retire
  <2>2. audio' \in Audios /\ reader' \in Readers /\ samples' \in Samples /\ watch' \in Watches
    BY <2>1, <1>g, <1>c, <1>h, <1>s
  <2> QED
    BY <2>1, <2>2
<1>4. CASE Retired
  BY <1>4, <1>n, <1>r DEF Retired, Dormant
<1>5. CASE Adopt
  <2>1. watch' \in Watches /\ samples' \in Samples /\ reader' \in Readers
    <3>1. CASE UNCHANGED <<watch, reader, samples>>
      BY <3>1
    <3>2. CASE Starts(watch)
      BY <1>h, <1>o, <3>2 DEF Starts
    <3> QED
      BY <1>5, <3>1, <3>2 DEF Adopt
  <2>2. pin' \in [id : Nat, muted : {"yes", "no", "unknown"}, checked : Nat]
    <3>1. CASE audio.cancel \/ audio.id = 0
      BY <1>5, <3>1 DEF Adopt
    <3>2. CASE ~audio.cancel /\ audio.id # 0 /\ pin.id = 0
      <4>1. pin' = [id |-> audio.id, muted |-> audio.muted, checked |-> 0]
        BY <1>5, <3>2 DEF Adopt
      <4> QED
        BY <4>1
    <3>3. CASE ~audio.cancel /\ audio.id # 0 /\ pin.id # 0
      <4>1. CASE pin.checked = Recheck
        <5>1. pin' = [pin EXCEPT !.muted = audio.muted, !.checked = 0]
          BY <1>5, <3>3, <4>1 DEF Adopt
        <5>2. audio.muted \in {"yes", "no", "unknown"}
          OBVIOUS
        <5> QED
          BY <5>1, <5>2
      <4>2. CASE pin.checked # Recheck
        BY <1>5, <3>3, <4>2 DEF Adopt
      <4> QED
        BY <4>1, <4>2
    <3> QED
      BY <3>1, <3>2, <3>3
  <2>4. audio' \in Audios
    <3>1. CASE pin'.id = 0
      <4>1. audio' = [audio EXCEPT !.at = "wait"]
        BY <1>5, <3>1 DEF Adopt
      <4> QED
        BY <4>1, <1>g
    <3>2. CASE pin'.id # 0
      <4>1. audio' = [audio EXCEPT !.at = "step"]
        BY <1>5, <3>2 DEF Adopt
      <4> QED
        BY <4>1, <1>g
    <3> QED
      BY <3>1, <3>2
  <2>5. UNCHANGED <<node, last, child, handle, quiet>>
    BY <1>5 DEF Adopt
  <2> QED
    BY <2>1, <2>2, <2>4, <2>5
<1>6. CASE Step
  <2>1. Stepped(Seen(watch)) \in Watches
    BY <1>s, <1>t
  <2>2. watch' \in Watches /\ UNCHANGED <<node, last, pin, child, handle>>
    BY <1>6, <2>1 DEF Step
  <2>3. samples' \in Samples
    BY <1>6, <1>h DEF Step
  <2>4. /\ audio' \in {[audio EXCEPT !.at = "restarting"], [audio EXCEPT !.at = "wait"]}
        /\ reader' \in {reader, [reader EXCEPT !.cancel = TRUE]}
        /\ quiet' \in {quiet, quiet + 1}
    <3> DEFINE w == Seen(watch)
    <3>1. CASE NeedsRestart(w)
      BY <1>6, <3>1 DEF Step
    <3>2. CASE ~NeedsRestart(w)
      BY <1>6, <3>2 DEF Step
    <3> QED
      BY <3>1, <3>2
  <2>5. audio' \in Audios
    BY <2>4, <1>g
  <2>6. reader' \in Readers
    BY <2>4, <1>c
  <2>7. quiet' \in Nat
    BY <2>4
  <2> QED
    BY <2>2, <2>3, <2>5, <2>6, <2>7
<1>7. CASE Restart
  <2>1. /\ audio' = [audio EXCEPT !.at = "wait"]
        /\ UNCHANGED <<node, last, pin, child, handle, quiet>>
    BY <1>7 DEF Restart
  <2>2. reader' \in Readers /\ watch' \in Watches /\ samples' \in Samples
    <3>1. CASE reader.at = "failed"
      BY <1>7, <3>1, <1>o DEF Restart
    <3>2. CASE reader.at # "failed"
      BY <1>7, <3>2, <1>h, <1>o DEF Restart, Starts
    <3> QED
      BY <3>1, <3>2
  <2>3. audio' \in Audios
    BY <2>1, <1>g
  <2> QED
    BY <2>1, <2>2, <2>3
<1>8. CASE Wake
  BY <1>8 DEF Wake
<1>9. CASE Ends
  <2>1. /\ audio' = [audio EXCEPT !.at = "ending"]
        /\ UNCHANGED <<node, last, pin, watch, samples, child, handle, quiet>>
    BY <1>9 DEF Ends
  <2>2. reader' \in Readers
    BY <1>9, <1>c DEF Ends
  <2>3. audio' \in Audios
    BY <2>1, <1>g
  <2> QED
    BY <2>1, <2>2, <2>3
<1>10. CASE Ended
  <2>1. /\ audio' = [audio EXCEPT !.at = "done", !.error = @ \/ reader.at = "failed"]
        /\ reader' = NoReader /\ pin' = NoPin
        /\ UNCHANGED <<node, last, watch, samples, child, handle, quiet>>
    BY <1>10 DEF Ended
  <2>2. audio' \in Audios
    BY <2>1
  <2> QED
    BY <2>1, <2>2, <1>n, <1>o
<1>11. CASE Spawns
  <2>1. UNCHANGED <<node, last, audio, pin, watch, quiet>>
    BY <1>11 DEF Spawns
  <2>2. CASE reader.cancel
    <3>1. Exits("ended") /\ UNCHANGED childVars
      BY <1>11, <2>2 DEF Spawns
    <3>2. reader' \in Readers /\ samples' \in Samples
      BY <3>1, <1>x DEF Exits
    <3> QED
      BY <2>1, <3>1, <3>2
  <2>3. CASE ~reader.cancel
    <3>1. PICK c \in Children :
             /\ child' = [child EXCEPT ![c] = "born"]
             /\ handle' = [handle EXCEPT ![c] = "held"]
             /\ reader' = [reader EXCEPT !.at = "reading", !.child = c]
             /\ UNCHANGED samples
      BY <1>11, <2>3 DEF Spawns, Proc!Spawn
    <3>2. reader' \in Readers
      BY <3>1
    <3>3. /\ child' \in [Children -> {"none", "born", "live", "stuck", "dead"}]
          /\ handle' \in [Children -> {"none", "held", "reaping", "reaped"}]
      BY <3>1
    <3> QED
      BY <2>1, <3>1, <3>2, <3>3
  <2> QED
    BY <2>2, <2>3
<1>12. CASE SpawnFails
  <2>1. Exits("failed") /\ UNCHANGED <<node, last, audio, pin, watch, childVars, quiet>>
    BY <1>12 DEF SpawnFails
  <2>2. reader' \in Readers /\ samples' \in Samples
    BY <2>1, <1>x DEF Exits
  <2> QED
    BY <2>1, <2>2
<1>13. ASSUME NEW signal \in BOOLEAN, Reads(signal) PROVE TypeOK'
  <2>1. samples' = [samples EXCEPT !.data = 0, !.signal = IF signal THEN 0 ELSE @]
    BY <1>13 DEF Reads
  <2>2. samples' \in Samples
    BY <2>1
  <2>3. quiet' \in Nat /\ UNCHANGED <<node, last, audio, pin, watch, reader, child, handle>>
    BY <1>13 DEF Reads
  <2> QED
    BY <2>2, <2>3
<1>14. CASE Stops
  <2>1. UNCHANGED <<node, last, audio, pin, watch, quiet>>
    BY <1>14 DEF Stops
  <2>2. reader' \in Readers /\ samples' \in Samples
    BY <1>14, <1>x DEF Stops, Exits
  <2>3. /\ child' \in [Children -> {"none", "born", "live", "stuck", "dead"}]
        /\ handle' \in [Children -> {"none", "held", "reaping", "reaped"}]
    BY <1>14 DEF Stops, Proc!Terminate
  <2> QED
    BY <2>1, <2>2, <2>3
<1>15. CASE Replug
  <2>1. node' \in Nat /\ last' \in Nat
    BY <1>15 DEF Replug
  <2> QED
    BY <1>15, <2>1 DEF Replug
<1>19. CASE Stop
  <2>1. audio' \in Audios
    BY <1>19 DEF Stop
  <2> QED
    BY <1>19, <2>1 DEF Stop
<1>16. CASE ChildStarts \/ ChildFails \/ ChildLeaves
  BY <1>16 DEF ChildStarts, ChildFails, ChildLeaves, Proc!Protect, Proc!Dies, Proc!Sticks,
               Proc!Released
<1>17. CASE Tick
  <2>1. \A a \in Nat : \A limit : Older(a, limit) \in Nat
    BY DEF Older
  <2>2. watch' \in [started : Nat, data : Nat, silence : Nat, received : BOOLEAN, spent : BOOLEAN]
    BY <1>17, <2>1 DEF Tick
  <2>3. samples' \in [data : Nat, signal : Nat, exited : BOOLEAN]
    BY <1>17, <2>1 DEF Tick
  <2>4. pin' \in [id : Nat, muted : {"yes", "no", "unknown"}, checked : Nat]
    <3>1. CASE pin.id = 0
      BY <1>17, <3>1 DEF Tick
    <3>2. CASE pin.id # 0
      BY <1>17, <2>1, <3>2 DEF Tick
    <3> QED
      BY <3>1, <3>2
  <2>5. UNCHANGED <<node, last, audio, reader, child, handle, quiet>>
    BY <1>17 DEF Tick
  <2> QED
    BY <2>2, <2>3, <2>4, <2>5
<1>18. CASE UNCHANGED vars
  BY <1>18 DEF vars
<1> QED
  BY <1>1, <1>2, <1>3, <1>4, <1>5, <1>6, <1>7, <1>8, <1>9, <1>10, <1>11, <1>12, <1>13, <1>14,
     <1>15, <1>16, <1>17, <1>18, <1>19 DEF Next, Loop, Reader

\* The world does not touch what the reader holds: a child may start, die or
\* be stuck, and then it records no more.
LEMMA WorldKeepsHeld ==
    ASSUME TypeOK, Held, Kept, Replug \/ Stop \/ Tick \/ ChildStarts \/ ChildFails \/ ChildLeaves
    PROVE  Held' /\ Kept'
<1> USE DEF TypeOK, Held, Kept, worldVars, childVars
<1>1. CASE Replug \/ Stop \/ Tick
  BY <1>1 DEF Replug, Stop, Tick
<1>2. CASE ChildStarts \/ ChildFails \/ ChildLeaves
  BY <1>2 DEF ChildStarts, ChildFails, ChildLeaves, Proc!Protect, Proc!Dies, Proc!Sticks,
              Proc!Released
<1> QED
  BY <1>1, <1>2

\* The strengthening is inductive.
LEMMA Invariant == Spec => []IInv
<1>1. Init => IInv
  <2> SUFFICES ASSUME Init PROVE IInv
    OBVIOUS
  <2>1. TypeOK
    BY PinsAssumption DEF Init, TypeOK, Points, NoPin, NewWatch, NoReader, NoSamples, Never,
                          Proc!ProcessesInit
  <2>2. Held /\ Kept /\ Remembered
    BY DEF Init, Held, Kept, Remembered, Proc!ProcessesInit, NoReader, NoPin
  <2> QED
    BY <2>1, <2>2 DEF IInv
<1>2. IInv /\ [Next]_vars => IInv'
  <2> SUFFICES ASSUME IInv, [Next]_vars PROVE IInv'
    OBVIOUS
  <2>1. TypeOK' /\ Remembered'
    BY TypeStep, RememberedStep DEF IInv
  <2>2. Held' /\ Kept'
    <3>1. CASE Loop
      BY <3>1, LoopKeepsReader, KeptHeld DEF IInv
    <3>2. CASE Reader
      BY <3>2, ReaderKeepsHeld DEF IInv
    <3>3. CASE Replug \/ Stop \/ Tick \/ ChildStarts \/ ChildFails \/ ChildLeaves
      BY <3>3, WorldKeepsHeld DEF IInv
    <3>4. CASE UNCHANGED vars
      BY <3>4 DEF IInv, vars, childVars, Held, Kept
    <3> QED
      BY <3>1, <3>2, <3>3, <3>4 DEF Next
  <2> QED
    BY <2>1, <2>2 DEF IInv
<1> QED
  BY <1>1, <1>2, PTL DEF Spec

\* However often the reader is restarted and the input replugged, no two
\* children record it, apart from those that hang in the kernel, and none does
\* when the daemon has stopped.
THEOREM OneReader == Spec => []OnePin
<1>1. IInv => OnePin
  BY DEF IInv, Held, Kept, OnePin, Recording
<1> QED
  BY <1>1, Invariant, PTL

\* Until the input is heard again its silence costs one restart, through
\* restarts for other reasons, mutes and replugs.
THEOREM OneRestartPerSilence == Spec => []SilenceOnce
<1>1. IInv => SilenceOnce
  BY DEF IInv, TypeOK, Remembered, SilenceOnce
<1> QED
  BY <1>1, Invariant, PTL
=============================================================================
