------------------------------- MODULE Watch --------------------------------
(***************************************************************************)
(* "aci watch": watch_until_quiet of the aci-watch crate inside the loop   *)
(* of the command.  A watcher is registered for the time of one pass; the  *)
(* pass collects events until the stream was quiet for Debounce, or until  *)
(* MaxWait is over; then the files of the events are indexed again.        *)
(*                                                                         *)
(* Time is counted in ticks, and only while a pass runs.  The thread of    *)
(* the command may be slow: any number of ticks may pass before its next   *)
(* step.  Files are edited, removed and put back at any time.              *)
(***************************************************************************)
EXTENDS Naturals

CONSTANTS
    Files,       \* the files of the repository
    Filtered,    \* what else is under its root and gets events: directories, the
                 \* files of the store, and whatever path_candidate refuses
    MaxVersion,  \* bound: an edit past this version only touches the file
    Debounce,    \* --debounce-ms, in ticks
    MaxWait      \* --max-wait-ms, in ticks

ASSUME WatchAssumption ==
    /\ MaxVersion \in Nat \ {0} /\ Debounce \in Nat /\ MaxWait \in Nat
    /\ Files \cap Filtered = {}

VARIABLES
    once,     \* --once: one batch of changes and exit
    initial,  \* the full index before the first pass is still to be done
    present,  \* the files that are on disk
    source,   \* the version of each file on disk, or of when it last was
    indexed,  \* the version of each file in the store, 0 when it has none
    phase,    \* where the command is
    channel,  \* paths with an event that was sent and not received
    batch,    \* paths of the events received in this pass, then files to index
    quiet,    \* ticks since the last event was received, Debounce at most
    left,     \* ticks to the deadline of this pass
    timer,    \* ticks until recv_timeout gives up
    read,     \* the version of each file of the batch that was indexed
    missed    \* files changed since they were last read without being reported

vars == <<once, initial, present, source, indexed, phase, channel, batch, quiet, left, timer, read, missed>>
files == <<once, initial, present, source, indexed, read>>
clocks == <<quiet, left, timer>>

Listening == phase \in {"checking", "waiting"}
Lesser(m, n) == IF m < n THEN m ELSE n
-----------------------------------------------------------------------------
\* The command starts with a full index, or with --no-initial on a store that
\* is taken to be up to date.
Init ==
    /\ once \in BOOLEAN /\ initial \in BOOLEAN
    /\ present = Files
    /\ source = [f \in Files |-> 1]
    /\ channel = {} /\ missed = {}
    /\ quiet = 0 /\ left = 0 /\ timer = 0
    /\ \/ initial /\ phase = "reindexing" /\ batch = Files /\ indexed = [f \in Files |-> 0]
       \/ ~initial /\ phase = "arming" /\ batch = {} /\ indexed = source
    /\ read = indexed

\* The world around the command.

Report(f) ==
    IF Listening
    THEN channel' = channel \cup {f} /\ UNCHANGED missed
    ELSE missed' = missed \cup {f} /\ UNCHANGED channel

\* A file that was not there is created.
Edit(f) ==
    /\ source[f] < MaxVersion
    /\ source' = [source EXCEPT ![f] = @ + 1]
    /\ present' = present \cup {f}
    /\ Report(f)
    /\ UNCHANGED <<once, initial, indexed, phase, batch, clocks, read>>

Remove(f) ==
    /\ f \in present
    /\ present' = present \ {f}
    /\ Report(f)
    /\ UNCHANGED <<once, initial, source, indexed, phase, batch, clocks, read>>

\* The file comes back as it was, say by switching branches.
PutBack(f) ==
    /\ f \notin present
    /\ present' = present \cup {f}
    /\ Report(f)
    /\ UNCHANGED <<once, initial, source, indexed, phase, batch, clocks, read>>

\* An event about a file that did not change, or about any other path.
Touch(p) ==
    /\ Listening
    /\ p \notin channel
    /\ channel' = channel \cup {p}
    /\ UNCHANGED <<files, phase, batch, clocks, missed>>

Tick ==
    /\ Listening
    /\ quiet' = Lesser(quiet + 1, Debounce)
    /\ left' = IF left = 0 THEN 0 ELSE left - 1
    /\ timer' = IF timer = 0 THEN 0 ELSE timer - 1
    /\ clocks' # clocks
    /\ UNCHANGED <<files, phase, channel, batch, missed>>

\* watch_until_quiet.

Register ==
    /\ phase = "arming"
    /\ phase' = "checking"
    /\ left' = MaxWait
    /\ quiet' = 0
    /\ timer' = 0
    /\ UNCHANGED <<files, channel, batch, missed>>

\* Mutations.  Each operator named ..._Mut... is a plausible wrong version of the
\* definition that follows it; PROJECT.json names the property it breaks.
EndPass_MutGoesOn ==
    /\ phase' = IF batch # {} THEN "filtering" ELSE "arming"
    /\ channel' = {}
    /\ missed' = missed \cup (channel \ Filtered)
    /\ UNCHANGED <<files, batch, clocks>>

\* The watcher and its channel are dropped with whatever is still in it.  After
\* a pass without an event the command goes into the next one, or ends.
EndPass ==
    /\ phase' = IF batch # {} THEN "filtering" ELSE IF once THEN "done" ELSE "arming"
    /\ channel' = {}
    /\ missed' = missed \cup (channel \ Filtered)
    /\ UNCHANGED <<files, batch, clocks>>

PassIsOver_MutNoDeadline == batch # {} /\ quiet >= Debounce

PassIsOver == left = 0 \/ (batch # {} /\ quiet >= Debounce)

CheckClock ==
    /\ phase = "checking"
    /\ PassIsOver
    /\ EndPass

StartWaiting_MutOneTick ==
    /\ phase = "checking"
    /\ ~PassIsOver
    /\ timer' = Lesser(1, left)
    /\ phase' = "waiting"
    /\ UNCHANGED <<files, channel, batch, quiet, left, missed>>

StartWaiting_MutWholeWait ==
    /\ phase = "checking"
    /\ ~PassIsOver
    /\ timer' = left
    /\ phase' = "waiting"
    /\ UNCHANGED <<files, channel, batch, quiet, left, missed>>

StartWaiting ==
    /\ phase = "checking"
    /\ ~PassIsOver
    /\ timer' = Lesser(Debounce, left)
    /\ phase' = "waiting"
    /\ UNCHANGED <<files, channel, batch, quiet, left, missed>>

Receive_MutKeepsLast(p) ==
    /\ phase = "waiting"
    /\ p \in channel
    /\ channel' = channel \ {p}
    /\ batch' = {p}
    /\ quiet' = 0
    /\ phase' = "checking"
    /\ UNCHANGED <<files, left, timer, missed>>

Receive(p) ==
    /\ phase = "waiting"
    /\ p \in channel
    /\ channel' = channel \ {p}
    /\ batch' = batch \cup {p}
    /\ quiet' = 0
    /\ phase' = "checking"
    /\ UNCHANGED <<files, left, timer, missed>>

\* recv_timeout prefers an event that is there over the end of its time.
TimeOut ==
    /\ phase = "waiting"
    /\ timer = 0
    /\ channel = {}
    /\ \/ batch # {} /\ EndPass
       \/ /\ batch = {}
          /\ phase' = "checking"
          /\ UNCHANGED <<files, channel, batch, clocks, missed>>

\* The watcher reports an error: the pass and the command end with it.
WatcherFails ==
    /\ phase = "waiting"
    /\ phase' = "stopped"
    /\ UNCHANGED <<files, channel, batch, clocks, missed>>

\* Of the paths in the batch the candidates that are a file now and are not in
\* the store are kept; if there are none the command goes on, with --once too.
Kept == (batch \ Filtered) \cap present

FilterFiles ==
    /\ phase = "filtering"
    /\ batch' = Kept
    /\ phase' = IF batch' = {} THEN "arming" ELSE "reindexing"
    /\ UNCHANGED <<files, channel, clocks, missed>>

\* reindex_changed, or the initial full index: the files that are still there
\* are read, and with them files that depend on them; later the store is
\* written.  Either may fail and end the command.
ReadFiles ==
    /\ phase = "reindexing"
    /\ \E dependents \in SUBSET present : batch' = (batch \cap present) \cup dependents
    /\ read' = [f \in Files |-> IF f \in batch' THEN source[f] ELSE read[f]]
    /\ missed' = missed \ batch'
    /\ phase' = "writing"
    /\ UNCHANGED <<once, initial, present, source, indexed, channel, clocks>>

\* The initial index is not the one batch that --once waits for.
WriteStore ==
    /\ phase = "writing"
    /\ indexed' = [f \in Files |-> IF f \in batch THEN read[f] ELSE indexed[f]]
    /\ batch' = {}
    /\ phase' = IF once /\ ~initial THEN "done" ELSE "arming"
    /\ initial' = FALSE
    /\ UNCHANGED <<once, present, source, read, channel, clocks, missed>>

ReindexFails ==
    /\ phase \in {"reindexing", "writing"}
    /\ phase' = "stopped"
    /\ UNCHANGED <<files, channel, batch, clocks, missed>>
-----------------------------------------------------------------------------
World ==
    \/ \E f \in Files : Edit(f) \/ Remove(f) \/ PutBack(f)
    \/ \E p \in Files \cup Filtered : Touch(p)
Command ==
    \/ Register \/ CheckClock \/ StartWaiting
    \/ \E p \in Files \cup Filtered : Receive(p)
    \/ TimeOut \/ FilterFiles \/ ReadFiles \/ WriteStore
Failure == WatcherFails \/ ReindexFails
Next == World \/ Tick \/ Command \/ Failure

Spec == Init /\ [][Next]_vars

\* The command is scheduled and time passes; nothing obliges anyone to edit.
FairSpec == Spec /\ WF_vars(Command) /\ WF_vars(Tick)
-----------------------------------------------------------------------------
(* Properties.                                                             *)

\* Types and the bounds of the clocks.
TypeOK ==
    /\ source \in [Files -> 1 .. MaxVersion]
    /\ indexed \in [Files -> 0 .. MaxVersion]
    /\ read \in [Files -> 0 .. MaxVersion]
    /\ once \in BOOLEAN /\ initial \in BOOLEAN
    /\ phase \in {"arming", "checking", "waiting", "filtering", "reindexing", "writing", "done", "stopped"}
    /\ present \subseteq Files
    /\ channel \subseteq Files \cup Filtered /\ batch \subseteq Files \cup Filtered
    /\ phase \in {"reindexing", "writing"} => batch \subseteq Files
    /\ missed \subseteq Files
    /\ quiet \in 0 .. Debounce /\ left \in 0 .. MaxWait /\ timer \in 0 .. Debounce

\* A pass hands over its files only when the stream has been quiet for the
\* debounce interval or the deadline has passed: watch_until_quiet derives
\* that from two clocks and a timer of its own for every wait.
QuietOrLate ==
    [][Listening /\ phase' = "filtering" => quiet = Debounce \/ left = 0]_vars

\* The store is behind the files on disk only for those whose event is waiting,
\* collected or being indexed, and for those that were missed: changed while
\* no pass was listening, or dropped with the channel at the end of one.  That
\* includes files that were gone when their event was handled and came back.
StaleIsExplained ==
    phase # "stopped" =>
        \A f \in present : indexed[f] # source[f] => f \in channel \cup batch \cup missed

\* A pass ends, however fast events keep coming; and with --once so does the
\* command, unless batch after batch has events and no file to index: only
\* removed files, directories, files of the store or paths that are refused.
PassAndCommandEnd ==
    /\ Listening ~> ~Listening
    /\ once => \/ <>(phase \in {"done", "stopped"})
               \/ []<>(phase = "filtering" /\ batch # {} /\ Kept = {})

\* Once changes settle, the changed files are refreshed.
ChangesAreRefreshed ==
    <>[](phase \in {"done", "stopped"} \/ \A f \in present : indexed[f] = source[f])
=============================================================================
