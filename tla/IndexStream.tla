---------------------------- MODULE IndexStream -----------------------------
(***************************************************************************)
(* IndexPipeline::stream_path of the aci-indexer crate, called by a full   *)
(* "aci index": rayon workers index the discovered files and send what     *)
(* they find over a bounded channel; the calling thread receives it, hands *)
(* the partitions to the store writer and adds up the summary; then it     *)
(* joins the producer and the command finishes the writer, which renames   *)
(* what was written into the store part by part.                           *)
(*                                                                         *)
(* A file that cannot be read or is binary, generated or of no known       *)
(* language is an outcome like any other; an adapter may panic on any      *)
(* file; the writer may fail on any partition and in any step of finish.   *)
(* What a reader makes of the store between those steps, or of one that a  *)
(* failed finish left behind, is GraphStore's subject.                     *)
(***************************************************************************)
EXTENDS Naturals, Sequences, FiniteSets

CONSTANTS
    Candidates,  \* the files discover_files found
    Outcome,     \* what index_file makes of each of them
    Workers,     \* the threads of the pool
    Capacity,    \* of the channel: twice the number of workers
    Nothing,     \* no item; what a part of the store held before the run
    Gone         \* what it holds when it was removed, wholly or in part

\* The parts of the store in the order in which finish comes to them, and
\* those of them that are directories, removed before the new one is renamed.
StoreParts == <<"pack", "symbols", "manifest", "dependencies", "snapshot", "log">>
Directories == {"symbols", "dependencies"}

Outcomes == {"partition", "none", "skipped", "diagnostic"}

ASSUME StreamAssumption ==
    /\ Outcome \in [Candidates -> Outcomes]
    /\ Capacity \in Nat
    /\ Nothing \notin Candidates

VARIABLES
    todo,       \* candidates no worker has taken
    step,       \* what each worker is doing: "idle", "indexing" or "sending"
    item,       \* the candidate it does it with
    queue,      \* the channel
    open,       \* the receiver has not been dropped
    cancelled,  \* a send failed: try_for_each takes no more items
    panicked,   \* a worker panicked
    phase,      \* where the calling thread is
    sinkError,  \* the writer refused a partition
    summary,    \* IndexSummary: how many files had each outcome
    written,    \* partitions the writer has accepted, in order
    answer,     \* what stream_path returned
    renewed,    \* how many parts of the store finish has dealt with
    cleared     \* the directory it is at is removed

producer == <<todo, step, item, cancelled, panicked>>
finishing == <<renewed, cleared>>
consumer == <<phase, sinkError, summary, written, answer, finishing>>
vars == <<producer, queue, open, consumer>>

Partitions == {c \in Candidates : Outcome[c] = "partition"}
Counted == Outcomes \ {"none"}
Elements(seq) == {seq[i] : i \in DOMAIN seq}
Unique(seq) == \A i, j \in DOMAIN seq : seq[i] = seq[j] => i = j
-----------------------------------------------------------------------------
Init ==
    /\ todo = Candidates
    /\ step = [w \in Workers |-> "idle"]
    /\ item = [w \in Workers |-> Nothing]
    /\ queue = <<>>
    /\ open = TRUE
    /\ cancelled = FALSE
    /\ panicked = FALSE
    /\ phase = "receiving"
    /\ sinkError = FALSE
    /\ summary = [outcome \in Counted |-> 0]
    /\ written = <<>>
    /\ answer = "none"
    /\ renewed = 0
    /\ cleared = FALSE

(* Workers.                                                                *)

Release(w) ==
    /\ step' = [step EXCEPT ![w] = "idle"]
    /\ item' = [item EXCEPT ![w] = Nothing]

\* Mutations.  Each operator named ..._Mut... is a plausible wrong version of the
\* definition that follows it; PROJECT.json names the property it breaks.
Take_MutShares(w, c) ==
    /\ step[w] = "idle"
    /\ ~cancelled
    /\ c \in todo
    /\ item' = [item EXCEPT ![w] = c]
    /\ step' = [step EXCEPT ![w] = "indexing"]
    /\ UNCHANGED <<todo, cancelled, panicked, queue, open, consumer>>

Take(w, c) ==
    /\ step[w] = "idle"
    /\ ~cancelled
    /\ c \in todo
    /\ todo' = todo \ {c}
    /\ item' = [item EXCEPT ![w] = c]
    /\ step' = [step EXCEPT ![w] = "indexing"]
    /\ UNCHANGED <<cancelled, panicked, queue, open, consumer>>

IndexFile(w) ==
    /\ step[w] = "indexing"
    /\ step' = [step EXCEPT ![w] = "sending"]
    /\ UNCHANGED <<todo, item, cancelled, panicked, queue, open, consumer>>

\* The panic unwinds the batch of files the worker was going through; the
\* batches of the other workers go on, and so may this one's with another.
Panic(w) ==
    /\ step[w] = "indexing"
    /\ Release(w)
    /\ panicked' = TRUE
    /\ \E rest \in SUBSET todo : todo' = todo \ rest
    /\ UNCHANGED <<cancelled, queue, open, consumer>>

Send_MutUnbounded(w) ==
    /\ step[w] = "sending"
    /\ open
    /\ queue' = Append(queue, item[w])
    /\ Release(w)
    /\ UNCHANGED <<todo, cancelled, panicked, open, consumer>>

\* A send blocks while the channel is full.
Send(w) ==
    /\ step[w] = "sending"
    /\ open
    /\ Len(queue) < Capacity
    /\ queue' = Append(queue, item[w])
    /\ Release(w)
    /\ UNCHANGED <<todo, cancelled, panicked, open, consumer>>

SendFails(w) ==
    /\ step[w] = "sending"
    /\ ~open
    /\ cancelled' = TRUE
    /\ Release(w)
    /\ UNCHANGED <<todo, panicked, queue, open, consumer>>

\* Every sender is dropped and the producer thread can be joined.
ProducerDone ==
    /\ todo = {} \/ cancelled
    /\ \A w \in Workers : step[w] = "idle"

(* The calling thread.                                                     *)

Receive(outcome) ==
    /\ phase = "receiving"
    /\ queue # <<>>
    /\ Outcome[Head(queue)] = outcome
    /\ queue' = Tail(queue)

Count(outcome) == summary' = [summary EXCEPT ![outcome] = @ + 1]

WritePartition ==
    /\ Receive("partition")
    /\ written' = Append(written, Head(queue))
    /\ Count("partition")
    /\ UNCHANGED <<producer, open, phase, sinkError, answer, finishing>>

\* on_partition returns an error: the loop ends.
RefusePartition ==
    /\ Receive("partition")
    /\ sinkError' = TRUE
    /\ phase' = "dropping"
    /\ UNCHANGED <<producer, open, summary, written, answer, finishing>>

CountOther ==
    /\ \/ Receive("none") /\ UNCHANGED summary
       \/ Receive("skipped") /\ Count("skipped")
       \/ Receive("diagnostic") /\ Count("diagnostic")
    /\ UNCHANGED <<producer, open, phase, sinkError, written, answer, finishing>>

EndOfStream_MutIgnoresSenders ==
    /\ phase = "receiving"
    /\ queue = <<>>
    /\ todo = {}
    /\ phase' = "dropping"
    /\ UNCHANGED <<producer, queue, open, sinkError, summary, written, answer, finishing>>

\* recv fails once the channel is empty and the last sender is gone.
EndOfStream ==
    /\ phase = "receiving"
    /\ queue = <<>>
    /\ ProducerDone
    /\ phase' = "dropping"
    /\ UNCHANGED <<producer, queue, open, sinkError, summary, written, answer, finishing>>

DropReceiver_MutForgotten ==
    /\ phase = "dropping"
    /\ phase' = "joining"
    /\ UNCHANGED <<producer, queue, open, sinkError, summary, written, answer, finishing>>

DropReceiver ==
    /\ phase = "dropping"
    /\ phase' = "joining"
    /\ open' = FALSE
    /\ queue' = <<>>
    /\ UNCHANGED <<producer, sinkError, summary, written, answer, finishing>>

Answer_MutProducerFirst ==
    IF panicked THEN "panicked"
    ELSE IF cancelled THEN "closed"
    ELSE IF sinkError THEN "sink_error"
    ELSE "ok"
Answer_MutIgnoresPanic ==
    IF sinkError THEN "sink_error"
    ELSE IF cancelled THEN "closed"
    ELSE "ok"

\* The writer's error comes before whatever the producer returned.
Answer ==
    IF sinkError THEN "sink_error"
    ELSE IF panicked THEN "panicked"
    ELSE IF cancelled THEN "closed"
    ELSE "ok"

JoinProducer ==
    /\ phase = "joining"
    /\ ProducerDone
    /\ phase' = "returned"
    /\ answer' = Answer
    /\ UNCHANGED <<producer, queue, open, sinkError, summary, written, finishing>>

\* run_index_command: only an Ok reaches PartitionWriter::finish.
BeginFinish ==
    /\ phase = "returned"
    /\ answer = "ok"
    /\ phase' = "finishing"
    /\ UNCHANGED finishing

\* remove_dir_all, before the rename of a directory.
RemoveDirectory ==
    /\ phase = "finishing"
    /\ renewed < Len(StoreParts)
    /\ StoreParts[renewed + 1] \in Directories
    /\ ~cleared
    /\ cleared' = TRUE
    /\ UNCHANGED <<phase, renewed>>

\* A rename into the store; for snapshot.json and delta.jsonl the removal that
\* stops readers from preferring them to the manifest.
RenewPart ==
    /\ phase = "finishing"
    /\ renewed < Len(StoreParts)
    /\ StoreParts[renewed + 1] \in Directories => cleared
    /\ renewed' = renewed + 1
    /\ cleared' = FALSE
    /\ UNCHANGED phase

\* A flush, a removal or a rename fails: the rest is left as it is.
FinishFails ==
    /\ phase = "finishing"
    /\ renewed < Len(StoreParts)
    /\ phase' = "failed"
    /\ UNCHANGED finishing

EndFinish ==
    /\ phase = "finishing"
    /\ renewed = Len(StoreParts)
    /\ phase' = "published"
    /\ UNCHANGED finishing

FinishWriter ==
    /\ BeginFinish \/ RemoveDirectory \/ RenewPart \/ FinishFails \/ EndFinish
    /\ UNCHANGED <<producer, queue, open, sinkError, summary, written, answer>>
-----------------------------------------------------------------------------
Work(w) ==
    \/ \E c \in Candidates : Take(w, c)
    \/ IndexFile(w) \/ Panic(w) \/ Send(w) \/ SendFails(w)
Consume ==
    \/ WritePartition \/ RefusePartition \/ CountOther
    \/ EndOfStream \/ DropReceiver \/ JoinProducer \/ FinishWriter
Next == (\E w \in Workers : Work(w)) \/ Consume

Spec == Init /\ [][Next]_vars

\* Every thread is scheduled, and index_file returns or panics.
FairSpec == Spec /\ WF_vars(Consume) /\ \A w \in Workers : WF_vars(Work(w))
-----------------------------------------------------------------------------
(* Properties.                                                             *)

\* stream_path has returned.
Returned == {"returned", "finishing", "failed", "published"}

\* Types, and the bound of the channel.
TypeOK ==
    /\ todo \subseteq Candidates
    /\ step \in [Workers -> {"idle", "indexing", "sending"}]
    /\ item \in [Workers -> Candidates \cup {Nothing}]
    /\ queue \in Seq(Candidates) /\ Len(queue) <= Capacity
    /\ open \in BOOLEAN /\ cancelled \in BOOLEAN
    /\ panicked \in BOOLEAN /\ sinkError \in BOOLEAN
    /\ phase \in {"receiving", "dropping", "joining"} \cup Returned
    /\ summary \in [Counted -> Nat]
    /\ written \in Seq(Candidates)
    /\ answer \in {"none", "ok", "sink_error", "panicked", "closed"}
    /\ renewed \in 0 .. Len(StoreParts)
    /\ cleared \in BOOLEAN

Busy == {w \in Workers : step[w] # "idle"}
Held == {item[w] : w \in Busy}

\* A candidate is in one place at most: still to do, with one worker, once in
\* the channel, or once in the pack.  The packed record numbers of the
\* manifest and the symbol index rely on no file being written twice.
OneCopy ==
    /\ \A v, w \in Busy : item[v] = item[w] => v = w
    /\ Unique(queue)
    /\ Unique(written)
    /\ todo \cap Held = {}
    /\ todo \cap Elements(queue) = {}
    /\ todo \cap Elements(written) = {}
    /\ Held \cap Elements(queue) = {}
    /\ Held \cap Elements(written) = {}
    /\ Elements(queue) \cap Elements(written) = {}

\* Ok means that every candidate was received and counted, however the
\* workers interleaved and wherever the channel was full.
SummaryIsComplete ==
    answer = "ok" =>
        /\ Elements(written) = Partitions
        /\ \A outcome \in Counted :
                summary[outcome] = Cardinality({c \in Candidates : Outcome[c] = outcome})

\* A failed send is never what the caller is told: it only happens after the
\* receiver was dropped, and then the writer's own error is the answer.
ClosedIsNeverTheAnswer == answer # "closed"

\* The store, part by part, and what the command makes of the run.
Store ==
    [i \in 1 .. Len(StoreParts) |->
        IF i <= renewed THEN Elements(written)
        ELSE IF cleared /\ i = renewed + 1 THEN Gone
        ELSE Nothing]
CommandFailed == phase = "failed" \/ (phase = "returned" /\ answer # "ok")

Run == INSTANCE IndexRun WITH
    Parts <- Len(StoreParts),
    Wanted <- Partitions,
    Old <- Nothing,
    store <- Store,
    answer <- IF phase = "published" THEN "ok"
              ELSE IF CommandFailed THEN "error" ELSE "running"

\* Together with the store writer: whatever fails in the stream, nothing of it
\* gets into the store; finish puts the partitions of all files into one part
\* after the other and may stop with an error at any of them; and Ok means that
\* every part holds all the partitions.
PublishesWholeRuns == Run!Spec

\* stream_path returns, whatever fails and however full the channel is when
\* it does: no worker stays blocked on a channel nobody reads.
StreamReturns == <>(phase \in Returned)
=============================================================================
