------------------------- MODULE IndexStreamProofs --------------------------
(***************************************************************************)
(* Theorems about IndexStream for every set of candidates, every outcome   *)
(* of indexing them, every number of workers and every channel capacity.   *)
(***************************************************************************)
EXTENDS IndexStream, FiniteSetTheorems, TLAPS

-----------------------------------------------------------------------------
(* Sequences without repetition.                                           *)

\* Sending or writing one more item adds it to the elements, and adds no
\* repetition when it was not there.
LEMMA AppendElements ==
    ASSUME NEW S, NEW seq \in Seq(S), NEW e \in S
    PROVE  /\ Append(seq, e) \in Seq(S)
           /\ Elements(Append(seq, e)) = Elements(seq) \cup {e}
           /\ Unique(seq) /\ e \notin Elements(seq) => Unique(Append(seq, e))
<1>1. Append(seq, e) \in Seq(S) /\ DOMAIN Append(seq, e) = 1 .. Len(seq) + 1
  OBVIOUS
<1>2. /\ \A i \in DOMAIN seq : i \in DOMAIN Append(seq, e) /\ Append(seq, e)[i] = seq[i]
      /\ Len(seq) + 1 \in DOMAIN Append(seq, e)
      /\ Append(seq, e)[Len(seq) + 1] = e
      /\ \A i \in DOMAIN Append(seq, e) : i \in DOMAIN seq \/ i = Len(seq) + 1
  OBVIOUS
<1>3. Elements(Append(seq, e)) = Elements(seq) \cup {e}
  BY <1>2 DEF Elements
<1>4. Unique(seq) /\ e \notin Elements(seq) => Unique(Append(seq, e))
  BY <1>2 DEF Elements, Unique
<1>5. QED
  BY <1>1, <1>3, <1>4

\* Nothing is in an empty channel, and it is within any bound.
LEMMA EmptyQueue ==
    ASSUME NEW S
    PROVE  /\ <<>> \in Seq(S)
           /\ Len(<<>>) = 0
           /\ \A n \in Nat : 0 <= n
           /\ Elements(<<>>) = {}
           /\ Unique(<<>>)
BY DEF Elements, Unique

\* Receiving takes the head out, for good when there is no repetition.
LEMMA TailElements ==
    ASSUME NEW S, NEW seq \in Seq(S), seq # <<>>
    PROVE  /\ Head(seq) \in S
           /\ Tail(seq) \in Seq(S)
           /\ Len(Tail(seq)) <= Len(seq)
           /\ Elements(seq) = {Head(seq)} \cup Elements(Tail(seq))
           /\ Unique(seq) => Unique(Tail(seq)) /\ Head(seq) \notin Elements(Tail(seq))
<1>1. Tail(seq) \in Seq(S) /\ Len(Tail(seq)) = Len(seq) - 1 /\ Len(seq) \in Nat \ {0}
  OBVIOUS
<1>2. Head(seq) \in S /\ Head(seq) = seq[1] /\ 1 \in DOMAIN seq
  OBVIOUS
<1>3. \A i \in DOMAIN Tail(seq) : Tail(seq)[i] = seq[i + 1] /\ i + 1 \in DOMAIN seq /\ i + 1 # 1
  OBVIOUS
<1>4. \A i \in DOMAIN seq : i = 1 \/ (i - 1 \in DOMAIN Tail(seq) /\ Tail(seq)[i - 1] = seq[i])
  OBVIOUS
<1>5. Elements(seq) = {Head(seq)} \cup Elements(Tail(seq))
  <2>1. Elements(seq) \subseteq {Head(seq)} \cup Elements(Tail(seq))
    BY <1>2, <1>4 DEF Elements
  <2>2. {Head(seq)} \cup Elements(Tail(seq)) \subseteq Elements(seq)
    BY <1>2, <1>3 DEF Elements
  <2>3. QED
    BY <2>1, <2>2
<1>6. ASSUME Unique(seq)
      PROVE  Unique(Tail(seq)) /\ Head(seq) \notin Elements(Tail(seq))
  <2>1. \A i, j \in DOMAIN Tail(seq) : i \in Nat /\ j \in Nat /\ (i + 1 = j + 1 => i = j)
    OBVIOUS
  <2>2. Unique(Tail(seq))
    BY <1>3, <1>6, <2>1 DEF Unique
  <2>3. Head(seq) \notin Elements(Tail(seq))
    BY <1>2, <1>3, <1>6 DEF Unique, Elements
  <2>4. QED
    BY <2>2, <2>3
<1>7. QED
  BY <1>1, <1>2, <1>5, <1>6

-----------------------------------------------------------------------------
(* Type correctness.                                                       *)

\* A worker holds an item exactly while it is busy.
ItemWhileBusy == \A w \in Workers : step[w] = "idle" <=> item[w] = Nothing
TypeInv == TypeOK /\ ItemWhileBusy

\* Workers preserve the types and the channel bound.
LEMMA WorkTypes ==
    ASSUME TypeInv, NEW w \in Workers, Work(w)
    PROVE  TypeInv'
<1> USE StreamAssumption DEF TypeInv, TypeOK, ItemWhileBusy, producer, consumer, finishing
<1>1. ASSUME NEW c \in Candidates, Take(w, c) PROVE TypeInv'
  BY <1>1 DEF Take
<1>2. CASE IndexFile(w)
  BY <1>2 DEF IndexFile
<1>3. CASE Panic(w)
  BY <1>3 DEF Panic, Release
<1>4. CASE Send(w)
  <2>1. item[w] \in Candidates
    BY <1>4 DEF Send
  <2>2. queue' \in Seq(Candidates) /\ Len(queue') = Len(queue) + 1 /\ Len(queue) + 1 <= Capacity
    BY <1>4, <2>1 DEF Send
  <2>3. QED
    BY <1>4, <2>2 DEF Send, Release
<1>5. CASE SendFails(w)
  BY <1>5 DEF SendFails, Release
<1>6. QED
  BY <1>1, <1>2, <1>3, <1>4, <1>5 DEF Work

\* The calling thread preserves them.
LEMMA ConsumeTypes ==
    ASSUME TypeInv, Consume
    PROVE  TypeInv'
<1> USE StreamAssumption DEF TypeInv, TypeOK, ItemWhileBusy, producer, consumer, finishing, Returned
<1>1. ASSUME queue # <<>>, queue' = Tail(queue)
      PROVE  Head(queue) \in Candidates /\ queue' \in Seq(Candidates) /\ Len(queue') <= Capacity
  BY <1>1, TailElements
<1>2. CASE WritePartition
  <2>1. written' \in Seq(Candidates)
    BY <1>1, <1>2 DEF WritePartition, Receive
  <2>2. summary' \in [Counted -> Nat]
    BY <1>2 DEF WritePartition, Count, Counted, Outcomes
  <2>3. QED
    BY <1>1, <1>2, <2>1, <2>2 DEF WritePartition, Receive
<1>3. CASE RefusePartition
  BY <1>1, <1>3 DEF RefusePartition, Receive
<1>4. CASE CountOther
  <2>1. summary' \in [Counted -> Nat]
    BY <1>4 DEF CountOther, Count, Counted, Outcomes
  <2>2. queue # <<>> /\ queue' = Tail(queue)
    BY <1>4 DEF CountOther, Receive
  <2>3. QED
    BY <1>1, <1>4, <2>1, <2>2 DEF CountOther
<1>5. CASE EndOfStream
  BY <1>5 DEF EndOfStream
<1>6. CASE DropReceiver
  BY <1>6, EmptyQueue DEF DropReceiver
<1>7. CASE JoinProducer
  <2>1. Answer \in {"ok", "sink_error", "panicked", "closed"}
    BY DEF Answer
  <2>2. QED
    BY <1>7, <2>1 DEF JoinProducer
<1>8. CASE FinishWriter
  <2>1. Len(StoreParts) = 6
    BY DEF StoreParts
  <2>2. /\ phase' \in Returned /\ renewed' \in 0 .. Len(StoreParts) /\ cleared' \in BOOLEAN
    <3>1. renewed < Len(StoreParts) => renewed + 1 \in 0 .. Len(StoreParts)
      BY <2>1
    <3>2. /\ phase' \in Returned
          /\ renewed' = renewed \/ (renewed < Len(StoreParts) /\ renewed' = renewed + 1)
          /\ cleared' \in BOOLEAN
      BY <1>8 DEF FinishWriter, BeginFinish, RemoveDirectory, RenewPart, FinishFails, EndFinish
    <3>3. QED
      BY <3>1, <3>2
  <2>3. QED
    BY <1>8, <2>2 DEF FinishWriter
<1>9. QED
  BY <1>2, <1>3, <1>4, <1>5, <1>6, <1>7, <1>8 DEF Consume

\* Every step keeps the types, a stuttering step included.
LEMMA NextTypes == TypeInv /\ [Next]_vars => TypeInv'
<1>1. TypeInv /\ UNCHANGED vars => TypeInv'
  BY DEF TypeInv, TypeOK, ItemWhileBusy, vars, producer, consumer, finishing
<1>2. QED
  BY <1>1, WorkTypes, ConsumeTypes DEF Next

\* At the start everything is to do and nothing is on its way.
LEMMA InitTypes == Init => TypeInv
<1> SUFFICES ASSUME Init PROVE TypeInv
  OBVIOUS
<1>1. queue \in Seq(Candidates) /\ written \in Seq(Candidates) /\ Len(queue) <= Capacity
  BY StreamAssumption, EmptyQueue DEF Init
<1>2. summary \in [Counted -> Nat]
  BY DEF Init
<1>3. renewed \in 0 .. Len(StoreParts) /\ phase \in {"receiving", "dropping", "joining"} \cup Returned
  <2>1. Len(StoreParts) = 6
    BY DEF StoreParts
  <2>2. QED
    BY <2>1 DEF Init
<1>4. QED
  BY StreamAssumption, <1>1, <1>2, <1>3 DEF Init, TypeInv, TypeOK, ItemWhileBusy

\* The types of IndexStream, and the channel never holds more than Capacity.
THEOREM TypeCorrect == Spec => []TypeOK
<1>1. Spec => []TypeInv
  BY InitTypes, NextTypes, PTL DEF Spec
<1>2. TypeInv => TypeOK
  BY DEF TypeInv
<1>3. QED
  BY <1>1, <1>2, PTL
-----------------------------------------------------------------------------
(* One copy of every candidate.                                            *)

\* What the workers hold after a step of one of them.
LEMMA HeldByWorkers ==
    ASSUME TypeInv, OneCopy, NEW w \in Workers
    PROVE  /\ \A c \in Candidates : Take(w, c) =>
                Busy' = Busy \cup {w} /\ Held' = Held \cup {c} /\ w \notin Busy
           /\ IndexFile(w) => Busy' = Busy /\ Held' = Held
           /\ step[w] # "idle" => w \in Busy /\ item[w] \in Held /\ item[w] \in Candidates
           /\ step[w] # "idle" /\ Release(w) =>
                Busy' = Busy \ {w} /\ Held' = Held \ {item[w]}
<1> USE DEF TypeInv, TypeOK, ItemWhileBusy, Busy, Held
<1>1. ASSUME NEW c \in Candidates, Take(w, c)
      PROVE  Busy' = Busy \cup {w} /\ Held' = Held \cup {c} /\ w \notin Busy
  <2>1. Busy' = Busy \cup {w} /\ w \notin Busy
    BY <1>1 DEF Take
  <2>2. item'[w] = c /\ \A v \in Busy : item'[v] = item[v]
    BY <1>1, <2>1 DEF Take
  <2>3. Held' = {item'[v] : v \in Busy \cup {w}}
    BY ONLY <2>1 DEF Held
  <2>4. {item'[v] : v \in Busy \cup {w}} = {item[v] : v \in Busy} \cup {c}
    BY ONLY <2>2
  <2>5. QED
    BY ONLY <2>1, <2>3, <2>4 DEF Held
<1>2. ASSUME IndexFile(w) PROVE Busy' = Busy /\ Held' = Held
  BY <1>2 DEF IndexFile
<1>3. ASSUME step[w] # "idle"
      PROVE  w \in Busy /\ item[w] \in Held /\ item[w] \in Candidates
  BY <1>3
<1>4. ASSUME step[w] # "idle", Release(w)
      PROVE  Busy' = Busy \ {w} /\ Held' = Held \ {item[w]}
  <2>1. Busy' = Busy \ {w} /\ \A v \in Busy \ {w} : item'[v] = item[v]
    BY <1>4 DEF Release
  <2>2. \A v \in Busy \ {w} : item[v] # item[w]
    BY <1>3, <1>4 DEF OneCopy
  <2>3. Held = {item[v] : v \in Busy \ {w}} \cup {item[w]}
    BY <1>3, <1>4
  <2>4. Held' = {item[v] : v \in Busy \ {w}}
    <3>1. Held' = {item'[v] : v \in Busy \ {w}}
      BY ONLY <2>1 DEF Held
    <3>2. QED
      BY ONLY <2>1, <3>1
  <2>5. item[w] \notin {item[v] : v \in Busy \ {w}}
    BY <2>2
  <2>6. QED
    BY ONLY <2>1, <2>3, <2>4, <2>5
<1>5. QED
  BY <1>1, <1>2, <1>3, <1>4

\* No step makes a second copy of a candidate.
LEMMA OneCopyStep == TypeInv /\ OneCopy /\ [Next]_vars => OneCopy'
<1> SUFFICES ASSUME TypeInv, OneCopy, [Next]_vars PROVE OneCopy'
  OBVIOUS
<1>t. queue \in Seq(Candidates) /\ written \in Seq(Candidates)
  BY DEF TypeInv, TypeOK
<1>1. ASSUME NEW w \in Workers, NEW c \in Candidates, Take(w, c) PROVE OneCopy'
  <2>1. /\ Busy' = Busy \cup {w} /\ Held' = Held \cup {c} /\ w \notin Busy
        /\ queue' = queue /\ written' = written /\ todo' = todo \ {c} /\ c \in todo
    BY <1>1, HeldByWorkers DEF Take, consumer
  <2>2. item'[w] = c /\ \A v \in Busy : item'[v] = item[v] /\ item[v] # c
    BY <1>1, <2>1 DEF Take, OneCopy, Held, TypeInv, TypeOK, Busy
  <2>3. \A u, v \in Busy' : item'[u] = item'[v] => u = v
    BY <2>1, <2>2 DEF OneCopy
  <2>4. QED
    BY <2>1, <2>3 DEF OneCopy
<1>2. ASSUME NEW w \in Workers, IndexFile(w) PROVE OneCopy'
  BY <1>2, HeldByWorkers DEF IndexFile, OneCopy, consumer
<1>3. ASSUME NEW w \in Workers, step[w] # "idle", Release(w)
      PROVE  /\ Busy' \subseteq Busy /\ Held' = Held \ {item[w]} /\ item[w] \in Candidates
             /\ item[w] \in Held
             /\ \A u, v \in Busy' : item'[u] = item'[v] => u = v
  <2>1. Busy' = Busy \ {w} /\ Held' = Held \ {item[w]} /\ item[w] \in Held /\ item[w] \in Candidates
    BY <1>3, HeldByWorkers
  <2>2. \A v \in Busy \ {w} : item'[v] = item[v]
    BY <1>3 DEF Release, TypeInv, TypeOK, Busy
  <2>3. QED
    BY <2>1, <2>2 DEF OneCopy
<1>4. ASSUME NEW w \in Workers, Panic(w) PROVE OneCopy'
  <2>1. step[w] # "idle" /\ Release(w) /\ todo' \subseteq todo /\ queue' = queue /\ written' = written
    BY <1>4 DEF Panic, consumer
  <2>2. QED
    BY <1>3, <2>1 DEF OneCopy
<1>5. ASSUME NEW w \in Workers, Send(w) PROVE OneCopy'
  <2>1. /\ step[w] # "idle" /\ Release(w) /\ todo' = todo /\ written' = written
        /\ queue' = Append(queue, item[w])
    BY <1>5 DEF Send, consumer
  <2>2. item[w] \notin Elements(queue) /\ item[w] \notin todo /\ item[w] \notin Elements(written)
    BY <1>3, <2>1 DEF OneCopy
  <2>3. Elements(queue') = Elements(queue) \cup {item[w]} /\ Unique(queue')
    BY <1>3, <1>t, <2>1, <2>2, AppendElements DEF OneCopy
  <2>4. QED
    BY <1>3, <2>1, <2>2, <2>3 DEF OneCopy
<1>6. ASSUME NEW w \in Workers, SendFails(w) PROVE OneCopy'
  <2>1. step[w] # "idle" /\ Release(w) /\ todo' = todo /\ queue' = queue /\ written' = written
    BY <1>6 DEF SendFails, consumer
  <2>2. QED
    BY <1>3, <2>1 DEF OneCopy
<1>7. ASSUME Consume, UNCHANGED written PROVE OneCopy'
  <2>1. Busy' = Busy /\ Held' = Held /\ todo' = todo /\ item' = item
    BY <1>7 DEF Consume, WritePartition, RefusePartition, CountOther, EndOfStream, DropReceiver,
                JoinProducer, FinishWriter, producer, Busy, Held
  <2>2. \/ queue' = queue
        \/ queue # <<>> /\ queue' = Tail(queue)
        \/ queue' = <<>>
    BY <1>7 DEF Consume, WritePartition, RefusePartition, CountOther, EndOfStream, DropReceiver,
                JoinProducer, FinishWriter, Receive
  <2>3. Unique(queue') /\ Elements(queue') \subseteq Elements(queue)
    <3>1. CASE queue' = queue
      BY <3>1 DEF OneCopy
    <3>2. CASE queue # <<>> /\ queue' = Tail(queue)
      BY <1>t, <3>2, TailElements DEF OneCopy
    <3>3. CASE queue' = <<>>
      BY <3>3 DEF Unique, Elements
    <3>4. QED
      BY <2>2, <3>1, <3>2, <3>3
  <2>4. QED
    BY <1>7, <2>1, <2>3 DEF OneCopy
<1>8. CASE WritePartition
  <2>1. /\ Busy' = Busy /\ Held' = Held /\ todo' = todo /\ item' = item
        /\ queue # <<>> /\ queue' = Tail(queue) /\ written' = Append(written, Head(queue))
    BY <1>8 DEF WritePartition, Receive, producer, Busy, Held
  <2>2. /\ Elements(queue) = {Head(queue)} \cup Elements(queue') /\ Unique(queue')
        /\ Head(queue) \notin Elements(queue') /\ Head(queue) \in Candidates
    BY <1>t, <2>1, TailElements DEF OneCopy
  <2>3. Head(queue) \notin Elements(written)
    BY <2>2 DEF OneCopy
  <2>4. Elements(written') = Elements(written) \cup {Head(queue)} /\ Unique(written')
    BY <1>t, <2>1, <2>2, <2>3, AppendElements DEF OneCopy
  <2>5. QED
    BY <2>1, <2>2, <2>3, <2>4 DEF OneCopy
<1>9. CASE UNCHANGED vars
  BY <1>9 DEF vars, producer, consumer, OneCopy, Busy, Held
<1>10. Consume => WritePartition \/ UNCHANGED written
  BY DEF Consume, RefusePartition, CountOther, EndOfStream, DropReceiver, JoinProducer, FinishWriter
<1>11. QED
  BY <1>1, <1>2, <1>4, <1>5, <1>6, <1>7, <1>8, <1>9, <1>10 DEF Next, Work

\* No file is ever written to the store twice, and none is indexed again once
\* it was taken: the assumption of the packed manifest.
THEOREM OneCopyCorrect == Spec => []OneCopy
<1>1. Init => TypeInv /\ OneCopy
  BY InitTypes, EmptyQueue DEF Init, OneCopy, Busy, Held
<1>2. TypeInv /\ OneCopy /\ [Next]_vars => (TypeInv /\ OneCopy)'
  BY NextTypes, OneCopyStep
<1>3. QED
  BY <1>1, <1>2, PTL DEF Spec
-----------------------------------------------------------------------------
(* Nothing is lost on the way to an Ok.                                    *)

Everywhere == todo \cup Held \cup Elements(queue) \cup Elements(written)

\* Every partition is on its way or written, unless something went wrong.
Accounted == sinkError \/ panicked \/ cancelled \/ Partitions \subseteq Everywhere

\* The channel is closed by the calling thread alone, and a send only fails on
\* a closed channel; a closed channel is empty for good.
Shut ==
    /\ open <=> phase \in {"receiving", "dropping"}
    /\ cancelled => ~open
    /\ ~open => queue = <<>>

\* The receive loop ends with an error of the writer or with the last sender.
Ended == phase # "receiving" /\ ~sinkError => ProducerDone /\ queue = <<>> /\ ~cancelled

\* The answer is given when the producer has been joined, and stays; the store
\* is touched after an Ok only.
Answered ==
    /\ phase \in Returned => ProducerDone /\ answer = Answer
    /\ phase \notin Returned => answer = "none"
    /\ phase \in Returned \ {"returned"} => answer = "ok"
    /\ phase \notin Returned \ {"returned"} => renewed = 0 /\ ~cleared

StreamInv ==
    /\ TypeInv /\ OneCopy
    /\ Elements(written) \subseteq Partitions
    /\ Accounted /\ Shut /\ Ended /\ Answered

\* Workers preserve StreamInv; once the producer is done no worker acts.
LEMMA WorkKeepsStreamInv ==
    ASSUME StreamInv, NEW w \in Workers, Work(w)
    PROVE  StreamInv'
<1>1. TypeInv' /\ OneCopy'
  BY OneCopyStep, NextTypes DEF StreamInv, Next
<1>2. UNCHANGED consumer
  BY DEF Work, Take, IndexFile, Panic, Send, SendFails
<1>3. open' = open
  BY DEF Work, Take, IndexFile, Panic, Send, SendFails
<1>4. ~ProducerDone
  BY DEF Work, Take, IndexFile, Panic, Send, SendFails, ProducerDone, StreamInv, TypeInv, TypeOK
<1>5. phase = "receiving" \/ sinkError
  BY <1>4 DEF StreamInv, Ended
<1>6. phase \notin Returned
  BY <1>4 DEF StreamInv, Answered
<1>7. Answered' /\ Ended' /\ (Elements(written) \subseteq Partitions)'
  BY <1>2, <1>5, <1>6 DEF StreamInv, Answered, Ended, consumer, finishing
<1>8. Shut'
  <2>1. cancelled' => cancelled \/ ~open
    BY DEF Work, Take, IndexFile, Panic, Send, SendFails
  <2>2. queue' = queue \/ open
    BY DEF Work, Take, IndexFile, Panic, Send, SendFails
  <2>3. QED
    BY <1>2, <1>3, <2>1, <2>2 DEF StreamInv, Shut, consumer
<1>9. Accounted'
  <2>1. CASE sinkError \/ panicked \/ cancelled
    <3>1. sinkError' = sinkError /\ (panicked => panicked') /\ (cancelled => cancelled')
      BY <1>2 DEF Work, Take, IndexFile, Panic, Send, SendFails, consumer
    <3>2. QED
      BY <2>1, <3>1 DEF Accounted
  <2>2. ASSUME Partitions \subseteq Everywhere, NEW c \in Candidates, Take(w, c)
        PROVE  Accounted'
    <3>1. /\ Held' = Held \cup {c} /\ todo' = todo \ {c}
          /\ queue' = queue /\ written' = written
      BY <2>2, HeldByWorkers DEF StreamInv, Take, consumer
    <3>2. Everywhere \subseteq Everywhere'
      BY <3>1 DEF Everywhere
    <3>3. QED
      BY <2>2, <3>2 DEF Accounted
  <2>3. ASSUME Partitions \subseteq Everywhere, IndexFile(w)
        PROVE  Accounted'
    <3>1. Held' = Held /\ todo' = todo /\ queue' = queue /\ written' = written
      BY <2>3, HeldByWorkers DEF StreamInv, IndexFile, consumer
    <3>2. QED
      BY <2>3, <3>1 DEF Accounted, Everywhere
  <2>4. ASSUME Partitions \subseteq Everywhere, Send(w)
        PROVE  Accounted'
    <3>1. /\ todo' = todo /\ written' = written /\ Held' = Held \ {item[w]}
          /\ queue' = Append(queue, item[w]) /\ item[w] \in Candidates
      BY <2>4, HeldByWorkers DEF StreamInv, Send, consumer
    <3>2. Elements(queue') = Elements(queue) \cup {item[w]}
      BY <3>1, AppendElements DEF StreamInv, TypeInv, TypeOK
    <3>3. QED
      BY <2>4, <3>1, <3>2 DEF Accounted, Everywhere
  <2>5. CASE Panic(w) \/ SendFails(w)
    BY <2>5 DEF Panic, SendFails, Accounted
  <2>6. QED
    BY <2>1, <2>2, <2>3, <2>4, <2>5 DEF Work, StreamInv, Accounted
<1>10. QED
  BY <1>1, <1>7, <1>8, <1>9 DEF StreamInv

\* The calling thread preserves StreamInv.
LEMMA ConsumeKeepsStreamInv ==
    ASSUME StreamInv, Consume
    PROVE  StreamInv'
<1>1. TypeInv' /\ OneCopy'
  BY OneCopyStep, NextTypes DEF StreamInv, Next
<1>t. queue \in Seq(Candidates) /\ written \in Seq(Candidates)
  BY DEF StreamInv, TypeInv, TypeOK
<1>2. UNCHANGED producer /\ Held' = Held /\ (ProducerDone' <=> ProducerDone)
  BY DEF Consume, WritePartition, RefusePartition, CountOther, EndOfStream, DropReceiver,
         JoinProducer, FinishWriter, producer, Held, Busy, ProducerDone
<1>3. ASSUME phase = "receiving", phase' = "receiving", UNCHANGED <<open, sinkError, answer, finishing>>
      PROVE  Shut' /\ Ended' /\ Answered'
  BY <1>2, <1>3 DEF StreamInv, Shut, Ended, Answered, producer, finishing, Returned
<1>4. CASE WritePartition
  <2>1. /\ queue # <<>> /\ queue' = Tail(queue) /\ Head(queue) \in Candidates
        /\ Head(queue) \in Partitions /\ written' = Append(written, Head(queue))
    BY <1>4, <1>t, TailElements DEF WritePartition, Receive, Partitions
  <2>2. /\ Elements(queue) = {Head(queue)} \cup Elements(queue')
        /\ Elements(written') = Elements(written) \cup {Head(queue)}
    BY <1>t, <2>1, TailElements, AppendElements
  <2>3. Accounted' /\ (Elements(written) \subseteq Partitions)'
    BY <1>2, <1>4, <2>1, <2>2 DEF StreamInv, Accounted, Everywhere, WritePartition, producer, Partitions
  <2>4. Shut' /\ Ended' /\ Answered'
    BY <1>3, <1>4 DEF WritePartition, Receive
  <2>5. QED
    BY <1>1, <2>3, <2>4 DEF StreamInv
<1>5. CASE RefusePartition
  <2>1. open /\ phase = "receiving" /\ phase' = "dropping" /\ sinkError' = TRUE
    BY <1>5 DEF RefusePartition, Receive, StreamInv, Shut
  <2>2. Shut' /\ Ended' /\ Answered' /\ Accounted'
    BY <1>2, <1>5, <2>1
       DEF StreamInv, Shut, Ended, Answered, Accounted, RefusePartition, producer, finishing, Returned
  <2>3. QED
    BY <1>1, <1>5, <2>2 DEF StreamInv, RefusePartition, Partitions
<1>6. CASE CountOther
  <2>1. /\ queue # <<>> /\ queue' = Tail(queue) /\ Head(queue) \notin Partitions
        /\ phase = "receiving"
    BY <1>6 DEF CountOther, Receive, Partitions
  <2>2. Elements(queue) = {Head(queue)} \cup Elements(queue')
    BY <1>t, <2>1, TailElements
  <2>3. Accounted' /\ (Elements(written) \subseteq Partitions)'
    BY <1>2, <1>6, <2>1, <2>2 DEF StreamInv, Accounted, Everywhere, CountOther, producer, Partitions
  <2>4. Shut' /\ Ended' /\ Answered'
    BY <1>3, <1>6, <2>1 DEF CountOther
  <2>5. QED
    BY <1>1, <2>3, <2>4 DEF StreamInv
<1>7. CASE EndOfStream
  <2>1. /\ phase = "receiving" /\ phase' = "dropping" /\ queue = <<>> /\ ProducerDone
        /\ UNCHANGED <<queue, open, sinkError, written, answer, renewed, cleared>>
    BY <1>7 DEF EndOfStream, finishing
  <2>2. Shut' /\ Ended' /\ Answered' /\ Accounted' /\ (Elements(written) \subseteq Partitions)'
    BY <1>2, <2>1
       DEF StreamInv, Shut, Ended, Answered, Accounted, Everywhere, producer, Partitions, Returned
  <2>3. QED
    BY <1>1, <2>2 DEF StreamInv
<1>8. CASE DropReceiver
  <2>1. /\ phase = "dropping" /\ phase' = "joining" /\ queue' = <<>> /\ open' = FALSE
        /\ UNCHANGED <<sinkError, written, answer, renewed, cleared>>
    BY <1>8 DEF DropReceiver, finishing
  <2>2. ~sinkError => queue = <<>>
    BY <2>1 DEF StreamInv, Ended
  <2>3. Accounted'
    BY <1>2, <2>1, <2>2 DEF StreamInv, Accounted, Everywhere, producer
  <2>4. Shut' /\ Ended' /\ Answered' /\ (Elements(written) \subseteq Partitions)'
    BY <1>2, <2>1 DEF StreamInv, Shut, Ended, Answered, producer, Partitions, Returned
  <2>5. QED
    BY <1>1, <2>3, <2>4 DEF StreamInv
<1>9. CASE JoinProducer \/ FinishWriter
  <2>1. /\ UNCHANGED <<queue, open, sinkError, written>>
        /\ phase # "receiving" /\ phase' # "receiving"
        /\ phase \notin {"receiving", "dropping"} /\ phase' \in Returned
    BY <1>9 DEF JoinProducer, FinishWriter, BeginFinish, RemoveDirectory, RenewPart, FinishFails,
                EndFinish, Returned
  <2>2. Answer' = Answer
    BY <1>2, <2>1 DEF Answer, producer
  <2>3. Answered'
    <3>1. CASE JoinProducer
      BY <1>2, <2>1, <2>2, <3>1 DEF StreamInv, Answered, JoinProducer, finishing, Returned
    <3>2. CASE FinishWriter
      BY <1>2, <2>1, <2>2, <3>2 DEF StreamInv, Answered, FinishWriter, BeginFinish, RemoveDirectory,
         RenewPart, FinishFails, EndFinish, Returned
    <3>3. QED
      BY <1>9, <3>1, <3>2
  <2>4. Shut' /\ Ended' /\ Accounted' /\ (Elements(written) \subseteq Partitions)'
    BY <1>2, <2>1 DEF StreamInv, Shut, Ended, Accounted, Everywhere, producer, Partitions, Returned
  <2>5. QED
    BY <1>1, <2>3, <2>4 DEF StreamInv
<1>10. QED
  BY <1>4, <1>5, <1>6, <1>7, <1>8, <1>9 DEF Consume

\* StreamInv holds in every state: the argument behind the two theorems below.
LEMMA StreamInvariant == Spec => []StreamInv
<1>1. Init => StreamInv
  <2> SUFFICES ASSUME Init PROVE StreamInv
    OBVIOUS
  <2>1. OneCopy /\ Elements(written) \subseteq Partitions /\ todo = Candidates
    BY EmptyQueue DEF Init, OneCopy, Busy, Held
  <2>2. Accounted
    BY <2>1 DEF Accounted, Everywhere, Partitions
  <2>3. Shut /\ Ended /\ Answered
    BY DEF Init, Shut, Ended, Answered, Returned
  <2>4. QED
    BY InitTypes, <2>1, <2>2, <2>3 DEF StreamInv
<1>2. StreamInv /\ UNCHANGED vars => StreamInv'
  <2> SUFFICES ASSUME StreamInv, UNCHANGED vars PROVE StreamInv'
    OBVIOUS
  <2>1. TypeInv' /\ OneCopy'
    BY OneCopyStep, NextTypes DEF StreamInv
  <2>2. Held' = Held /\ (ProducerDone' <=> ProducerDone) /\ Answer' = Answer
    BY DEF vars, producer, consumer, Held, Busy, ProducerDone, Answer
  <2>3. QED
    BY <2>1, <2>2 DEF vars, producer, consumer, finishing, StreamInv, Accounted, Everywhere, Shut,
       Ended, Answered, Partitions
<1>3. StreamInv /\ [Next]_vars => StreamInv'
  BY <1>2, WorkKeepsStreamInv, ConsumeKeepsStreamInv DEF Next
<1>4. QED
  BY <1>1, <1>3, PTL DEF Spec

\* What the caller of stream_path is told is never the failed send of a worker.
THEOREM ClosedIsNeverTheAnswerCorrect == Spec => []ClosedIsNeverTheAnswer
<1>1. StreamInv => ClosedIsNeverTheAnswer
  BY DEF StreamInv, Answered, Ended, Answer, ClosedIsNeverTheAnswer
<1>2. QED
  BY <1>1, StreamInvariant, PTL

\* After an Ok the writer has every partition of the repository and no other.
LEMMA OkHasEverything ==
    ASSUME StreamInv, phase \in Returned, answer = "ok"
    PROVE  Elements(written) = Partitions
<1>1. ~sinkError /\ ~panicked /\ ~cancelled /\ ProducerDone
  BY DEF StreamInv, Answered, Answer
<1>2. todo = {} /\ Held = {} /\ queue = <<>>
  BY <1>1 DEF StreamInv, Ended, ProducerDone, Held, Busy, Returned
<1>3. Everywhere = Elements(written)
  BY <1>2, EmptyQueue DEF Everywhere
<1>4. QED
  BY <1>1, <1>3 DEF StreamInv, Accounted

\* As long as finish has not touched the store, what was written does not matter.
LEMMA UntouchedStore ==
    ASSUME renewed = 0, ~cleared
    PROVE  Store = [i \in 1 .. Len(StoreParts) |-> Nothing]
<1>1. \A i \in 1 .. Len(StoreParts) : ~(i <= 0)
  BY DEF StoreParts
<1>2. QED
  BY <1>1 DEF Store

\* Each step of finish is one of the run's: it removes or replaces the part whose
\* turn it is, by all the partitions, or gives up, or is done.
LEMMA FinishStep ==
    ASSUME StreamInv, FinishWriter
    PROVE  Run!Next \/ UNCHANGED <<Store, CommandFailed, phase = "published">>
<1>t. /\ Len(StoreParts) = 6 /\ renewed \in 0 .. 6 /\ written' = written
      /\ answer' = answer /\ Store \in [1 .. 6 -> {Elements(written), Gone, Nothing}]
  <2>1. Len(StoreParts) = 6
    BY DEF StoreParts
  <2>2. QED
    BY <2>1 DEF StreamInv, TypeInv, TypeOK, FinishWriter, Store
<1>w. answer = "ok" /\ phase \in {"returned", "finishing"}
  BY DEF FinishWriter, BeginFinish, RemoveDirectory, RenewPart, FinishFails, EndFinish, StreamInv,
         Answered, Returned
<1>e. Elements(written) = Partitions
  BY <1>w, OkHasEverything DEF Returned
<1>r. /\ ~CommandFailed /\ phase # "published"
      /\ \A j \in 1 .. 6 : j <= renewed => Store[j] = Partitions
  BY <1>t, <1>w, <1>e DEF CommandFailed, Store
<1>1. CASE BeginFinish
  BY <1>1, <1>t, <1>w DEF BeginFinish, finishing, Store, CommandFailed
<1>2. CASE RemoveDirectory
  <2> DEFINE i == renewed + 1
  <2>1. i \in 1 .. 6 /\ phase' = phase /\ renewed' = renewed /\ ~cleared /\ cleared'
    BY <1>2, <1>t DEF RemoveDirectory
  <2>2. Store[i] = Nothing /\ Store' = [Store EXCEPT ![i] = Gone]
    BY <1>t, <2>1 DEF Store
  <2>3. Run!Remove(i)
    BY <1>t, <1>r, <2>1, <2>2 DEF Run!Remove, Run!Turn, CommandFailed
  <2>4. QED
    BY <1>t, <2>1, <2>3 DEF Run!Next
<1>3. CASE RenewPart
  <2> DEFINE i == renewed + 1
  <2>1. i \in 1 .. 6 /\ phase' = phase /\ renewed' = i /\ ~cleared'
    BY <1>3, <1>t DEF RenewPart
  <2>2. Store' = [Store EXCEPT ![i] = Partitions]
    <3>1. Store' = [k \in 1 .. 6 |-> IF k <= renewed + 1 THEN Partitions ELSE Nothing]
      BY <1>t, <1>e, <2>1 DEF Store
    <3>2. \A k \in 1 .. 6 : k # i =>
              Store[k] = IF k <= renewed + 1 THEN Partitions ELSE Nothing
      BY <1>t, <1>e DEF Store
    <3>3. Store = [k \in 1 .. 6 |-> Store[k]]
      BY <1>t DEF Store
    <3>4. [Store EXCEPT ![i] = Partitions] = [k \in 1 .. 6 |-> IF k = i THEN Partitions ELSE Store[k]]
      BY <3>3
    <3>5. QED
      BY <2>1, <3>1, <3>2, <3>4
  <2>3. Run!Replace(i)
    BY <1>t, <1>r, <2>1, <2>2 DEF Run!Replace, Run!Turn, CommandFailed
  <2>4. QED
    BY <1>t, <2>1, <2>3 DEF Run!Next
<1>4. CASE FinishFails
  <2>1. Store' = Store /\ phase' = "failed"
    BY <1>4, <1>t DEF FinishFails, finishing, Store
  <2>2. QED
    BY <1>r, <2>1 DEF Run!Next, Run!Fail, CommandFailed
<1>5. CASE EndFinish
  <2>1. Store' = Store /\ phase' = "published" /\ renewed = 6
    BY <1>5, <1>t DEF EndFinish, finishing, Store
  <2>2. Run!Succeed
    BY <1>t, <1>r, <2>1 DEF Run!Succeed, CommandFailed
  <2>3. QED
    BY <2>2 DEF Run!Next
<1>6. QED
  BY <1>1, <1>2, <1>3, <1>4, <1>5 DEF FinishWriter

\* A full index never lets a part of an incomplete stream into the store: what fails
\* before finish leaves the store alone, finish replaces one part after the other by
\* the partitions of all files, wherever it fails, and Ok means every part.
THEOREM StreamImplementsRun == Spec => PublishesWholeRuns
<1> DEFINE said == IF phase = "published" THEN "ok" ELSE IF CommandFailed THEN "error" ELSE "running"
<1>1. Init => Run!Init
  <2> SUFFICES ASSUME Init PROVE Run!Init
    OBVIOUS
  <2>1. Store = [i \in 1 .. Len(StoreParts) |-> Nothing]
    BY UntouchedStore DEF Init
  <2>2. QED
    BY <2>1 DEF Init, Run!Init, CommandFailed
<1>2. StreamInv /\ StreamInv' /\ [Next]_vars => [Run!Next]_<<Store, said>>
  <2> SUFFICES ASSUME StreamInv, StreamInv', [Next]_vars
               PROVE  [Run!Next]_<<Store, said>>
    OBVIOUS
  <2>1. CASE FinishWriter
    BY <2>1, FinishStep
  <2>2. CASE JoinProducer
    <3>1. /\ renewed = 0 /\ ~cleared /\ UNCHANGED <<renewed, cleared>>
          /\ phase = "joining" /\ phase' = "returned"
      BY <2>2 DEF JoinProducer, StreamInv, Answered, Returned, finishing
    <3>2. Store' = Store
      <4>1. Store = [i \in 1 .. Len(StoreParts) |-> Nothing]
        BY <3>1, UntouchedStore
      <4>2. Store' = [i \in 1 .. Len(StoreParts) |-> Nothing]
        BY <2>2, <3>1, <4>1 DEF JoinProducer, Store
      <4>3. QED
        BY <4>1, <4>2
    <3>3. QED
      BY <3>1, <3>2 DEF Run!Next, Run!Fail, CommandFailed
  <2>3. ASSUME ~FinishWriter, ~JoinProducer
        PROVE  UNCHANGED <<Store, said>>
    <3>1. /\ UNCHANGED finishing
          /\ \/ UNCHANGED <<phase, answer, written>>
             \/ phase \notin Returned /\ phase' \notin Returned
      BY <2>3 DEF Next, Work, Take, IndexFile, Panic, Send, SendFails, Consume, WritePartition,
                  RefusePartition, CountOther, EndOfStream, DropReceiver, Receive, vars, consumer, Returned
    <3>2. CASE UNCHANGED <<phase, answer, written>>
      BY <3>1, <3>2 DEF finishing, Store, CommandFailed
    <3>3. CASE phase \notin Returned /\ phase' \notin Returned
      <4>1. renewed = 0 /\ ~cleared /\ renewed' = 0 /\ ~cleared'
        BY <3>1, <3>3 DEF StreamInv, Answered, finishing
      <4>2. \A i \in 1 .. Len(StoreParts) : ~(i <= 0)
        BY DEF StoreParts
      <4>3. Store' = Store
        BY <4>1, <4>2 DEF Store
      <4>4. QED
        BY <3>3, <4>3 DEF CommandFailed, Returned
    <3>4. QED
      BY <3>1, <3>2, <3>3
  <2>4. QED
    BY <2>1, <2>2, <2>3
<1>3. QED
  BY <1>1, <1>2, StreamInvariant, PTL DEF Spec, PublishesWholeRuns, Run!Spec
-----------------------------------------------------------------------------
(* The summary.                                                            *)

\* The candidates the calling thread received, as far as nothing went wrong.
Received == Candidates \ (todo \cup Held \cup Elements(queue))
ReceivedAs(outcome) == {c \in Received : Outcome[c] = outcome}

\* The summary counts what was received so far.
Summed ==
    \/ sinkError \/ panicked \/ cancelled
    \/ \A outcome \in Counted :
          /\ IsFiniteSet(ReceivedAs(outcome))
          /\ summary[outcome] = Cardinality(ReceivedAs(outcome))

\* A step that neither receives nor counts keeps Summed.
LEMMA NothingReceived ==
    ASSUME Summed, Received' = Received, summary' = summary,
           sinkError => sinkError', panicked => panicked', cancelled => cancelled'
    PROVE  Summed'
<1>1. \A outcome : ReceivedAs(outcome)' = ReceivedAs(outcome)
  BY DEF ReceivedAs
<1>2. QED
  BY <1>1 DEF Summed

\* What a worker does to a file, short of giving it up, leaves it on its way.
LEMMA WorkKeepsSummed ==
    ASSUME StreamInv, Summed, NEW w \in Workers, Work(w)
    PROVE  Summed'
<1>1. UNCHANGED <<summary, sinkError>> /\ (panicked => panicked') /\ (cancelled => cancelled')
  BY DEF Work, Take, IndexFile, Panic, Send, SendFails, consumer
<1>2. CASE Panic(w) \/ SendFails(w)
  BY <1>2 DEF Panic, SendFails, Summed
<1>3. ASSUME NEW c \in Candidates, Take(w, c) PROVE Received' = Received
  <2>1. Held' = Held \cup {c} /\ todo' = todo \ {c} /\ c \in todo /\ queue' = queue
    BY <1>3, HeldByWorkers DEF StreamInv, Take
  <2>2. QED
    BY <2>1 DEF Received
<1>4. CASE IndexFile(w)
  <2>1. Held' = Held /\ todo' = todo /\ queue' = queue
    BY <1>4, HeldByWorkers DEF StreamInv, IndexFile
  <2>2. QED
    BY <1>1, <2>1, NothingReceived DEF Received
<1>5. CASE Send(w)
  <2>1. /\ todo' = todo /\ Held' = Held \ {item[w]} /\ item[w] \in Held
        /\ queue' = Append(queue, item[w]) /\ item[w] \in Candidates
    BY <1>5, HeldByWorkers DEF StreamInv, Send
  <2>2. Elements(queue') = Elements(queue) \cup {item[w]}
    BY <2>1, AppendElements DEF StreamInv, TypeInv, TypeOK
  <2>3. Received' = Received
    BY <2>1, <2>2 DEF Received
  <2>4. QED
    BY <1>1, <2>3, NothingReceived
<1>6. QED
  BY <1>1, <1>2, <1>3, <1>4, <1>5, NothingReceived DEF Work

\* Whatever is received leaves the channel for good, and is counted once under its
\* own outcome unless that is "none".
LEMMA ConsumeKeepsSummed ==
    ASSUME StreamInv, Summed, Consume
    PROVE  Summed'
<1>1. UNCHANGED <<panicked, cancelled, todo>> /\ Held' = Held /\ (sinkError => sinkError')
  BY DEF Consume, WritePartition, RefusePartition, CountOther, EndOfStream, DropReceiver,
         JoinProducer, FinishWriter, producer, Held, Busy
<1>2. ASSUME NEW o \in Outcomes, Receive(o), o = "none" => UNCHANGED summary, o # "none" => Count(o)
      PROVE  Summed'
  <2>1. queue \in Seq(Candidates) /\ queue # <<>> /\ queue' = Tail(queue) /\ Outcome[Head(queue)] = o
    BY <1>2 DEF StreamInv, TypeInv, TypeOK, Receive
  <2>2. PICK c : c = Head(queue)
    OBVIOUS
  <2>3. /\ c \in Candidates /\ Elements(queue) = {c} \cup Elements(queue') /\ c \notin Elements(queue')
        /\ c \notin todo /\ c \notin Held
    BY <2>1, <2>2, TailElements DEF StreamInv, OneCopy
  <2>4. Received' = Received \cup {c} /\ c \notin Received
    BY <1>1, <2>3 DEF Received
  <2>5. SUFFICES ASSUME ~sinkError, ~panicked, ~cancelled, NEW p \in Counted
                 PROVE  /\ IsFiniteSet(ReceivedAs(p)')
                        /\ summary'[p] = Cardinality(ReceivedAs(p)')
    BY <1>1 DEF Summed
  <2>6. /\ IsFiniteSet(ReceivedAs(p)) /\ summary[p] = Cardinality(ReceivedAs(p))
        /\ summary \in [Counted -> Nat]
    BY <2>5 DEF Summed, StreamInv, TypeInv, TypeOK
  <2>7. CASE p = o
    <3>1. ReceivedAs(p)' = ReceivedAs(p) \cup {c} /\ c \notin ReceivedAs(p)
      BY <2>1, <2>2, <2>4, <2>7 DEF ReceivedAs
    <3>2. summary'[p] = summary[p] + 1
      BY <1>2, <2>6, <2>7 DEF Count, Counted
    <3>3. QED
      BY <2>6, <3>1, <3>2, FS_AddElement
  <2>8. CASE p # o
    <3>1. ReceivedAs(p)' = ReceivedAs(p)
      BY <2>1, <2>2, <2>4, <2>8 DEF ReceivedAs
    <3>2. summary'[p] = summary[p]
      BY <1>2, <2>6, <2>8 DEF Count
    <3>3. QED
      BY <2>6, <3>1, <3>2
  <2>9. QED
    BY <2>7, <2>8
<1>3. CASE WritePartition
  BY <1>2, <1>3 DEF WritePartition, Outcomes
<1>4. CASE CountOther
  BY <1>2, <1>4 DEF CountOther, Outcomes
<1>5. CASE RefusePartition
  BY <1>5 DEF RefusePartition, Summed
<1>6. CASE DropReceiver
  <2>1. sinkError' = sinkError /\ summary' = summary /\ queue' = <<>>
    BY <1>6 DEF DropReceiver
  <2>2. sinkError \/ queue = <<>>
    BY <1>6 DEF StreamInv, Ended, DropReceiver
  <2>3. CASE sinkError
    BY <2>1, <2>3 DEF Summed
  <2>4. CASE queue = <<>>
    BY <1>1, <2>1, <2>4, NothingReceived DEF Received
  <2>5. QED
    BY <2>2, <2>3, <2>4
<1>7. CASE EndOfStream \/ JoinProducer \/ FinishWriter
  <2>1. UNCHANGED <<queue, summary>>
    BY <1>7 DEF EndOfStream, JoinProducer, FinishWriter
  <2>2. QED
    BY <1>1, <2>1, NothingReceived DEF Received
<1>8. QED
  BY <1>3, <1>4, <1>5, <1>6, <1>7 DEF Consume

\* After an Ok the store has every partition and the summary counts every
\* candidate under its outcome, whatever the interleaving and the capacity.
THEOREM SummaryIsCompleteCorrect == Spec => []SummaryIsComplete
<1>1. Init => Summed
  <2> SUFFICES ASSUME Init PROVE Summed
    OBVIOUS
  <2>1. \A outcome : ReceivedAs(outcome) = {}
    BY DEF Init, ReceivedAs, Received
  <2>2. QED
    BY <2>1, FS_EmptySet DEF Init, Summed
<1>2. StreamInv /\ Summed /\ [Next]_vars => Summed'
  <2> SUFFICES ASSUME StreamInv, Summed, [Next]_vars PROVE Summed'
    OBVIOUS
  <2>1. CASE UNCHANGED vars
    BY <2>1, NothingReceived DEF vars, producer, consumer, Received, Held, Busy
  <2>2. QED
    BY <2>1, WorkKeepsSummed, ConsumeKeepsSummed DEF Next
<1>3. StreamInv /\ Summed => SummaryIsComplete
  <2> SUFFICES ASSUME StreamInv, Summed, answer = "ok" PROVE SummaryIsComplete
    BY DEF SummaryIsComplete
  <2>1. phase \in Returned
    BY DEF StreamInv, Answered
  <2>2. Elements(written) = Partitions
    BY <2>1, OkHasEverything
  <2>3. ~sinkError /\ ~panicked /\ ~cancelled /\ ProducerDone
    BY <2>1 DEF StreamInv, Answered, Answer
  <2>4. todo = {} /\ Held = {} /\ queue = <<>>
    BY <2>1, <2>3 DEF StreamInv, Ended, ProducerDone, Held, Busy, Returned
  <2>5. Received = Candidates
    BY <2>4, EmptyQueue DEF Received
  <2>6. QED
    BY <2>2, <2>3, <2>5 DEF Summed, SummaryIsComplete, ReceivedAs
<1>4. QED
  BY <1>1, <1>2, <1>3, StreamInvariant, PTL DEF Spec
=============================================================================
