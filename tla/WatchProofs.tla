---------------------------- MODULE WatchProofs -----------------------------
(***************************************************************************)
(* Theorems about Watch for every set of files and every debounce interval *)
(* and deadline.                                                           *)
(***************************************************************************)
EXTENDS Watch, TLAPS

\* What the Next of Watch does, action by action.
Anything ==
    \/ \E f \in Files : Edit(f) \/ Remove(f) \/ PutBack(f)
    \/ \E p \in Files \cup Filtered : Touch(p) \/ Receive(p)
    \/ Tick \/ Register \/ CheckClock \/ StartWaiting \/ TimeOut \/ FilterFiles
    \/ ReadFiles \/ WriteStore \/ WatcherFails \/ ReindexFails

\* The groups of Next flattened, so that the proofs below can go by action.
LEMMA NextActions == Next => Anything
BY DEF Next, World, Command, Failure, Anything

-----------------------------------------------------------------------------
\* Each clock step stays within its bounds.
LEMMA ClockBounds ==
    ASSUME TypeOK
    PROVE  /\ Lesser(quiet + 1, Debounce) \in 0 .. Debounce
           /\ Lesser(Debounce, left) \in 0 .. Debounce
           /\ (IF left = 0 THEN 0 ELSE left - 1) \in 0 .. MaxWait
           /\ (IF timer = 0 THEN 0 ELSE timer - 1) \in 0 .. Debounce
BY WatchAssumption DEF TypeOK, Lesser

\* The end of a pass keeps the types.
LEMMA EndPassTypes ==
    ASSUME TypeOK, EndPass
    PROVE  TypeOK'
BY DEF TypeOK, EndPass, files, clocks

\* Every step keeps the types.
LEMMA TypeStep == TypeOK /\ [Next]_vars => TypeOK'
<1> SUFFICES ASSUME TypeOK, [Next]_vars PROVE TypeOK'
  OBVIOUS
<1>1. ASSUME NEW f \in Files, Edit(f) PROVE TypeOK'
  BY <1>1, WatchAssumption DEF TypeOK, Edit, Report, files, clocks
<1>2. ASSUME NEW p \in Files \cup Filtered, Touch(p) \/ Receive(p) PROVE TypeOK'
  BY <1>2, WatchAssumption DEF TypeOK, Touch, Receive, files, clocks
<1>3. ASSUME NEW f \in Files, Remove(f) \/ PutBack(f) PROVE TypeOK'
  BY <1>3 DEF TypeOK, Remove, PutBack, Report, files, clocks
<1>4. CASE Tick
  BY <1>4, ClockBounds DEF TypeOK, Tick, files
<1>5. CASE Register
  BY <1>5, WatchAssumption DEF TypeOK, Register, files
<1>6. CASE StartWaiting
  BY <1>6, ClockBounds DEF TypeOK, StartWaiting, files
<1>7. CASE CheckClock
  BY <1>7, EndPassTypes DEF CheckClock
<1>8. CASE TimeOut
  <2>1. CASE EndPass
    BY <2>1, EndPassTypes
  <2>2. CASE ~EndPass
    BY <1>8, <2>2 DEF TimeOut, TypeOK, files, clocks
  <2>3. QED
    BY <2>1, <2>2
<1>9. CASE FilterFiles
  BY <1>9 DEF TypeOK, FilterFiles, Kept, files, clocks
<1>10. CASE ReadFiles
  <2>1. batch' \subseteq Files /\ read' \in [Files -> 0 .. MaxVersion]
    BY <1>10 DEF TypeOK, ReadFiles
  <2>2. QED
    BY <1>10, <2>1 DEF TypeOK, ReadFiles, clocks
<1>11. CASE WriteStore
  BY <1>11 DEF TypeOK, WriteStore, clocks
<1>12. CASE WatcherFails \/ ReindexFails
  BY <1>12 DEF TypeOK, WatcherFails, ReindexFails, files, clocks
<1>13. CASE UNCHANGED vars
  BY <1>13 DEF TypeOK, vars, clocks
<1>14. QED
  BY <1>1, <1>2, <1>3, <1>4, <1>5, <1>6, <1>7, <1>8, <1>9, <1>10, <1>11, <1>12, <1>13, NextActions DEF Anything

\* The types of Watch and the bounds of its clocks.
THEOREM TypeCorrect == Spec => []TypeOK
<1>1. Init => TypeOK
  BY WatchAssumption DEF Init, TypeOK
<1>2. QED
  BY <1>1, TypeStep, PTL DEF Spec

-----------------------------------------------------------------------------
(* A pass hands over its files when the stream is quiet, or late.          *)

\* While recv_timeout waits, its timer runs out together with the debounce
\* interval or with the deadline.
TimerFits == phase = "waiting" => quiet + timer >= Debounce \/ timer = left

\* Every step keeps the timer fitting.
LEMMA TimerStep == TypeOK /\ TimerFits /\ [Next]_vars => TimerFits'
<1> SUFFICES ASSUME TypeOK, TimerFits, [Next]_vars PROVE TimerFits'
  OBVIOUS
<1>1. CASE Tick
  BY <1>1, WatchAssumption DEF Tick, TimerFits, TypeOK, Lesser
<1>2. CASE StartWaiting
  BY <1>2, WatchAssumption DEF StartWaiting, TimerFits, TypeOK, Lesser
<1>3. ASSUME NEW f \in Files \cup Filtered, Edit(f) \/ Touch(f) \/ Remove(f) \/ PutBack(f)
      PROVE  TimerFits'
  BY <1>3 DEF Edit, Touch, Remove, PutBack, TimerFits, clocks
<1>4. ASSUME phase' # "waiting" PROVE TimerFits'
  BY <1>4 DEF TimerFits
<1>5. CASE UNCHANGED vars
  BY <1>5 DEF TimerFits, vars, clocks
<1>6. ASSUME NEW p \in Files \cup Filtered, Receive(p) PROVE phase' # "waiting"
  BY <1>6 DEF Receive
<1>7. Register \/ CheckClock \/ TimeOut \/ FilterFiles \/ ReadFiles \/ WriteStore
          \/ WatcherFails \/ ReindexFails
        => phase' # "waiting"
  BY DEF Register, CheckClock, TimeOut, EndPass, FilterFiles, ReadFiles, WriteStore, WatcherFails, ReindexFails
<1>8. QED
  BY <1>1, <1>2, <1>3, <1>4, <1>5, <1>6, <1>7, NextActions DEF Anything

\* watch_until_quiet returns a batch of files only after Debounce ticks without
\* an event or at its deadline, for every choice of the two.
THEOREM QuietOrLateCorrect == Spec => QuietOrLate
<1>1. Init => TypeOK /\ TimerFits
  BY WatchAssumption DEF Init, TypeOK, TimerFits
<1>2. ASSUME TypeOK, TimerFits, [Next]_vars
      PROVE  [Listening /\ phase' = "filtering" => quiet = Debounce \/ left = 0]_vars
  <2> SUFFICES ASSUME Listening, phase' = "filtering", Next
               PROVE  quiet = Debounce \/ left = 0
    BY <1>2
  <2>1. CheckClock \/ TimeOut
    BY NextActions DEF Anything, Listening, Edit, Touch, Remove, PutBack, Tick, Register, StartWaiting,
                       Receive, FilterFiles, ReadFiles, WriteStore, WatcherFails, ReindexFails
  <2>2. CASE CheckClock
    BY <1>2, <2>2, WatchAssumption DEF CheckClock, PassIsOver, TypeOK
  <2>3. CASE TimeOut
    BY <1>2, <2>3, WatchAssumption DEF TimeOut, TimerFits, TypeOK
  <2>4. QED
    BY <2>1, <2>2, <2>3
<1>3. QED
  BY <1>1, <1>2, TypeStep, TimerStep, PTL DEF Spec, QuietOrLate

-----------------------------------------------------------------------------
(* Which files the store may be behind on.                                 *)

\* A file in the batch was read at its current version or has changed since.
ReadIsCurrent ==
    /\ phase = "writing" => \A f \in batch : read[f] # source[f] => f \in missed
    /\ ~Listening => channel = {} \/ phase = "stopped"

\* Every step keeps the explanation.
LEMMA StaleStep ==
    TypeOK /\ ReadIsCurrent /\ StaleIsExplained /\ [Next]_vars
        => ReadIsCurrent' /\ StaleIsExplained'
<1> SUFFICES ASSUME TypeOK, ReadIsCurrent, StaleIsExplained, [Next]_vars
             PROVE  ReadIsCurrent' /\ StaleIsExplained'
  OBVIOUS
<1> USE DEF ReadIsCurrent, StaleIsExplained, Listening
<1>1. ASSUME NEW f \in Files, Edit(f) PROVE ReadIsCurrent' /\ StaleIsExplained'
  BY <1>1 DEF Edit, Report, TypeOK
<1>2. ASSUME NEW f \in Files, Remove(f) \/ PutBack(f) PROVE ReadIsCurrent' /\ StaleIsExplained'
  BY <1>2 DEF Remove, PutBack, Report
<1>3. ASSUME NEW p \in Files \cup Filtered, Touch(p) \/ Receive(p) PROVE ReadIsCurrent' /\ StaleIsExplained'
  BY <1>3 DEF Touch, Receive, files
<1>4. CASE Tick \/ Register \/ StartWaiting
  BY <1>4 DEF Tick, Register, StartWaiting, files
<1>5. ASSUME phase \in {"checking", "waiting"}, EndPass PROVE ReadIsCurrent' /\ StaleIsExplained'
  BY <1>5, WatchAssumption DEF EndPass, files, TypeOK
<1>6. CASE CheckClock
  BY <1>5, <1>6 DEF CheckClock
<1>7. CASE TimeOut
  <2>1. CASE EndPass
    BY <1>5, <1>7, <2>1 DEF TimeOut
  <2>2. CASE ~EndPass
    BY <1>7, <2>2 DEF TimeOut, files
  <2>3. QED
    BY <2>1, <2>2
<1>8. CASE FilterFiles
  BY <1>8, WatchAssumption DEF FilterFiles, Kept, files, TypeOK
<1>9. CASE ReadFiles
  BY <1>9 DEF ReadFiles, TypeOK
<1>10. CASE WriteStore
  BY <1>10 DEF WriteStore, TypeOK
<1>11. CASE WatcherFails \/ ReindexFails
  BY <1>11 DEF WatcherFails, ReindexFails, files
<1>12. CASE UNCHANGED vars
  BY <1>12 DEF vars
<1>13. QED
  BY <1>1, <1>2, <1>3, <1>4, <1>6, <1>7, <1>8, <1>9, <1>10, <1>11, <1>12, NextActions DEF Anything

\* A change is only ever missed when it happens while no watcher is registered
\* or when its event is dropped at the end of a pass.
THEOREM StaleIsExplainedCorrect == Spec => []StaleIsExplained
<1>1. Init => TypeOK /\ ReadIsCurrent /\ StaleIsExplained
  BY WatchAssumption DEF Init, TypeOK, ReadIsCurrent, StaleIsExplained
<1>2. QED
  BY <1>1, TypeStep, StaleStep, PTL DEF Spec
=============================================================================
