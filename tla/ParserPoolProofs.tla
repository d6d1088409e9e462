-------------------------- MODULE ParserPoolProofs --------------------------
(***************************************************************************)
(* Theorems about ParserPool: its types, that every parser is in one       *)
(* place, clean and one of few, and that every answer is about its file.   *)
(***************************************************************************)
EXTENDS ParserPool, TLAPS, SequenceTheorems, FiniteSetTheorems

\* What parse is to return, or has returned, to a worker for its file.
Tree(f, r) == r = [source |-> f, skip |-> Absent]
Fitting(f) == GrammarOf[f] # Absent /\ Size[f] <= MaxFileBytes
TimedOut(r) == r.skip = "timeout" /\ ParseTimeout > 0

Sourced ==
    \A w \in Workers :
        /\ step[w] \in Holding => Fitting(item[w]) /\ Loads[GrammarOf[item[w]]]
        /\ step[w] = "cancelled" => ParseTimeout > 0
        /\ step[w] = "returning" => Tree(item[w], result[w]) \/ TimedOut(result[w])
        /\ step[w] = "parsed" =>
            \/ result[w].skip = "too large" /\ Size[item[w]] > MaxFileBytes
            \/ /\ Fitting(item[w])
               /\ \/ Tree(item[w], result[w]) /\ Loads[GrammarOf[item[w]]]
                  \/ TimedOut(result[w])
                  \/ result[w].skip = "parser"

Inv == TypeOK /\ NotShared /\ Clean /\ Sourced
-----------------------------------------------------------------------------
(* Sequences.                                                              *)

\* What is left of a pool when its last parser has been taken.
LEMMA Popped ==
    ASSUME NEW S, NEW s \in Seq(S), s # <<>>
    PROVE  /\ SubSeq(s, 1, Len(s) - 1) \in Seq(S)
           /\ Len(SubSeq(s, 1, Len(s) - 1)) = Len(s) - 1
           /\ DOMAIN SubSeq(s, 1, Len(s) - 1) = 1 .. Len(s) - 1
           /\ \A i \in 1 .. Len(s) - 1 : SubSeq(s, 1, Len(s) - 1)[i] = s[i]
           /\ Len(s) \in DOMAIN s
<1>1. Len(s) \in Nat /\ Len(s) > 0 /\ DOMAIN s = 1 .. Len(s)
    BY EmptySeq
<1>2. \A i \in 1 .. Len(s) - 1 : s[i] \in S
    BY <1>1
<1>3. /\ SubSeq(s, 1, Len(s) - 1) \in Seq(S)
      /\ Len(SubSeq(s, 1, Len(s) - 1)) = IF 1 <= Len(s) - 1 THEN Len(s) - 1 - 1 + 1 ELSE 0
      /\ \A i \in 1 .. Len(s) - 1 - 1 + 1 : SubSeq(s, 1, Len(s) - 1)[i] = s[1 + i - 1]
    BY <1>1, <1>2, SubSeqProperties
<1> QED BY <1>1, <1>3

\* Noting what a parser has not finished keeps the list of parsers as it is.
LEMMA Noted ==
    ASSUME TypeOK, NEW p \in Parsers, NEW f \in Files \cup {NoFile}, left' = [left EXCEPT ![p] = f]
    PROVE  /\ left' \in Seq(Files \cup {NoFile})
           /\ Parsers' = Parsers
           /\ left'[p] = f
           /\ \A q \in Parsers \ {p} : left'[q] = left[q]
<1>1. left \in Seq(Files \cup {NoFile}) /\ Parsers = 1 .. Len(left)
    BY DEF TypeOK, Parsers
<1>2. left' \in Seq(Files \cup {NoFile})
    BY <1>1, ExceptSeq
<1> QED BY <1>1, <1>2 DEF Parsers
-----------------------------------------------------------------------------
(* The invariant.                                                          *)

\* Nobody holds a parser at the start.
LEMMA InitInv == Init => Inv
<1> SUFFICES ASSUME Init PROVE Inv
    OBVIOUS
<1> USE PoolAssumption
<1>1. left = <<>> /\ left \in Seq(Files \cup {NoFile}) /\ Parsers = {}
    BY EmptySeq DEF Init, Parsers
<1>2. pool \in [Grammars -> Seq(Parsers)] /\ \A g \in Grammars : DOMAIN pool[g] = {}
    BY EmptySeq DEF Init
<1>3. TypeOK
    BY <1>1, <1>2 DEF Init, TypeOK, Steps, Holding, Results, NoResult
<1>4. NotShared /\ Clean
    BY <1>2 DEF Init, NotShared, Clean, Holding
<1>5. Sourced
    BY DEF Init, Sourced, Holding
<1> QED BY <1>3, <1>4, <1>5 DEF Inv

\* A step in which no parser changes hands and no parse begins or ends.
LEMMA NoParserStep ==
    ASSUME Inv,
           \/ \E m \in Modes : SetExtractionMode(m)
           \/ \E w \in Workers :
                \/ \E f \in todo : Begin(w, f)
                \/ ScanOnly(w) \/ RefuseLarge(w) \/ VisitTree(w) \/ FallBack(w)
    PROVE  Inv'
<1> DEFINE Kept(w) == step'[w] = step[w] /\ item'[w] = item[w] /\ result'[w] = result[w]
<1>1. pool' = pool /\ left' = left /\ parser' = parser /\ Parsers' = Parsers
    BY DEF SetExtractionMode, Begin, ScanOnly, RefuseLarge, VisitTree, FallBack, Release, pools, workers, Parsers
<1>2. ASSUME \A w \in Workers : step'[w] \in Holding \/ step[w] \in Holding => Kept(w)
      PROVE  NotShared' /\ Clean'
  <2>1. NotShared'
    BY <1>1, <1>2 DEF Inv, NotShared
  <2>2. Clean'
    BY <1>1, <1>2 DEF Inv, Clean, Holding
  <2> QED BY <2>1, <2>2
<1>3. CASE \E m \in Modes : SetExtractionMode(m)
  <2>1. TypeOK'
    BY <1>1, <1>3 DEF Inv, TypeOK, SetExtractionMode, files, workers
  <2>2. UNCHANGED <<step, item, result>>
    BY <1>3 DEF SetExtractionMode, workers
  <2> QED BY <1>2, <2>1, <2>2 DEF Inv, Sourced
<1>4. ASSUME NEW w \in Workers, NEW f \in todo, Begin(w, f) PROVE Inv'
  <2> USE <1>4 DEF Begin
  <2>1. f \in Files /\ f # NoFile /\ Current \in Modes
    BY PoolAssumption DEF Inv, TypeOK, Current
  <2>2. TypeOK'
    <3>1. /\ step' \in [Workers -> Steps] /\ item' \in [Workers -> Files \cup {NoFile}]
          /\ mode' \in [Workers -> Modes \cup {Absent}] /\ todo' \in SUBSET batch'
      BY <2>1 DEF Inv, TypeOK, Steps
    <3>2. \A v \in Workers : item'[v] = NoFile <=> step'[v] = "idle"
      BY <2>1 DEF Inv, TypeOK
    <3>3. \A v \in Workers : parser'[v] = 0 <=> step'[v] \notin Holding
      BY <1>1 DEF Inv, TypeOK, Holding
    <3> QED BY <1>1, <3>1, <3>2, <3>3 DEF Inv, TypeOK
  <2>3. Sourced'
    BY DEF Inv, TypeOK, Sourced, Holding
  <2>4. \A v \in Workers : step'[v] \in Holding \/ step[v] \in Holding => Kept(v)
    BY DEF Inv, TypeOK, Holding
  <2> QED BY <1>2, <2>2, <2>3, <2>4 DEF Inv
<1>5. ASSUME NEW w \in Workers, step[w] \in {"begun", "parsed"}, Release(w), UNCHANGED <<override, batch, todo, lost>>,
             NEW p \in Partitions, answer' = [answer EXCEPT ![item[w]] = p]
      PROVE  Inv'
  <2> USE <1>5 DEF Release
  <2>1. TypeOK'
    BY <1>1, PoolAssumption DEF Inv, TypeOK, Steps, Holding, NoResult, Results
  <2>2. Sourced'
    BY DEF Inv, TypeOK, Sourced, Holding
  <2>3. \A v \in Workers : step'[v] \in Holding \/ step[v] \in Holding => Kept(v)
    BY DEF Inv, TypeOK, Holding
  <2> QED BY <1>2, <2>1, <2>2, <2>3 DEF Inv
<1>6. \A w \in Workers : step[w] # "idle" => item[w] \in Files
    BY DEF Inv, TypeOK
<1>7. ASSUME NEW w \in Workers, ScanOnly(w) PROVE Inv'
  <2>1. Partition("scanner", item[w], Absent) \in Partitions
    BY <1>6, <1>7 DEF ScanOnly, Partition, Partitions
  <2> QED BY <1>5, <1>7, <2>1 DEF ScanOnly
<1>8. ASSUME NEW w \in Workers, RefuseLarge(w) PROVE Inv'
  <2> USE <1>8 DEF RefuseLarge
  <2>1. TypeOK'
    BY <1>1 DEF Inv, TypeOK, Steps, Holding, Results, Reasons, files
  <2>2. Sourced'
    BY DEF Inv, TypeOK, Sourced, Holding
  <2>3. \A v \in Workers : step'[v] \in Holding \/ step[v] \in Holding => Kept(v)
    BY DEF Inv, TypeOK, Holding
  <2> QED BY <1>2, <2>1, <2>2, <2>3 DEF Inv
<1>9. ASSUME NEW w \in Workers, VisitTree(w) PROVE Inv'
  <2>1. result[w].skip \notin Reasons
    BY <1>9, PoolAssumption DEF VisitTree
  <2>2. Tree(item[w], result[w])
    BY <1>9, <2>1 DEF Inv, Sourced, VisitTree, TimedOut, Reasons
  <2>3. Partition("tree", result[w].source, Absent) \in Partitions
    BY <1>6, <1>9, <2>2 DEF VisitTree, Tree, Partition, Partitions
  <2> QED BY <1>5, <1>9, <2>3 DEF VisitTree
<1>10. ASSUME NEW w \in Workers, FallBack(w) PROVE Inv'
  <2>1. result[w].skip \in Reasons
    BY <1>10 DEF Inv, TypeOK, FallBack, Results
  <2>2. \A by \in {"scanner", "nothing"} : Partition(by, item[w], result[w].skip) \in Partitions
    BY <1>6, <1>10, <2>1 DEF FallBack, Partition, Partitions
  <2> QED BY <1>5, <1>10, <2>2 DEF FallBack
<1> QED BY <1>3, <1>4, <1>7, <1>8, <1>9, <1>10

\* A parser is taken: a new one nobody has, or the last of the pool.
LEMMA TakeStep ==
    ASSUME Inv, NEW w \in Workers, TakeParser(w)
    PROVE  Inv'
<1> DEFINE g == GrammarOf[item[w]]
<1>1. item[w] \in Files /\ g \in Grammars /\ step[w] = "begun"
    BY PoolAssumption DEF Inv, TypeOK, TakeParser, MayParse, NeedsParser
<1>2. Sourced'
    BY <1>1 DEF Inv, TypeOK, Sourced, TakeParser, MayParse, NeedsParser, Fitting, Holding
<1>3. /\ step' \in [Workers -> Steps] /\ UNCHANGED <<override, batch, todo, item, mode, result, answer, lost>>
      /\ \A v \in Workers : item'[v] = NoFile <=> step'[v] = "idle"
    BY <1>1 DEF Inv, TypeOK, TakeParser, MayParse, Steps, files
<1>4. \A v \in Workers \ {w} : step'[v] = step[v] /\ parser'[v] = parser[v]
    BY DEF Inv, TypeOK, TakeParser, MayParse
<1>5. step'[w] = "parsing" /\ step[w] \notin Holding
    BY <1>1 DEF Inv, TypeOK, TakeParser, MayParse, Holding
<1>6. CASE pool[g] = <<>>
  <2>1. /\ parser' = [parser EXCEPT ![w] = Len(left) + 1]
        /\ left' = Append(left, NoFile) /\ pool' = pool
    BY <1>6 DEF TakeParser
  <2>2. /\ left \in Seq(Files \cup {NoFile}) /\ Parsers = 1 .. Len(left) /\ Len(left) \in Nat
    BY DEF Inv, TypeOK, Parsers
  <2>3. /\ left' \in Seq(Files \cup {NoFile}) /\ Parsers' = 1 .. Len(left) + 1
        /\ left'[Len(left) + 1] = NoFile /\ \A p \in Parsers : left'[p] = left[p]
    BY <2>1, <2>2, AppendProperties DEF Parsers
  <2>4. /\ parser'[w] = Len(left) + 1 /\ parser'[w] \notin Parsers /\ parser'[w] # 0
        /\ Parsers \subseteq Parsers'
    BY <2>1, <2>2, <2>3 DEF Inv, TypeOK
  <2>5. pool' \in [Grammars -> Seq(Parsers')] /\ parser' \in [Workers -> Parsers' \cup {0}]
    <3>1. \A h \in Grammars : pool[h] \in Seq(Parsers')
      BY <2>4 DEF Inv, TypeOK
    <3> QED BY <2>1, <2>2, <2>3, <2>4, <3>1 DEF Inv, TypeOK
  <2>6. TypeOK'
    BY <1>3, <1>4, <1>5, <2>3, <2>4, <2>5 DEF Inv, TypeOK, Holding
  <2>7. \A h \in Grammars : \A i \in DOMAIN pool[h] : pool[h][i] \in Parsers
    BY DEF Inv, TypeOK
  <2>8. NotShared'
    BY <1>4, <1>5, <2>1, <2>4, <2>7 DEF Inv, TypeOK, NotShared
  <2>9. \A v \in Workers : step[v] \in {"parsing", "returning"} => parser[v] \in Parsers
    BY DEF Inv, TypeOK, Holding
  <2>10. \A h \in Grammars : \A i \in DOMAIN pool'[h] : left'[pool'[h][i]] = NoFile
    BY <2>1, <2>3, <2>7 DEF Inv, Clean
  <2>11. \A v \in Workers : step'[v] \in {"parsing", "returning"} => left'[parser'[v]] = NoFile
    <3>1. left'[parser'[w]] = NoFile
      BY <2>3, <2>4
    <3>2. ASSUME NEW v \in Workers \ {w}, step'[v] \in {"parsing", "returning"}
          PROVE  left'[parser'[v]] = NoFile
      BY <1>4, <2>3, <2>9, <3>2 DEF Inv, Clean
    <3> QED BY <3>1, <3>2
  <2>12. Clean'
    BY <2>10, <2>11 DEF Clean
  <2> QED BY <1>2, <2>6, <2>8, <2>12 DEF Inv
<1>7. CASE pool[g] # <<>>
  <2> DEFINE n == Len(pool[g])
             rest == SubSeq(pool[g], 1, n - 1)
  <2>1. /\ parser' = [parser EXCEPT ![w] = pool[g][n]]
        /\ left' = left /\ pool' = [pool EXCEPT ![g] = rest]
    BY <1>7 DEF TakeParser
  <2>2. /\ rest \in Seq(Parsers) /\ DOMAIN rest = 1 .. n - 1 /\ \A i \in 1 .. n - 1 : rest[i] = pool[g][i]
        /\ n \in DOMAIN pool[g] /\ DOMAIN pool[g] = 1 .. n /\ n \in Nat
    <3>1. pool[g] \in Seq(Parsers)
      BY <1>1 DEF Inv, TypeOK
    <3>2. n \in Nat /\ DOMAIN pool[g] = 1 .. n
      BY <3>1
    <3> QED BY <1>7, <3>1, <3>2, Popped
  <2> HIDE DEF rest, n
  <2>3. pool[g][n] \in Parsers /\ Parsers' = Parsers /\ parser'[w] = pool[g][n] /\ pool[g][n] # 0
    BY <1>1, <2>1, <2>2 DEF Inv, TypeOK, Parsers
  <2>4. TypeOK'
    <3>1. pool' \in [Grammars -> Seq(Parsers')] /\ parser' \in [Workers -> Parsers' \cup {0}]
      BY <1>1, <2>1, <2>2, <2>3 DEF Inv, TypeOK
    <3>2. \A v \in Workers : parser'[v] = 0 <=> step'[v] \notin Holding
      BY <1>4, <1>5, <2>3 DEF Inv, TypeOK, Holding
    <3> QED BY <1>3, <2>1, <3>1, <3>2 DEF Inv, TypeOK
  <2>5. \A h \in Grammars : \A i \in DOMAIN pool'[h] :
            i \in DOMAIN pool[h] /\ pool'[h][i] = pool[h][i] /\ (h = g => i # n)
    BY <1>1, <2>1, <2>2 DEF Inv, TypeOK
  <2>6. NotShared'
    <3>1. \A u, v \in Workers : step'[v] \in Holding /\ parser'[u] = parser'[v] => u = v
      BY <1>1, <1>4, <1>5, <2>2, <2>3 DEF Inv, NotShared
    <3>2. \A v \in Workers, h \in Grammars : \A i \in DOMAIN pool'[h] : parser'[v] # pool'[h][i]
      BY <1>1, <1>4, <2>2, <2>3, <2>5 DEF Inv, NotShared
    <3>3. \A h, k \in Grammars : \A i \in DOMAIN pool'[h], j \in DOMAIN pool'[k] :
            pool'[h][i] = pool'[k][j] => h = k /\ i = j
      BY <2>5 DEF Inv, NotShared
    <3> QED BY <3>1, <3>2, <3>3 DEF NotShared
  <2>7. Clean'
    BY <1>1, <1>4, <1>5, <2>1, <2>2, <2>3, <2>5 DEF Inv, Clean
  <2> QED BY <1>2, <2>4, <2>6, <2>7 DEF Inv
<1> QED BY <1>6, <1>7

\* A pool loses its last parser to nobody: the grammar is refused.
LEMMA RefuseStep ==
    ASSUME Inv, NEW w \in Workers, RefuseGrammar(w)
    PROVE  Inv'
<1> DEFINE g == GrammarOf[item[w]]
<1>1. item[w] \in Files /\ g \in Grammars /\ step[w] = "begun" /\ Fitting(item[w])
    BY PoolAssumption DEF Inv, TypeOK, RefuseGrammar, MayParse, NeedsParser, Fitting
<1>2. /\ UNCHANGED <<override, batch, todo, item, mode, parser, left, answer, lost>>
      /\ step' = [step EXCEPT ![w] = "parsed"] /\ Parsers' = Parsers
      /\ result' = [result EXCEPT ![w] = [source |-> NoFile, skip |-> "parser"]]
    BY DEF RefuseGrammar, files, Parsers
<1>3. Sourced'
    BY <1>1, <1>2 DEF Inv, TypeOK, Sourced, Holding
<1>4. /\ pool' \in [Grammars -> Seq(Parsers)]
      /\ \A h \in Grammars : \A i \in DOMAIN pool'[h] : i \in DOMAIN pool[h] /\ pool'[h][i] = pool[h][i]
  <2>1. pool[g] \in Seq(Parsers) /\ pool \in [Grammars -> Seq(Parsers)]
    BY <1>1 DEF Inv, TypeOK
  <2>2. CASE pool[g] = <<>>
    BY <1>1, <2>1, <2>2 DEF RefuseGrammar
  <2>3. CASE pool[g] # <<>>
    <3> DEFINE rest == SubSeq(pool[g], 1, Len(pool[g]) - 1)
    <3>1. pool' = [pool EXCEPT ![g] = rest]
      BY <2>3 DEF RefuseGrammar
    <3>2. /\ rest \in Seq(Parsers)
          /\ \A i \in DOMAIN rest : i \in DOMAIN pool[g] /\ rest[i] = pool[g][i]
      BY <2>1, <2>3, Popped
    <3> HIDE DEF rest
    <3> QED BY <1>1, <2>1, <3>1, <3>2
  <2> QED BY <2>2, <2>3
<1>5. TypeOK'
  <2>1. step' \in [Workers -> Steps] /\ result' \in [Workers -> Results]
    BY <1>2 DEF Inv, TypeOK, Steps, Results, Reasons
  <2>2. \A v \in Workers : (item'[v] = NoFile <=> step'[v] = "idle") /\ (parser'[v] = 0 <=> step'[v] \notin Holding)
    BY <1>1, <1>2 DEF Inv, TypeOK, Holding
  <2> QED BY <1>2, <1>4, <2>1, <2>2 DEF Inv, TypeOK
<1>6. NotShared'
    BY <1>2, <1>4 DEF Inv, TypeOK, NotShared, Holding
<1>7. Clean'
    BY <1>2, <1>4 DEF Inv, TypeOK, Clean
<1> QED BY <1>3, <1>5, <1>6, <1>7 DEF Inv

\* A worker goes on with the parser it holds; if that then returns, it has
\* nothing unfinished.
LEMMA ParsingStep ==
    ASSUME Inv, NEW w \in Workers, FinishParse(w) \/ CancelParse(w) \/ ResetParser(w)
    PROVE  Inv'
<1> DEFINE p == parser[w]
<1>1. p \in Parsers /\ item[w] \in Files /\ step \in [Workers -> Steps] /\ result \in [Workers -> Results]
    BY DEF Inv, TypeOK, Holding, FinishParse, CancelParse, ResetParser
<1>2. UNCHANGED <<override, batch, todo, item, mode, parser, pool, answer, lost>>
    BY DEF FinishParse, CancelParse, ResetParser, files
<1>3. PICK s \in {"cancelled", "returning"} :
            step' = [step EXCEPT ![w] = s] /\ step[w] \in Holding /\ (s = "cancelled" => ParseTimeout > 0)
    BY DEF Holding, FinishParse, CancelParse, ResetParser
<1>4. PICK f \in Files \cup {NoFile} :
            left' = [left EXCEPT ![p] = f] /\ (s = "returning" => f = NoFile)
  <2>1. Parsed(w) \in Files \cup {NoFile}
    BY <1>1 DEF Inv, TypeOK, Parsed, Parsers
  <2> QED BY <1>1, <1>3, <2>1 DEF FinishParse, CancelParse, ResetParser
<1>5. PICK r \in Results : result' = [result EXCEPT ![w] = r] /\ (s = "returning" => Tree(item[w], r) \/ TimedOut(r))
  <2>1. CASE FinishParse(w)
    <3>1. Parsed(w) = item[w]
      BY <2>1 DEF Inv, Clean, FinishParse, Parsed
    <3>2. [source |-> item[w], skip |-> Absent] \in Results
      BY <1>1 DEF Results
    <3> QED BY <2>1, <3>1, <3>2 DEF FinishParse, Tree
  <2>2. CASE CancelParse(w)
    <3>1. result' = [result EXCEPT ![w] = result[w]] /\ s = "cancelled"
      BY <1>1, <1>3, <2>2 DEF CancelParse
    <3> QED BY <1>1, <3>1
  <2>3. CASE ResetParser(w)
    <3>1. [source |-> NoFile, skip |-> "timeout"] \in Results
      BY DEF Results, Reasons
    <3>2. ParseTimeout > 0
      BY <2>3 DEF Inv, Sourced, ResetParser
    <3> QED BY <2>3, <3>1, <3>2 DEF ResetParser, TimedOut
  <2> QED BY <2>1, <2>2, <2>3
<1>6. /\ left' \in Seq(Files \cup {NoFile}) /\ Parsers' = Parsers
      /\ left'[p] = f /\ \A q \in Parsers \ {p} : left'[q] = left[q]
    BY <1>1, <1>4, Noted DEF Inv
<1>7. TypeOK'
  <2>1. step' \in [Workers -> Steps] /\ result' \in [Workers -> Results]
    BY <1>1, <1>3, <1>5 DEF Steps
  <2>2. \A v \in Workers : (item'[v] = NoFile <=> step'[v] = "idle") /\ (parser'[v] = 0 <=> step'[v] \notin Holding)
    BY <1>1, <1>2, <1>3 DEF Inv, TypeOK, Holding
  <2> QED BY <1>2, <1>6, <2>1, <2>2 DEF Inv, TypeOK
<1>8. NotShared'
    BY <1>1, <1>2, <1>3 DEF Inv, TypeOK, NotShared, Holding
<1>9. Clean'
  <2>1. \A g \in Grammars : \A i \in DOMAIN pool[g] : pool[g][i] \in Parsers \ {p}
    BY DEF Inv, TypeOK, NotShared
  <2>2. \A v \in Workers \ {w} : step[v] \in Holding => parser[v] \in Parsers \ {p}
    BY DEF Inv, TypeOK, NotShared, Holding
  <2>3. ASSUME NEW v \in Workers, step'[v] \in {"parsing", "returning"} PROVE left'[parser'[v]] = NoFile
    <3>1. CASE v = w
      BY <1>1, <1>2, <1>3, <1>4, <1>6, <2>3, <3>1
    <3>2. CASE v # w
      BY <1>1, <1>2, <1>3, <1>6, <2>2, <2>3, <3>2 DEF Inv, Clean, Holding
    <3> QED BY <3>1, <3>2
  <2> QED BY <1>2, <1>6, <2>1, <2>3 DEF Inv, Clean
<1>10. Sourced'
    BY <1>1, <1>2, <1>3, <1>5 DEF Inv, Sourced, Holding
<1> QED BY <1>7, <1>8, <1>9, <1>10 DEF Inv

\* A parser goes back to the pool of its grammar.
LEMMA ReturnStep ==
    ASSUME Inv, NEW w \in Workers, ReturnParser(w)
    PROVE  Inv'
<1> DEFINE g == GrammarOf[item[w]]
           p == parser[w]
           longer == Append(pool[g], p)
           n == Len(pool[g]) + 1
<1>1. item[w] \in Files /\ g \in Grammars /\ step[w] = "returning" /\ p \in Parsers
    BY PoolAssumption DEF Inv, TypeOK, Sourced, Fitting, Holding, ReturnParser
<1>2. /\ UNCHANGED <<override, batch, todo, item, mode, result, left, answer, lost>>
      /\ step' = [step EXCEPT ![w] = "parsed"] /\ parser' = [parser EXCEPT ![w] = 0]
      /\ pool' = [pool EXCEPT ![g] = longer] /\ Parsers' = Parsers
    BY DEF ReturnParser, files, Parsers
<1>3. Sourced'
    BY <1>1, <1>2 DEF Inv, TypeOK, Sourced, Holding
<1>4. /\ longer \in Seq(Parsers) /\ DOMAIN longer = DOMAIN pool[g] \cup {n} /\ n \notin DOMAIN pool[g]
      /\ longer[n] = p /\ \A i \in DOMAIN pool[g] : longer[i] = pool[g][i]
  <2>1. pool[g] \in Seq(Parsers)
    BY <1>1 DEF Inv, TypeOK
  <2>2. /\ longer \in Seq(Parsers) /\ Len(longer) = n /\ longer[n] = p
        /\ \A i \in 1 .. Len(pool[g]) : longer[i] = pool[g][i]
    BY <1>1, <2>1, AppendProperties
  <2>3. DOMAIN pool[g] = 1 .. Len(pool[g]) /\ Len(pool[g]) \in Nat /\ DOMAIN longer = 1 .. n
    BY <2>1, <2>2
  <2> QED BY <2>2, <2>3
<1> HIDE DEF longer, n
<1>5. \A h \in Grammars : \A i \in DOMAIN pool'[h] :
        IF h = g /\ i = n THEN pool'[h][i] = p ELSE i \in DOMAIN pool[h] /\ pool'[h][i] = pool[h][i]
    BY <1>1, <1>2, <1>4 DEF Inv, TypeOK
<1>6. TypeOK'
  <2>1. pool' \in [Grammars -> Seq(Parsers)] /\ parser' \in [Workers -> Parsers \cup {0}] /\ step' \in [Workers -> Steps]
    BY <1>2, <1>4 DEF Inv, TypeOK, Steps
  <2>2. \A v \in Workers : (item'[v] = NoFile <=> step'[v] = "idle") /\ (parser'[v] = 0 <=> step'[v] \notin Holding)
    BY <1>1, <1>2 DEF Inv, TypeOK, Holding
  <2> QED BY <1>2, <2>1, <2>2 DEF Inv, TypeOK
<1>7. NotShared'
  <2>1. parser'[w] = 0 /\ step'[w] \notin Holding
        /\ \A v \in Workers \ {w} : step'[v] = step[v] /\ parser'[v] = parser[v] /\ parser[v] # p
    BY <1>1, <1>2 DEF Inv, TypeOK, NotShared, Holding
  <2>2. \A h \in Grammars : \A i \in DOMAIN pool[h] : pool[h][i] # p /\ pool[h][i] # 0
    BY <1>1 DEF Inv, TypeOK, NotShared, Parsers
  <2>3. p # 0
    BY <1>1 DEF Inv, TypeOK, Holding
  <2>4. \A u, v \in Workers : step'[v] \in Holding /\ parser'[u] = parser'[v] => u = v
    <3>1. \A v \in Workers \ {w} : step[v] \in Holding => parser[v] # 0
      BY DEF Inv, TypeOK
    <3> QED BY <2>1, <3>1 DEF Inv, NotShared
  <2>5. \A v \in Workers, h \in Grammars : \A i \in DOMAIN pool'[h] : parser'[v] # pool'[h][i]
    BY <1>5, <2>1, <2>2, <2>3 DEF Inv, NotShared
  <2>6. \A h, k \in Grammars : \A i \in DOMAIN pool'[h], j \in DOMAIN pool'[k] :
            pool'[h][i] = pool'[k][j] => h = k /\ i = j
    BY <1>5, <2>2 DEF Inv, NotShared
  <2> QED BY <2>4, <2>5, <2>6 DEF NotShared
<1>8. Clean'
  <2>1. left[p] = NoFile
    BY <1>1 DEF Inv, Clean
  <2> QED BY <1>1, <1>2, <1>5, <2>1 DEF Inv, TypeOK, Clean
<1> QED BY <1>3, <1>6, <1>7, <1>8 DEF Inv

\* A panic drops what the worker holds.
LEMMA PanicStep ==
    ASSUME Inv, NEW w \in Workers, Panic(w)
    PROVE  Inv'
<1>1. /\ UNCHANGED <<override, batch, todo, answer, pool, left>> /\ Parsers' = Parsers
      /\ step' = [step EXCEPT ![w] = "idle"] /\ item' = [item EXCEPT ![w] = NoFile]
      /\ mode' = [mode EXCEPT ![w] = Absent] /\ result' = [result EXCEPT ![w] = NoResult]
      /\ parser' = [parser EXCEPT ![w] = 0] /\ lost' = lost \cup {item[w]} /\ item[w] \in Files
    BY DEF Inv, TypeOK, Panic, Release, pools, Parsers
<1>2. TypeOK'
  <2>1. /\ step' \in [Workers -> Steps] /\ item' \in [Workers -> Files \cup {NoFile}]
        /\ mode' \in [Workers -> Modes \cup {Absent}] /\ parser' \in [Workers -> Parsers \cup {0}]
        /\ result' \in [Workers -> Results] /\ lost' \in SUBSET Files
    BY <1>1 DEF Inv, TypeOK, Steps, NoResult, Results
  <2>2. \A v \in Workers : (item'[v] = NoFile <=> step'[v] = "idle") /\ (parser'[v] = 0 <=> step'[v] \notin Holding)
    BY <1>1 DEF Inv, TypeOK, Holding
  <2> QED BY <1>1, <2>1, <2>2 DEF Inv, TypeOK
<1>3. \A g \in Grammars : \A i \in DOMAIN pool[g] : pool[g][i] # 0
    BY DEF Inv, TypeOK, Parsers
<1>4. \A v \in Workers : step'[v] \in Holding => v # w /\ step'[v] = step[v] /\ parser'[v] = parser[v] /\ parser[v] # 0
    BY <1>1 DEF Inv, TypeOK, Holding
<1>5. \A v \in Workers : parser'[v] = 0 \/ parser'[v] = parser[v]
    BY <1>1 DEF Inv, TypeOK
<1>6. NotShared'
    BY <1>1, <1>3, <1>4, <1>5 DEF Inv, NotShared
<1>7. Clean'
    BY <1>1, <1>4 DEF Inv, Clean, Holding
<1>8. Sourced'
    BY <1>1 DEF Inv, TypeOK, Sourced, Holding
<1> QED BY <1>2, <1>6, <1>7, <1>8 DEF Inv

\* Every step keeps the invariant.
LEMMA StepInv == Inv /\ [Next]_vars => Inv'
<1> SUFFICES ASSUME Inv, [Next]_vars PROVE Inv'
    OBVIOUS
<1>1. CASE UNCHANGED vars
  <2>1. UNCHANGED <<override, batch, todo, step, item, mode, parser, result, pool, left, answer, lost>>
    BY <1>1 DEF vars, files, workers, pools
  <2>2. TypeOK'
    BY <2>1 DEF Inv, TypeOK, Parsers
  <2>3. NotShared'
    BY <2>1 DEF Inv, NotShared
  <2>4. Clean' /\ Sourced'
    BY <2>1 DEF Inv, Clean, Sourced
  <2> QED BY <2>2, <2>3, <2>4 DEF Inv
<1>2. CASE Next
    BY <1>2, NoParserStep, TakeStep, RefuseStep, ParsingStep, ReturnStep, PanicStep DEF Next
<1> QED BY <1>1, <1>2

\* The inductive invariant: types, parsers in one place each, and none of them
\* with an unfinished parse outside of a cancellation.
THEOREM Invariant == Spec => []Inv
BY InitInv, StepInv, PTL DEF Spec

\* Types, and every parser in hand exactly while it is needed.
THEOREM Types == Spec => []TypeOK
<1>1. Inv => TypeOK
    BY DEF Inv
<1> QED BY <1>1, Invariant, PTL
-----------------------------------------------------------------------------
(* Never more parsers of a grammar than workers.                           *)

\* The holders of a grammar's parsers are finitely many.
LEMMA HoldersFinite ==
    ASSUME NEW g \in Grammars
    PROVE  IsFiniteSet(Holders(g)) /\ Cardinality(Holders(g)) \in Nat
           /\ Cardinality(Holders(g)) <= Cardinality(Workers) /\ Cardinality(Workers) \in Nat
<1>1. Holders(g) \in SUBSET Workers
    BY DEF Holders
<1> QED BY <1>1, PoolAssumption, FS_Subset, FS_CardinalityType

\* While no parser changes hands, neither count changes.
LEMMA QuietStep ==
    ASSUME Inv, Bounded, [Next]_vars,
           \A w \in Workers : ~(TakeParser(w) \/ RefuseGrammar(w) \/ ReturnParser(w) \/ Panic(w))
    PROVE  Bounded'
<1>1. pool' = pool
    BY DEF Next, vars, pools, SetExtractionMode, Begin, ScanOnly, RefuseLarge, FinishParse, CancelParse,
           ResetParser, VisitTree, FallBack
<1>2. \A w \in Workers : (step'[w] \in Holding <=> step[w] \in Holding) /\ (step[w] \in Holding => item'[w] = item[w])
  <2>1. step \in [Workers -> Steps] /\ item \in [Workers -> Files \cup {NoFile}]
    BY DEF Inv, TypeOK
  <2>2. CASE (\E m \in Modes : SetExtractionMode(m)) \/ UNCHANGED vars
    BY <2>2 DEF SetExtractionMode, vars, workers
  <2>3. ASSUME NEW v \in Workers,
               (\E f \in todo : Begin(v, f)) \/ ScanOnly(v) \/ RefuseLarge(v) \/ VisitTree(v) \/ FallBack(v)
        PROVE  \A w \in Workers : (step'[w] \in Holding <=> step[w] \in Holding) /\ (step[w] \in Holding => item'[w] = item[w])
    <3>1. /\ step[v] \notin Holding
          /\ \E t \in Steps \ Holding : step' = [step EXCEPT ![v] = t]
          /\ \E f : item' = [item EXCEPT ![v] = f]
      <4>1. item = [item EXCEPT ![v] = item[v]]
        BY <2>1
      <4> QED BY <2>3, <4>1 DEF Begin, ScanOnly, RefuseLarge, VisitTree, FallBack, Release, Steps, Holding
    <3> QED BY <2>1, <3>1
  <2>4. ASSUME NEW v \in Workers, FinishParse(v) \/ CancelParse(v) \/ ResetParser(v)
        PROVE  \A w \in Workers : (step'[w] \in Holding <=> step[w] \in Holding) /\ (step[w] \in Holding => item'[w] = item[w])
    <3>1. /\ step[v] \in Holding /\ item' = item
          /\ \E t \in Holding : step' = [step EXCEPT ![v] = t]
      BY <2>4 DEF FinishParse, CancelParse, ResetParser, Holding
    <3> QED BY <2>1, <3>1
  <2> QED BY <2>2, <2>3, <2>4 DEF Next
<1>3. \A g \in Grammars : Holders(g)' = Holders(g)
    BY <1>2 DEF Holders
<1> QED BY <1>1, <1>3 DEF Bounded

\* A parser that is made, moved or dropped.
LEMMA BoundedStep == Inv /\ Bounded /\ [Next]_vars => Bounded'
<1> SUFFICES ASSUME Inv, Bounded, [Next]_vars PROVE Bounded'
    OBVIOUS
<1>1. CASE \A w \in Workers : ~(TakeParser(w) \/ RefuseGrammar(w) \/ ReturnParser(w) \/ Panic(w))
    BY <1>1, QuietStep
<1>2. ASSUME NEW w \in Workers, TakeParser(w) \/ RefuseGrammar(w) \/ ReturnParser(w) \/ Panic(w)
      PROVE  Bounded'
  <2> SUFFICES ASSUME NEW h \in Grammars
               PROVE  Len(pool'[h]) + Cardinality(Holders(h)') <= Cardinality(Workers)
    BY DEF Bounded
  <2> DEFINE g == GrammarOf[item[w]]
  <2>1. /\ step \in [Workers -> Steps] /\ item \in [Workers -> Files \cup {NoFile}]
        /\ pool \in [Grammars -> Seq(Parsers)] /\ pool[h] \in Seq(Parsers) /\ Len(pool[h]) \in Nat
    BY DEF Inv, TypeOK
  <2>2. /\ IsFiniteSet(Holders(h)) /\ Cardinality(Holders(h)) \in Nat /\ Cardinality(Workers) \in Nat
        /\ Len(pool[h]) + Cardinality(Holders(h)) <= Cardinality(Workers)
    BY HoldersFinite DEF Bounded
  <2>3. Holders(h)' \in SUBSET Workers
    BY DEF Holders
  <2>4. /\ IsFiniteSet(Holders(h)') /\ Cardinality(Holders(h)') \in Nat
        /\ Cardinality(Holders(h)') <= Cardinality(Workers)
    BY <2>3, PoolAssumption, FS_Subset, FS_CardinalityType
  <2>5. ASSUME Holders(h)' \in SUBSET Holders(h)
        PROVE  Cardinality(Holders(h)') <= Cardinality(Holders(h))
    BY <2>2, <2>5, FS_Subset
  <2>6. CASE TakeParser(w)
    <3>1. item[w] \in Files /\ g \in Grammars /\ step[w] \notin Holding
      BY <2>6, PoolAssumption DEF Inv, TypeOK, TakeParser, MayParse, NeedsParser, Holding
    <3>2. w \notin Holders(h) /\ Holders(h)' \in SUBSET (Holders(h) \cup {w}) /\ (h # g => Holders(h)' \in SUBSET Holders(h))
      BY <2>1, <2>6, <3>1 DEF TakeParser, Holders, Holding
    <3>3. CASE h # g
      <4>1. pool'[h] = pool[h]
        BY <2>1, <2>6, <3>3 DEF TakeParser
      <4> QED BY <2>2, <2>4, <2>5, <3>2, <3>3, <4>1
    <3>4. CASE h = g /\ pool[g] = <<>>
      <4>1. Len(pool'[h]) = 0
        BY <2>6, <3>4 DEF TakeParser
      <4> QED BY <2>4, <4>1
    <3>5. CASE h = g /\ pool[g] # <<>>
      <4>1. pool'[h] = SubSeq(pool[h], 1, Len(pool[h]) - 1)
        BY <2>1, <2>6, <3>1, <3>5 DEF TakeParser
      <4>2. Len(pool'[h]) = Len(pool[h]) - 1
        BY <2>1, <3>5, <4>1, Popped
      <4>3. Cardinality(Holders(h) \cup {w}) = Cardinality(Holders(h)) + 1 /\ IsFiniteSet(Holders(h) \cup {w})
        BY <2>2, <3>2, FS_AddElement
      <4>4. Cardinality(Holders(h)') <= Cardinality(Holders(h) \cup {w})
        BY <3>2, <4>3, FS_Subset
      <4> QED BY <2>1, <2>2, <2>4, <4>2, <4>3, <4>4
    <3> QED BY <3>3, <3>4, <3>5
  <2>7. CASE RefuseGrammar(w)
    <3>1. item[w] \in Files /\ g \in Grammars
      BY <2>7, PoolAssumption DEF Inv, TypeOK, RefuseGrammar, MayParse, NeedsParser
    <3>2. Holders(h)' \in SUBSET Holders(h)
      BY <2>1, <2>7 DEF RefuseGrammar, Holders, Holding
    <3>3. Len(pool'[h]) <= Len(pool[h]) /\ Len(pool'[h]) \in Nat
      <4>1. CASE h = g /\ pool[h] # <<>>
        <5>1. pool'[h] = SubSeq(pool[h], 1, Len(pool[h]) - 1)
          BY <2>1, <2>7, <3>1, <4>1 DEF RefuseGrammar
        <5> QED BY <2>1, <4>1, <5>1, Popped
      <4>2. CASE h # g \/ pool[h] = <<>>
        <5>1. pool'[h] = pool[h]
          BY <2>1, <2>7, <3>1, <4>2 DEF RefuseGrammar
        <5> QED BY <2>1, <5>1
      <4> QED BY <4>1, <4>2
    <3> QED BY <2>1, <2>2, <2>4, <2>5, <3>2, <3>3
  <2>8. CASE ReturnParser(w)
    <3>1. g \in Grammars /\ parser[w] \in Parsers /\ step[w] \in Holding /\ item' = item
      BY <2>8, PoolAssumption DEF Inv, TypeOK, Sourced, Fitting, Holding, ReturnParser
    <3>2. Holders(h)' = Holders(h) \ {w}
      BY <2>1, <2>8 DEF ReturnParser, Holders, Holding
    <3>3. CASE h = g
      <4>1. pool'[h] = Append(pool[h], parser[w])
        BY <2>1, <2>8, <3>1, <3>3 DEF ReturnParser
      <4>2. Len(pool'[h]) = Len(pool[h]) + 1
        BY <2>1, <3>1, <4>1, AppendProperties
      <4>3. w \in Holders(h)
        BY <3>1, <3>3 DEF Holders
      <4>4. Cardinality(Holders(h)') = Cardinality(Holders(h)) - 1
        BY <2>2, <3>2, <4>3, FS_RemoveElement
      <4> QED BY <2>1, <2>2, <4>2, <4>4
    <3>4. CASE h # g
      <4>1. pool'[h] = pool[h]
        BY <2>1, <2>8, <3>4 DEF ReturnParser
      <4> QED BY <2>1, <2>2, <2>4, <2>5, <3>2, <4>1
    <3> QED BY <3>3, <3>4
  <2>9. CASE Panic(w)
    <3>1. pool' = pool /\ Holders(h)' \in SUBSET Holders(h)
      BY <2>1, <2>9 DEF Panic, Release, Holders, Holding, pools
    <3> QED BY <2>1, <2>2, <2>4, <2>5, <3>1
  <2> QED BY <1>2, <2>6, <2>7, <2>8, <2>9
<1> QED BY <1>1, <1>2

\* The pools hand out every parser once and clean, and there are never more of
\* them than workers, whatever panics, times out or fails.
THEOREM Soundness == Spec => []PoolIsSound
<1>1. Init => Bounded
  <2> SUFFICES ASSUME Init, NEW g \in Grammars
               PROVE  Len(pool[g]) + Cardinality(Holders(g)) <= Cardinality(Workers)
    BY DEF Bounded
  <2>1. Len(pool[g]) = 0
    BY DEF Init
  <2> QED BY <2>1, HoldersFinite
<1>2. Inv /\ Bounded => PoolIsSound
    BY DEF Inv, PoolIsSound
<1> QED BY <1>1, <1>2, BoundedStep, Invariant, PTL DEF Spec
-----------------------------------------------------------------------------
(* Every answer is about its file.                                         *)

\* A file that is in hand is of the batch and neither waiting nor answered nor
\* lost; nobody else has it.
InHand ==
    \A w \in Workers :
        item[w] # NoFile =>
            /\ item[w] \in batch \ todo
            /\ item[w] \notin lost
            /\ answer[item[w]] = Absent
            /\ \A v \in Workers : item[v] = item[w] => v = w
Waiting == \A f \in todo : f \notin lost /\ answer[f] = Absent
Settled ==
    \A f \in batch \ todo :
        \/ \E w \in Workers : item[w] = f
        \/ f \in lost /\ answer[f] = Absent
        \/ f \notin lost /\ answer[f] # Absent

\* What is said of an answer.
Apt(f, a) ==
    /\ a.source = f
    /\ a.by = "tree" =>
            GrammarOf[f] # Absent /\ Loads[GrammarOf[f]] /\ Size[f] <= MaxFileBytes /\ a.skip = Absent
    /\ a.by = "nothing" => a.skip # Absent
    /\ a.skip = "too large" <=> a.skip # Absent /\ Size[f] > MaxFileBytes
    /\ a.skip = "timeout" => ParseTimeout > 0
Answered == \A f \in Files : answer[f] # Absent => Apt(f, answer[f])

FileInv == InHand /\ Waiting /\ Settled /\ Answered

\* The files of the batch in a step that takes none and finishes with none.
LEMMA SameFiles ==
    ASSUME FileInv, UNCHANGED <<batch, todo, item, answer, lost>>
    PROVE  FileInv'
<1>1. InHand' /\ Waiting'
    BY DEF FileInv, InHand, Waiting
<1>2. Settled' /\ Answered'
    BY DEF FileInv, Settled, Answered
<1> QED BY <1>1, <1>2 DEF FileInv

\* Taking a file from the batch gives it one holder and leaves the others as
\* they were.
LEMMA BeginFiles ==
    ASSUME Inv, FileInv, NEW w \in Workers, NEW f \in todo, Begin(w, f)
    PROVE  FileInv'
<1>1. /\ UNCHANGED <<batch, answer, lost>> /\ todo' = todo \ {f} /\ f \in batch /\ f # NoFile
      /\ item' = [item EXCEPT ![w] = f] /\ item[w] = NoFile /\ item \in [Workers -> Files \cup {NoFile}]
    BY PoolAssumption DEF Inv, TypeOK, Begin
<1>2. \A v \in Workers : item[v] # f
    BY <1>1 DEF FileInv, InHand
<1>3. InHand'
    BY <1>1, <1>2 DEF FileInv, InHand, Waiting
<1>4. Waiting' /\ Answered'
    BY <1>1 DEF FileInv, Waiting, Answered
<1>5. Settled'
  <2>1. \A h \in batch \ todo, v \in Workers : item[v] = h => item'[v] = h
    BY <1>1, PoolAssumption DEF Inv, TypeOK
  <2>2. item'[w] = f
    BY <1>1
  <2> QED BY <1>1, <2>1, <2>2 DEF FileInv, Settled
<1> QED BY <1>3, <1>4, <1>5 DEF FileInv

\* A worker is done with a file: it is answered aptly, or it is lost.
LEMMA DoneFiles ==
    ASSUME Inv, FileInv, NEW w \in Workers, item[w] # NoFile,
           UNCHANGED <<batch, todo>>, item' = [item EXCEPT ![w] = NoFile],
           \/ /\ lost' = lost
              /\ \E a \in Partitions : Apt(item[w], a) /\ answer' = [answer EXCEPT ![item[w]] = a]
           \/ lost' = lost \cup {item[w]} /\ answer' = answer
    PROVE  FileInv'
<1> DEFINE f == item[w]
<1>1. /\ item \in [Workers -> Files \cup {NoFile}] /\ answer \in [Files -> Partitions \cup {Absent}]
      /\ f \in Files /\ Absent \notin Partitions /\ f \in batch \ todo /\ f \notin lost /\ answer[f] = Absent
      /\ \A v \in Workers \ {w} : item[v] # f
    BY PoolAssumption DEF Inv, TypeOK, FileInv, InHand
<1>2. /\ \A h \in Files \ {f} : answer'[h] = answer[h] /\ (h \in lost' <=> h \in lost)
      /\ answer' \in [Files -> Partitions \cup {Absent}]
      /\ \A v \in Workers \ {w} : item'[v] = item[v]
      /\ item'[w] = NoFile
    BY <1>1
<1>3. IF f \in lost' THEN answer'[f] = Absent ELSE answer'[f] # Absent /\ Apt(f, answer'[f])
    BY <1>1
<1> HIDE DEF f
<1>4. InHand'
    BY <1>1, <1>2 DEF Inv, TypeOK, FileInv, InHand
<1>5. Waiting'
    BY <1>1, <1>2 DEF Inv, TypeOK, FileInv, Waiting
<1>6. Settled'
    BY <1>1, <1>2, <1>3 DEF Inv, TypeOK, FileInv, Settled, f
<1>7. Answered'
    BY <1>1, <1>2, <1>3 DEF FileInv, Answered
<1> QED BY <1>4, <1>5, <1>6, <1>7 DEF FileInv

\* Every step keeps the account of the batch: waiting, held, answered or lost.
LEMMA FileStep == Inv /\ FileInv /\ [Next]_vars => FileInv'
<1> SUFFICES ASSUME Inv, FileInv, [Next]_vars PROVE FileInv'
    OBVIOUS
<1>1. CASE UNCHANGED vars \/ \E m \in Modes : SetExtractionMode(m)
  <2>1. UNCHANGED <<batch, todo, item, answer, lost>>
    BY <1>1 DEF vars, files, workers, SetExtractionMode
  <2> QED BY <2>1, SameFiles
<1>2. ASSUME NEW w \in Workers,
             \/ RefuseLarge(w) \/ TakeParser(w) \/ RefuseGrammar(w)
             \/ FinishParse(w) \/ CancelParse(w) \/ ResetParser(w) \/ ReturnParser(w)
      PROVE  FileInv'
  <2>1. UNCHANGED <<batch, todo, item, answer, lost>>
    BY <1>2 DEF files, RefuseLarge, TakeParser, RefuseGrammar, FinishParse, CancelParse, ResetParser, ReturnParser
  <2> QED BY <2>1, SameFiles
<1>3. ASSUME NEW w \in Workers, NEW f \in todo, Begin(w, f) PROVE FileInv'
    BY <1>3, BeginFiles
<1>4. ASSUME NEW w \in Workers, Panic(w) PROVE FileInv'
  <2>1. /\ item[w] # NoFile /\ UNCHANGED <<batch, todo>> /\ item' = [item EXCEPT ![w] = NoFile]
        /\ lost' = lost \cup {item[w]} /\ answer' = answer
    BY <1>4 DEF Inv, TypeOK, Panic, Release
  <2> QED BY <2>1, DoneFiles
<1>5. ASSUME NEW w \in Workers, NEW a \in Partitions, Apt(item[w], a), step[w] # "idle", Release(w),
             UNCHANGED <<batch, todo, lost>>, answer' = [answer EXCEPT ![item[w]] = a]
      PROVE  FileInv'
  <2>1. item[w] # NoFile /\ item' = [item EXCEPT ![w] = NoFile]
    BY <1>5 DEF Inv, TypeOK, Release
  <2> QED BY <1>5, <2>1, DoneFiles
<1>6. \A w \in Workers : step[w] # "idle" => item[w] \in Files
    BY DEF Inv, TypeOK
<1>7. Absent \notin Reasons /\ \A f \in Files : Size[f] \in Nat /\ MaxFileBytes \in Nat
    BY PoolAssumption
<1>8. ASSUME NEW w \in Workers, ScanOnly(w) PROVE FileInv'
  <2> DEFINE a == Partition("scanner", item[w], Absent)
  <2>1. a \in Partitions /\ Apt(item[w], a)
    BY <1>6, <1>7, <1>8 DEF ScanOnly, Partition, Partitions, Apt, Reasons
  <2> QED BY <1>5, <1>8, <2>1 DEF ScanOnly
<1>9. ASSUME NEW w \in Workers, VisitTree(w) PROVE FileInv'
  <2> DEFINE a == Partition("tree", result[w].source, Absent)
  <2>1. Tree(item[w], result[w]) /\ Fitting(item[w]) /\ Loads[GrammarOf[item[w]]]
    BY <1>7, <1>9 DEF Inv, Sourced, VisitTree, TimedOut, Reasons
  <2>2. a = Partition("tree", item[w], Absent)
    BY <2>1 DEF Tree
  <2>3. a \in Partitions /\ Apt(item[w], a)
    BY <1>6, <1>7, <1>9, <2>1, <2>2 DEF VisitTree, Partition, Partitions, Apt, Reasons, Fitting
  <2> QED BY <1>5, <1>9, <2>3 DEF VisitTree
<1>10. ASSUME NEW w \in Workers, FallBack(w) PROVE FileInv'
  <2>1. result[w].skip \in Reasons
    BY <1>10 DEF Inv, TypeOK, FallBack, Results
  <2>2. /\ result[w].skip = "too large" <=> Size[item[w]] > MaxFileBytes
        /\ result[w].skip = "timeout" => ParseTimeout > 0
    <3>1. \/ result[w].skip = "too large" /\ Size[item[w]] > MaxFileBytes
          \/ /\ Size[item[w]] <= MaxFileBytes
             /\ Tree(item[w], result[w]) \/ TimedOut(result[w]) \/ result[w].skip = "parser"
      BY <1>10 DEF Inv, Sourced, FallBack, Fitting
    <3>2. ~Tree(item[w], result[w])
      BY <1>10 DEF FallBack, Tree
    <3>3. Size[item[w]] \in Nat /\ MaxFileBytes \in Nat
      BY <1>6, <1>7, <1>10 DEF FallBack
    <3>4. CASE result[w].skip = "too large" /\ Size[item[w]] > MaxFileBytes
      BY <3>4
    <3>5. CASE Size[item[w]] <= MaxFileBytes /\ result[w].skip \in {"timeout", "parser"}
               /\ (result[w].skip = "timeout" => ParseTimeout > 0)
      <4>1. ~(Size[item[w]] > MaxFileBytes)
        BY <3>3, <3>5
      <4>2. result[w].skip # "too large"
        BY <3>5
      <4> QED BY <3>5, <4>1, <4>2
    <3> QED BY <3>1, <3>2, <3>4, <3>5 DEF TimedOut
  <2>3. ASSUME NEW by \in {"scanner", "nothing"}
        PROVE  Partition(by, item[w], result[w].skip) \in Partitions /\ Apt(item[w], Partition(by, item[w], result[w].skip))
    BY <1>6, <1>7, <1>10, <2>1, <2>2 DEF FallBack, Partition, Partitions, Apt
  <2>4. (IF HasFallback(mode[w]) THEN "scanner" ELSE "nothing") \in {"scanner", "nothing"}
    OBVIOUS
  <2> QED BY <1>5, <1>10, <2>3, <2>4 DEF FallBack
<1> QED BY <1>1, <1>2, <1>3, <1>4, <1>8, <1>9, <1>10 DEF Next

\* Every partition is of the file it answers for, from a tree only where one may
\* be, with a reason where there is none; and no file of the batch is in two
\* hands, or in none before it is answered or lost.
THEOREM Answers == Spec => []AnswerIsOfItsSource
<1>1. Init => FileInv
  <2> SUFFICES ASSUME Init PROVE FileInv
    OBVIOUS
  <2>1. todo = batch /\ batch \in SUBSET Files /\ lost = {} /\ (\A f \in Files : answer[f] = Absent) /\ \A w \in Workers : item[w] = NoFile
    BY PoolAssumption DEF Init
  <2> QED BY <2>1 DEF FileInv, InHand, Waiting, Settled, Answered
<1>2. Inv /\ FileInv => AnswerIsOfItsSource
  <2> SUFFICES ASSUME Inv, FileInv, NEW f \in batch
               PROVE  /\ answer[f] # Absent => Apt(f, answer[f])
                      /\ f \in todo => HeldBy(f) = {} /\ f \notin lost /\ answer[f] = Absent
                      /\ f \notin todo =>
                            \/ \E w \in Workers : HeldBy(f) = {w} /\ f \notin lost /\ answer[f] = Absent
                            \/ HeldBy(f) = {} /\ (f \in lost <=> answer[f] = Absent)
    BY DEF AnswerIsOfItsSource, Apt
  <2>1. f \in Files /\ f # NoFile
    BY PoolAssumption DEF Inv, TypeOK
  <2>2. CASE \E w \in Workers : item[w] = f
    <3>1. PICK w \in Workers : item[w] = f
      BY <2>2
    <3>2. HeldBy(f) = {w} /\ f \notin todo /\ f \notin lost /\ answer[f] = Absent
      BY <2>1, <3>1 DEF FileInv, InHand, HeldBy
    <3> QED BY <3>2
  <2>3. CASE \A w \in Workers : item[w] # f
    <3>1. HeldBy(f) = {}
      BY <2>3 DEF HeldBy
    <3> QED BY <2>1, <2>3, <3>1 DEF FileInv, Waiting, Settled, Answered
  <2> QED BY <2>2, <2>3
<1> QED BY <1>1, <1>2, FileStep, Invariant, PTL DEF Spec
=============================================================================
