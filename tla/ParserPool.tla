----------------------------- MODULE ParserPool -----------------------------
(***************************************************************************)
(* Extraction of a batch of files by concurrent workers: the mode, the     *)
(* limits and the parser pools of the aci-adapters crate.  There is one    *)
(* pool per grammar, shared by all workers of the process; a parser is     *)
(* out of its pool while it parses.  A parse that runs into the time limit *)
(* is cancelled from a callback, and a cancelled parser remembers where    *)
(* it was: the next parse goes on from there unless the parser is reset.   *)
(* (A pool's lock is held for a push or a pop only, so nothing ever panics *)
(* under it.)                                                              *)
(***************************************************************************)
EXTENDS Naturals, Sequences, FiniteSets

CONSTANTS
    Workers,       \* threads of the rayon pool
    Files,         \* source files
    NoFile,        \* no file; a parser without an unfinished parse
    Grammars,      \* one parser pool each
    GrammarOf,     \* the grammar of each file; absent for JSON
    Loads,         \* whether set_language accepts the grammar
    Size,          \* of each file, in bytes
    MaxFileBytes,  \* ParseLimits::max_file_bytes
    ParseTimeout,  \* ParseLimits::parse_timeout; zero is no limit
    Batches,       \* sets of files one index run may be about
    EnvMode,       \* what ACI_EXTRACTION_MODE says
    Absent           \* no value

Modes == {"scanner-only", "tree-sitter-only", "tree-sitter-fallback", "tree-sitter-enrichment"}
Reasons == {"too large", "timeout", "parser"}

\* A partition: read from a tree, by the scanner or from nothing, out of which
\* source, and with which diagnostic of a skipped parse.
Partition(by, source, skip) == [by |-> by, source |-> source, skip |-> skip]
Partitions ==
    [by : {"tree", "scanner", "nothing"}, source : Files, skip : Reasons \cup {Absent}]

ASSUME PoolAssumption ==
    /\ IsFiniteSet(Workers)
    /\ NoFile \notin Files
    /\ GrammarOf \in [Files -> Grammars \cup {Absent}]
    /\ Loads \in [Grammars -> BOOLEAN]
    /\ Size \in [Files -> Nat]
    /\ MaxFileBytes \in Nat
    /\ ParseTimeout \in Nat
    /\ Batches \subseteq SUBSET Files
    /\ EnvMode \in Modes
    /\ Absent \notin Modes \cup Reasons \cup Grammars \cup Partitions

VARIABLES
    override,  \* EXTRACTION_MODE_OVERRIDE
    batch,     \* the files of this run
    todo,      \* those no worker has taken
    step,      \* what each worker is doing
    item,      \* the file it does it with
    mode,      \* the mode it read
    parser,    \* the parser it holds
    result,    \* what parse is to return: a tree's source, or the reason there is none
    pool,      \* the parsers that lie in each pool
    left,      \* for each parser made so far, the source whose parse it has not finished
    answer,    \* the partitions that came out
    lost       \* files whose extraction panicked

files == <<batch, todo, answer, lost>>
workers == <<step, item, mode, parser, result>>
pools == <<pool, left>>
vars == <<override, files, workers, pools>>

\* ExtractionMode::current.
Current == IF override = Absent THEN EnvMode ELSE override
HasFallback(m) == m \in {"tree-sitter-fallback", "tree-sitter-enrichment"}

\* What parse may return, or nothing yet.
NoResult == [source |-> NoFile, skip |-> Absent]
Results == [source : Files \cup {NoFile}, skip : Reasons \cup {Absent}]
-----------------------------------------------------------------------------
Init ==
    /\ override = Absent
    /\ batch \in Batches
    /\ todo = batch
    /\ step = [w \in Workers |-> "idle"]
    /\ item = [w \in Workers |-> NoFile]
    /\ mode = [w \in Workers |-> Absent]
    /\ parser = [w \in Workers |-> 0]
    /\ result = [w \in Workers |-> NoResult]
    /\ pool = [g \in Grammars |-> <<>>]
    /\ left = <<>>
    /\ answer = [f \in Files |-> Absent]
    /\ lost = {}

\* set_extraction_mode, called by anyone at any time.
SetExtractionMode(m) ==
    /\ override' = m
    /\ UNCHANGED <<files, workers, pools>>

\* The next file, in the mode that is in force now.
Begin(w, f) ==
    /\ step[w] = "idle"
    /\ f \in todo
    /\ todo' = todo \ {f}
    /\ step' = [step EXCEPT ![w] = "begun"]
    /\ item' = [item EXCEPT ![w] = f]
    /\ mode' = [mode EXCEPT ![w] = Current]
    /\ UNCHANGED <<override, batch, answer, lost, parser, result, pools>>

\* The worker is done with its file.
Release(w) ==
    /\ step' = [step EXCEPT ![w] = "idle"]
    /\ item' = [item EXCEPT ![w] = NoFile]
    /\ mode' = [mode EXCEPT ![w] = Absent]
    /\ result' = [result EXCEPT ![w] = NoResult]

\* The scanner, or serde_json, without asking a parser.
NeedsParser(w) == mode[w] # "scanner-only" /\ GrammarOf[item[w]] # Absent
ScanOnly(w) ==
    /\ step[w] = "begun"
    /\ ~NeedsParser(w)
    /\ answer' = [answer EXCEPT ![item[w]] = Partition("scanner", item[w], Absent)]
    /\ Release(w)
    /\ UNCHANGED <<override, batch, todo, lost, parser, pools>>

\* ParserPool::parse: a file over the limit is refused before a parser is taken.
RefuseLarge(w) ==
    /\ step[w] = "begun"
    /\ NeedsParser(w)
    /\ Size[item[w]] > MaxFileBytes
    /\ step' = [step EXCEPT ![w] = "parsed"]
    /\ result' = [result EXCEPT ![w] = [source |-> NoFile, skip |-> "too large"]]
    /\ UNCHANGED <<override, files, item, mode, parser, pools>>

MayParse(w) ==
    /\ step[w] = "begun"
    /\ NeedsParser(w)
    /\ Size[item[w]] <= MaxFileBytes

TakeParser_MutPeeks(w) ==
    LET g == GrammarOf[item[w]] IN
    /\ MayParse(w)
    /\ Loads[g]
    /\ step' = [step EXCEPT ![w] = "parsing"]
    /\ IF pool[g] = <<>>
       THEN /\ parser' = [parser EXCEPT ![w] = Len(left) + 1]
            /\ left' = Append(left, NoFile)
       ELSE /\ parser' = [parser EXCEPT ![w] = pool[g][Len(pool[g])]]
            /\ left' = left
    /\ UNCHANGED <<override, files, item, mode, result, pool>>

\* take_parser: the one returned last, or a new one.
TakeParser(w) ==
    LET g == GrammarOf[item[w]] IN
    /\ MayParse(w)
    /\ Loads[g]
    /\ step' = [step EXCEPT ![w] = "parsing"]
    /\ IF pool[g] = <<>>
       THEN /\ parser' = [parser EXCEPT ![w] = Len(left) + 1]
            /\ left' = Append(left, NoFile)
            /\ pool' = pool
       ELSE /\ parser' = [parser EXCEPT ![w] = pool[g][Len(pool[g])]]
            /\ pool' = [pool EXCEPT ![g] = SubSeq(@, 1, Len(@) - 1)]
            /\ left' = left
    /\ UNCHANGED <<override, files, item, mode, result>>

\* set_language refuses the grammar; the parser is dropped.
RefuseGrammar(w) ==
    LET g == GrammarOf[item[w]] IN
    /\ MayParse(w)
    /\ ~Loads[g]
    /\ pool' = [pool EXCEPT ![g] = IF @ = <<>> THEN @ ELSE SubSeq(@, 1, Len(@) - 1)]
    /\ step' = [step EXCEPT ![w] = "parsed"]
    /\ result' = [result EXCEPT ![w] = [source |-> NoFile, skip |-> "parser"]]
    /\ UNCHANGED <<override, files, item, mode, parser, left>>

\* The parser is at work on what it had begun, if anything, else on this file.
Parsed(w) == IF left[parser[w]] = NoFile THEN item[w] ELSE left[parser[w]]

\* A tree; its errors are collected before the parser goes back.
FinishParse(w) ==
    /\ step[w] = "parsing"
    /\ step' = [step EXCEPT ![w] = "returning"]
    /\ result' = [result EXCEPT ![w] = [source |-> Parsed(w), skip |-> Absent]]
    /\ left' = [left EXCEPT ![parser[w]] = NoFile]
    /\ UNCHANGED <<override, files, item, mode, parser, pool>>

CancelParse_MutNoReset(w) ==
    /\ step[w] = "parsing"
    /\ ParseTimeout > 0
    /\ step' = [step EXCEPT ![w] = "returning"]
    /\ result' = [result EXCEPT ![w] = [source |-> NoFile, skip |-> "timeout"]]
    /\ left' = [left EXCEPT ![parser[w]] = Parsed(w)]
    /\ UNCHANGED <<override, files, item, mode, parser, pool>>

\* The callback finds the time limit exceeded.  The parser keeps the unfinished
\* parse until reset() has thrown it away.
CancelParse(w) ==
    /\ step[w] = "parsing"
    /\ ParseTimeout > 0
    /\ step' = [step EXCEPT ![w] = "cancelled"]
    /\ left' = [left EXCEPT ![parser[w]] = Parsed(w)]
    /\ UNCHANGED <<override, files, item, mode, parser, result, pool>>
ResetParser(w) ==
    /\ step[w] = "cancelled"
    /\ step' = [step EXCEPT ![w] = "returning"]
    /\ result' = [result EXCEPT ![w] = [source |-> NoFile, skip |-> "timeout"]]
    /\ left' = [left EXCEPT ![parser[w]] = NoFile]
    /\ UNCHANGED <<override, files, item, mode, parser, pool>>

ReturnParser(w) ==
    LET g == GrammarOf[item[w]] IN
    /\ step[w] = "returning"
    /\ step' = [step EXCEPT ![w] = "parsed"]
    /\ pool' = [pool EXCEPT ![g] = Append(@, parser[w])]
    /\ parser' = [parser EXCEPT ![w] = 0]
    /\ UNCHANGED <<override, files, item, mode, result, left>>

\* The tree is visited.
VisitTree(w) ==
    /\ step[w] = "parsed"
    /\ result[w].skip = Absent
    /\ answer' = [answer EXCEPT ![item[w]] = Partition("tree", result[w].source, Absent)]
    /\ Release(w)
    /\ UNCHANGED <<override, batch, todo, lost, parser, pools>>

\* There is no tree: the scanner's partition, or an empty one, with a warning.
FallBack(w) ==
    /\ step[w] = "parsed"
    /\ result[w].skip # Absent
    /\ answer' = [answer EXCEPT ![item[w]] =
                    Partition(IF HasFallback(mode[w]) THEN "scanner" ELSE "nothing",
                              item[w], result[w].skip)]
    /\ Release(w)
    /\ UNCHANGED <<override, batch, todo, lost, parser, pools>>

Panic_MutKeepsParser(w) ==
    /\ step[w] # "idle"
    /\ lost' = lost \cup {item[w]}
    /\ Release(w)
    /\ UNCHANGED <<override, batch, todo, answer, parser, pools>>

\* An adapter panics: the worker's parser, if it has one, is dropped.
Panic(w) ==
    /\ step[w] # "idle"
    /\ lost' = lost \cup {item[w]}
    /\ parser' = [parser EXCEPT ![w] = 0]
    /\ Release(w)
    /\ UNCHANGED <<override, batch, todo, answer, pools>>

Next ==
    \/ \E m \in Modes : SetExtractionMode(m)
    \/ \E w \in Workers :
        \/ \E f \in todo : Begin(w, f)
        \/ ScanOnly(w) \/ RefuseLarge(w)
        \/ TakeParser(w) \/ RefuseGrammar(w)
        \/ FinishParse(w) \/ CancelParse(w) \/ ResetParser(w) \/ ReturnParser(w)
        \/ VisitTree(w) \/ FallBack(w)
        \/ Panic(w)
Spec == Init /\ [][Next]_vars
-----------------------------------------------------------------------------
(* Properties.                                                             *)

Steps == {"idle", "begun", "parsing", "cancelled", "returning", "parsed"}
Holding == {"parsing", "cancelled", "returning"}
Parsers == DOMAIN left

\* Types, and a parser in hand exactly while one is needed (all variables).
TypeOK ==
    /\ override \in Modes \cup {Absent}
    /\ batch \in SUBSET Files
    /\ todo \in SUBSET batch
    /\ step \in [Workers -> Steps]
    /\ item \in [Workers -> Files \cup {NoFile}]
    /\ \A w \in Workers : item[w] = NoFile <=> step[w] = "idle"
    /\ mode \in [Workers -> Modes \cup {Absent}]
    /\ left \in Seq(Files \cup {NoFile})
    /\ parser \in [Workers -> Parsers \cup {0}]
    /\ \A w \in Workers : parser[w] = 0 <=> step[w] \notin Holding
    /\ result \in [Workers -> Results]
    /\ pool \in [Grammars -> Seq(Parsers)]
    /\ answer \in [Files -> Partitions \cup {Absent}]
    /\ lost \in SUBSET Files

\* No two workers hold one parser, none holds one that lies in a pool, and none
\* lies in two places.
NotShared ==
    /\ \A v, w \in Workers : step[v] \in Holding /\ parser[v] = parser[w] => v = w
    /\ \A w \in Workers, g \in Grammars : \A i \in DOMAIN pool[g] : parser[w] # pool[g][i]
    /\ \A g, h \in Grammars : \A i \in DOMAIN pool[g], j \in DOMAIN pool[h] :
            pool[g][i] = pool[h][j] => g = h /\ i = j

\* A parser in a pool has no unfinished parse, and so has one that was just taken.
Clean ==
    /\ \A g \in Grammars : \A i \in DOMAIN pool[g] : left[pool[g][i]] = NoFile
    /\ \A w \in Workers : step[w] \in {"parsing", "returning"} => left[parser[w]] = NoFile

\* The workers that hold a parser for the grammar.
Holders(g) == {w \in Workers : step[w] \in Holding /\ GrammarOf[item[w]] = g}
Bounded == \A g \in Grammars : Len(pool[g]) + Cardinality(Holders(g)) <= Cardinality(Workers)

\* The pools hand every parser to one worker at a time, without anything of an
\* earlier parse in it, and whatever times out, fails or panics, there are never
\* more parsers of a grammar than workers (take_parser, return_parser and the
\* reset in ParserPool::parse).
PoolIsSound == NotShared /\ Clean /\ Bounded

HeldBy(f) == {w \in Workers : item[w] = f}

\* Every partition is of the file it is an answer for, also when a parser timed
\* out on another file before; it comes from a tree only if the file is within
\* the limit, and if there should have been a tree and is none, it says why.
\* And every file of the batch is waiting, in the hands of one worker, answered
\* or lost by a panic, and only one of these (ParserPool::parse and the
\* tree_sitter_extract of every adapter).
AnswerIsOfItsSource ==
    \A f \in batch :
        /\ answer[f] # Absent =>
            /\ answer[f].source = f
            /\ answer[f].by = "tree" =>
                    GrammarOf[f] # Absent /\ Loads[GrammarOf[f]] /\ Size[f] <= MaxFileBytes /\ answer[f].skip = Absent
            /\ answer[f].by = "nothing" => answer[f].skip # Absent
            /\ answer[f].skip = "too large" <=> answer[f].skip # Absent /\ Size[f] > MaxFileBytes
            /\ answer[f].skip = "timeout" => ParseTimeout > 0
        /\ f \in todo => HeldBy(f) = {} /\ f \notin lost /\ answer[f] = Absent
        /\ f \notin todo =>
            \/ \E w \in Workers : HeldBy(f) = {w} /\ f \notin lost /\ answer[f] = Absent
            \/ HeldBy(f) = {} /\ (f \in lost <=> answer[f] = Absent)
=============================================================================
