SPECIFICATION Spec

CONSTANTS
    Workers = {w1, w2}
    Files <- MCFiles
    NoFile = NoFile
    Absent = Absent
    None = None
    Grammars <- MCGrammars
    GrammarOf <- MCGrammarOf
    Loads <- MCLoads
    Size <- MCSize
    MaxFileBytes = 2
    ParseTimeout = 250
    Batches <- MCBatches
    EnvMode = "tree-sitter-fallback"
    MaxDiagnostics = 1
    Capitalized = {"A", "C"}
    Source <- MCSource

INVARIANT TypeOK
INVARIANT PoolIsSound
INVARIANT AnswerIsOfItsSource
INVARIANT FactsAreInScope
