SPECIFICATION Spec

CONSTANTS
    Base = 8
    Groups = 3
    LastGroup = 2
    U32Max = 9
    BadByte = 15
    Replacement = 14
    None = None
    Invalid = Invalid
    Magic <- MCMagic
    Packs <- MCPacks
    Inputs <- MCInputs

INVARIANT TypeOK
INVARIANT PackReadsWhatWasWritten
INVARIANT ImportGivesBackTheGraph
INVARIANT ExportsAgree
INVARIANT EnrichmentIsAnchored

CHECK_DEADLOCK FALSE
