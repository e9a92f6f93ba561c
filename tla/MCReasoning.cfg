SPECIFICATION Spec
CONSTANTS
    Pattern <- KnowledgeBase
    Catalogue <- CollectorItems
    Activations <- Enabled
    Taxonomy <- Signals
    MaxNodes = 4
    Kind <- RoundItems
    MaxItems = 4
    Staleness = 1
    PerRound = 2
    Horizon = 3
    Evidence <- GroundingItems
    Contracts <- ModelStatements
    Requests <- ModelQueries
    Attributions <- ModelJudgements
    MaxRevisions = 2
    MaxCollections = 3
    \* The limits of the code for the history; small ones for what fills it.
    MaxMessages = 6
    MaxSize = 24
    ResultSizes = {1, 12, 25}
    MaxParallel = 2
    MaxToolCalls = 6
    MaxCorrections = 1
    MaxBatch = 3
    MaxTurns = 3
INVARIANTS
    VerificationAgrees
    AssertionsAdmitNothing
    ContextIsRepresentative
    ContradictionIsEarned
    ProposalIsGrounded
    HistoryIsFaithful
\* Items, rounds, collections and turns are finitely many.
CHECK_DEADLOCK FALSE
