SPECIFICATION Spec
CONSTANTS
    e1 = e1
    e2 = e2
    Editors = {e1, e2}
    Jobs <- MCJobs
    Queries <- MCQueries
    Tables <- MCTables
    Ids = {1, 2, 3, 4, 5}
    MaxActors = 2
SYMMETRY Symmetry
INVARIANTS AskedIsReturned PagesAgree WalkMeetsEveryRow
PROPERTIES OnlyAskedChanges AnswerIsCommitted
