SPECIFICATION PathSpec
CONSTANTS
    Strict = TRUE
    MaxGroups = 2
    MaxDeps = 2
    MaxChanges = 1
    MaxBody = 2
    ChunkSizes = {1, 2}
    BodyCap = 4
INVARIANTS HandlerIsAuthorized OneAnswer UploadLimited LoggedOnce
PROPERTIES OneIdentity DownIsNotAnonymous
