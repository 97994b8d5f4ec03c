SPECIFICATION FairSpec
CONSTANTS
    db = db  scripts = scripts
    Files = {db, scripts}
    Db = db
    Handlers = {h1, h2}
    Boot = Boot
    Earlier = 1  MaxOps = 3  MaxRev = 1
    max_backups = 2
    Missing = Missing  NoArchive = NoArchive  NoOne = NoOne
INVARIANTS
    TypeOK
    NothingLost
    ReplacedInPrivate
PROPERTIES
    NewestKept
    KeepsRestoreContract
    OperationsEnd
\* The server may be off, and nobody has to start it again.
CHECK_DEADLOCK FALSE
