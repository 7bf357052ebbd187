SPECIFICATION Spec
CONSTANTS
    reply = reply
    note = note
    agent = agent
    AuthorOf <- OneAuthor
    Direct = {note}
    Composers = {reply, note}
    Internal = {note}
    Files = {f1}
    Handlers = {h1, h2}
    Faults = {"restart", "lostAnswer", "storage", "database", "unknownCommit"}
    MaxMessages = 1
INVARIANTS
    MessageCarriesItsFiles
    OfferedFilesExist
    DownloadsMatchTimeline
PROPERTIES
    ClearedIsPosted
    ComposerComesBack
    ImplementsFiles
CHECK_DEADLOCK FALSE
