\* Two talks over a public channel and a private conversation.
SPECIFICATION FairSpec
CONSTANTS
    None = None
    Talks = {t1, t2}
    Channels = {pub, priv}
    Private = {priv}
INVARIANTS SavedOnce FiledWhereSpoken NoneLeftRunning
PROPERTY NotesAreDecided
CHECK_DEADLOCK FALSE
