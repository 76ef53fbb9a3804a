\* Chat: two talkers, two conversations, two messages; push: two users with
\* two devices; history: three posts in pages of one.
SPECIFICATION MessagingSpec
CONSTANTS
    Talkers = {t1, t2}
    Conversations = {c1, c2}
    Makers = {x1, x2}
    Messages = {m1, m2}
    Readings = {k1, k2}
    MaxClock = 3
    Owners = {u1, u2}
    Devices = {d1, d2}
    Sendings = {s1}
    Minutes = 3
    Choices <- FewChoices
    ChunkSize = 1
    Posts <- FirstPosts
    Take = 1
    Retention = 1
    MaxTime = 4
SYMMETRY Interchangeable
INVARIANTS DirectsBounded BadgeMatchesReceipts MutedAreSpared PagesComplete FilesGoWithPosts
PROPERTY TokensSpared
CHECK_DEADLOCK FALSE
