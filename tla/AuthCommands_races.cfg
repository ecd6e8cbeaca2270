\* Two requests race over two accounts and a session; a process may die.
CONSTANTS
    Users = {u1, u2}
    Emails = {m1}
    Sessions = {s1}
    Requests = {r1, r2}
    MaxVersion = 2
    MaxToken = 3
    CanCrash = TRUE
    None = None
SPECIFICATION Spec
SYMMETRY Symmetry
INVARIANTS OneAccountPerEmail JournalFirst
PROPERTIES OverForGood
