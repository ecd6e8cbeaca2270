\* Two requests race over one unit and one protocol; processes may die anywhere.
CONSTANTS
    Units = {u1}
    Invitations = {i1}
    Tenancies = {t1, t2}
    Handovers = {h1}
    Requests = {r1, r2}
    NoticeDates = {d1}
    MaxDay = 1
    MaxVersion = 3
    MaxEntries = 0
    MaxSealed = 1
    None = None
SPECIFICATION Spec
SYMMETRY Symmetry
INVARIANTS NoDoubleBooking JournalFirst ActivatedAfterHandover LostByCrashOnly
 
