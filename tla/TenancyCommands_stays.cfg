\* Stays of one or two days in one unit, and repeated invitations.
CONSTANTS
    Units = {u1}
    Invitations = {i1}
    Tenancies = {t1, t2}
    Handovers = {h1}
    Requests = {r1, r2}
    NoticeDates = {}
    MaxDay = 2
    MaxVersion = 2
    MaxEntries = 0
    MaxSealed = 0
    None = None
SPECIFICATION Spec
SYMMETRY Symmetry
 
PROPERTIES RefinesCalendar AcceptedForGood
