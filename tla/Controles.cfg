SPECIFICATION Spec
SYMMETRY Interchangeable
CONSTANTS
    Absent = Absent
    Objet = Objet
    NaN = NaN
    Null = Null
    None = None
    Docs <- MCDocs
    References <- MCReferences
    Databases <- MCDatabases
    Reference_ <- MCDatabases
    Rang <- MCRang
    Sessions = {"u1", "u3"}
    Emails = {"u1", "u2", "u3", Absent}
    ParseFloat <- MCParseFloat
    ToNumber <- MCToNumber
    Annee <- MCAnnee
    QuatreChiffres = {"2024"}
    Reference <- MCReference
    Reglementaires <- MCReglementaires
    Requests = {q1, q2, q3}
    Sirets = {s1, s2}
    Ttl = 1
    MaxFlight = 1
    MaxClock = 4
    Users <- MCUsers
    Requests_ <- MCRequests
    Filters <- MCFilters
    PageSize = 2
    MaxRows = 3
    Ouvrages <- MCOuvrages
    PointsDe <- MCPointsDe
    NbPages <- MCNbPages
    Annees = {2024}
    SansDates = SansDates
    Debut = Debut
    Rien = Rien
    MaxEdits = 5
    Shared = 3
    MaxLooks = 1
    MaxFailed = 1
INVARIANT VerdictExplained
INVARIANT DeliveredAsControlled
INVARIANT VolumeDaysAccounted
INVARIANT PfasCoherent
INVARIANT PerimeterFresh
INVARIANT RightsExplained
INVARIANT ExportFaithful
INVARIANT TableauFaithful
CHECK_DEADLOCK FALSE
