SPECIFICATION Spec
CONSTANTS
    t1 = t1
    t2 = t2
    t3 = t3
    p1 = p1
    p2 = p2
    p3 = p3
    d1 = d1
    d2 = d2
    d3 = d3
    r1 = r1
    r2 = r2
    r3 = r3
    k1 = k1
    k2 = k2
    ann = ann
    bea = bea
    cy = cy
    annSub = annSub
    beaSub = beaSub
    beaName = beaName
    cySub = cySub
    main = main
    aux = aux
    review = review
    refsYml = refsYml
    b0 = b0
    b1 = b1
    b2 = b2
    first = first
    NoName = NoName
    NoRow = NoRow
    NoDoc = NoDoc
    Tasks <- MCTasks
    Workloads <- MCWorkloads
    Projects <- MCProjects
    Docs <- MCDocs
    Refs <- MCRefs
    Links <- MCLinks
    Names <- MCNames
    Users <- MCUsers
    SubjectOf <- MCSubjectOf
    UsernameOf <- MCUsernameOf
    IdpRole <- MCIdpRole
    Creator <- MCCreator
    Existing <- MCExisting
    FirstEntry <- MCFirstEntry
    FirstMembers <- MCFirstMembers
    FirstDocs <- MCFirstDocs
    FirstRefs <- MCFirstRefs
    FirstTexts <- MCFirstTexts
    FirstLinks <- MCFirstLinks
    Paths <- MCPaths
    DirOf <- MCDirOf
    OrderOf <- MCOrderOf
    Typst <- MCTypst
    RefsIn <- MCRefsIn
    ReviewIn <- MCReviewIn
    MainPath <- main
    Citing <- MCCiting
    WithBibliography <- MCWithBibliography
    LiveStates <- MCLiveStates
    Titles = {"old", "new", "t"}
    Dois = {"x", "y"}
SYMMETRY MCSymmetry
INVARIANTS
    HistoryFaithful
    RolesGranted
    DanglingOnlyByRace
    BuildsComplete
PROPERTIES
    SavesKeepOthers
    OtherProjectsKept
CHECK_DEADLOCK FALSE
