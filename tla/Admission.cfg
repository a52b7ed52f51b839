SPECIFICATION Spec
CONSTANTS
    s1 = s1
    s2 = s2
    s3 = s3
    ann = ann
    bea = bea
    k1 = k1
    ta = ta
    tb = tb
    tx = tx
    b1 = b1
    b2 = b2
    Sessions = {s1, s2, s3}
    Tokens = {ta, tb, tx}
    Keys = {k1}
    Subjects = {ann, bea}
    Genuine = {ta, tb}
    PeerOf <- MCPeerOf
    TokenOf <- MCTokenOf
    KeyOf <- MCKeyOf
    ExpOf <- MCExpOf
    SubjectOf <- MCSubjectOf
    RolesIn <- MCRolesIn
    Leeway = 1
    MaxAge = 1
    CacheTtl = 2
    MaxEntries = 1
    FetchTimeout = 1
    Window = 0
    Scenes <- MCScenes
    Empty = Empty
    Same = Same
    NoOne = NoOne
    Never = Never
PROPERTIES
    UpdatesAuthorized
    WithdrawnKeyDies
