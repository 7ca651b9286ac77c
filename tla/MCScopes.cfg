SPECIFICATION Spec
CONSTANTS
    A = A
    B = B
    E = E
    G = G
    f = f
    p = p
    TypeNames = {A, B, E, G}
    ClassNames = {A, B}
    MemberNames = {f, p}
    ParamName = p
    External = {E, G}
    ExtAncestors <- MCExtAncestors
    ExtMembers <- MCExtMembers
    ModuleItems <- MCModuleItems
    BodyItems <- MCBodyItems
    ParentLists <- MCParentLists
    MaxItems = 3
    MaxBody = 2
    NoDef = NoDef
    NoVersion = NoVersion
INVARIANTS
    NamesMeanTheText
    MembersAgree
PROPERTIES
    MeaningsStay


CHECK_DEADLOCK FALSE
