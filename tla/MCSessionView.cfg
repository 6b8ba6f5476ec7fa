\* Three views at a time, and ids for two tabs of lists with a form over one of
\* them, or for three views in one tab.
CONSTANTS
    s1 = s1
    s2 = s2
    desktop = desktop
    phone = phone
    books = books
    authors = authors
    menu = menu
    detail = detail
    select = select
    AnyModel = AnyModel
    Sessions = {s1, s2}
    Media <- MCMedia
    Models = {books, authors}
    Usages = {detail, select}
    Menu = menu
    Parsed <- MCParsed
    MaxViews = 3
    MaxIds = 7
SPECIFICATION Spec
INVARIANTS
    TypeOK
    EveryViewOnOneChain
    KeysOutliveTheirUsers
    IdsNameOneThing
    RecordsFollowTheLayout
PROPERTIES
    NavigationSpec
    SessionEndsEmpty
    BestLayoutIsOpened
CHECK_DEADLOCK FALSE
