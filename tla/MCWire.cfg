SPECIFICATION MCSpec
CONSTANTS
    Menu <- Places
    Samples <- Codecs
    Numbers <- SomeNumbers
    Lists <- SomeLists
    Null = Null
    app = app
    users = users
    ranked = ranked
    auth = auth
    list = list
    find = find
    recover = recover
    report = report
    fallback = fallback
    user = user
    Composites = {app, users, ranked}
    Root = app
    Handlers = {auth, list, find, added}
    ErrorHandlers = {recover, report, fallback, rescue}
    Members <- MCMembers
    Prioritised = {ranked}
    RouteOf <- MCRouteOf
    Spares = {added, rescue}
    Priorities = {1, 3}
    Segments = {user}
    Paths <- MCPaths
    None = none
    Commands = {c1, c2, c3}
    MaxTogether = 2
INVARIANTS MessagesReadBack RequestsAreAnswered RecordsAreKept
PROPERTIES FieldsReadBack ReaderAndCommandsEnd
CHECK_DEADLOCK FALSE
