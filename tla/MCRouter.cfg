CONSTANTS
    Empty = Empty
    NoQuery = NoQuery
    a = a
    b = b
    a_encoded = a_encoded
    Texts = {Empty, a, b, a_encoded}
    Decode <- MCDecode
    GET = GET
    POST = POST
    json = json
    html = html
    Methods = {GET, POST}
    PayloadMethods = {POST}
    NoMethod = NoMethod
    NoFormat = NoFormat
    NoCode = NoCode
    Wildcard = Wildcard
    Codes = {404, 500}
    Unmounted <- MCUnmounted
    Bases <- MCBases
    Requests <- MCRequests
    Scopes <- MCScopes
    MaxItems = 3
SPECIFICATION Spec
INVARIANTS
    NoAmbiguity
    LookupsAreExact
CHECK_DEADLOCK FALSE
