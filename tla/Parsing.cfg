SPECIFICATION Spec
CONSTANTS
    Zero = "00000000"
    Bytes = {0, 1, 2, 10}
    NoGateway = NoGateway
    Text = Text
    Greatest = 3
    Want <- MCWant
    MinPrefix = 2
    Lower <- MCLower
    Kept = {"U", "D", "1"}
    Unreadable = Unreadable
    Failure = Failure
    Empty = Empty
    NotString = NotString
    Rows <- MCRows
    Chars <- MCChars
    Entries <- MCEntries
    Arguments <- MCArguments
    Users <- MCUsers
    Packages <- MCPackages
    Commands <- MCCommands
    MaxRows = 3
    MaxName = 5
    MaxEntries = 3
    MaxArgs = 2
    MaxArg = 3
    MaxMembers = 2
INVARIANTS
    GatewayIsBestRoute
    SeedNameIsTold
    PlainNameWins
    ArgumentsSurvive
    NamesReachApply
