SPECIFICATION Spec
CONSTANTS
    pkiA = pkiA  pass = pass  aca = aca  e = e  gp = gp  ms = ms
    v = v  w = w  hollow = hollow  absent = absent  own = own
    Content <- MCContent  TagLen <- MCTagLen  ValLen <- MCValLen
    OwnContent = own
    PropCommands <- MCPropCommands  AcrCommands <- MCAcrCommands
    BlockLen = 256  KeyLen = 512
    None = None
    Pki = {pkiA}  Pt = {}  Aca = {}  Plain = {}  Gp = {}  Msft = {ms}
    Objects = {v}
    Block = {"b"}  MaxBlocks = 1
    NeedLogin = TRUE  TokenX509 = TRUE
    Clas = {0, 1}
    Les = {512}
    PropLens = {}
    AcrLens = {}
    ReadRanges = {}
INVARIANTS
    SignInputFresh
PROPERTIES
    SignAuthorised
    RawModeSticks
