SPECIFICATION Spec
CONSTANTS
    pkiA = pkiA  pass = pass  aca = aca  e = e  gp = gp  ms = ms
    v = v  w = w  hollow = hollow  absent = absent  own = own
    Content <- MCContent  TagLen <- MCTagLen  ValLen <- MCValLen
    OwnContent = own
    PropCommands <- MCPropCommands  AcrCommands <- MCAcrCommands
    BlockLen = 256  KeyLen = 512
    None = None
    Pki = {}  Pt = {pass}  Aca = {}  Plain = {}  Gp = {}  Msft = {}
    Objects = {v, w, absent}
    Block = {"b"}  MaxBlocks = 1
    NeedLogin = FALSE  TokenX509 = TRUE
    Clas = {0, 1}
    Les = {255}
    PropLens = {}
    AcrLens = {}
    ReadRanges <- MCFewRanges
INVARIANTS
    ReadSnapshot
