SPECIFICATION Spec
CONSTANTS
    pkiA = pkiA  pass = pass  aca = aca  e = e  gp = gp  ms = ms
    v = v  w = w  hollow = hollow  absent = absent  own = own
    Content <- MCContent  TagLen <- MCTagLen  ValLen <- MCValLen
    OwnContent = own
    PropCommands <- MCPropCommands  AcrCommands <- MCAcrCommands
    BlockLen = 256  KeyLen = 512
    None = None
    Pki = {pkiA}  Pt = {}  Aca = {aca}  Plain = {e}  Gp = {gp}  Msft = {}
    Objects = {v}
    Block = {"b"}  MaxBlocks = 1
    NeedLogin = FALSE  TokenX509 = TRUE
    Clas = {0, 2, 12}
    Les = {0, 255, 256, 65536}
    PropLens = {40, 256, 300}
    AcrLens = {60, 257}
    ReadRanges <- MCReadRanges
INVARIANTS
    TypeOK
    ChainIntact
    AnnouncedCount
    BufferOwner
    WrongLeConverges
PROPERTIES
    ChainDelivered
