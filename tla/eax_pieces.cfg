SPECIFICATION Spec
CONSTANTS
  HashLen = 2
  CountLen = 2
  Impl <- MCImpl
  Macs <- MCMacs
  KeyLens = {0, 1, 4, 5, 8, 9}
  MaxMessage = 26
  MaxPiece = 9
  MaxIterations = 4
  MaxOut = 7
  ChunkRepeats = 3
  FullChunks = 3
  CheckEvery = 2
  Timeout = 4
  TickMod = 16
  MaxTicks = 2
  Starts = {0, 14}
  MaxNonce = 3
  MaxAsked = 10
  MaxChunks = 3
  Block = 4
  NonceLens = {0, 3, 4, 5}
  TextLens = {0, 1, 4, 5, 9}
  MaxText = 10
  AnyPieces = TRUE
  W = 5
  ByteBits = 3
  MaxWindow = 3
  Moduli = {3, 33}
  Sources <- MCSources
  SmallWords = {0, 1, 31}
  Exponents <- MCExponents
  Rooms = {7, 8, 20, 36}
  MaxOps = 1
  Dividends = {1}
  Divisors = {1}
  ExpBits = 5
  SmallPrimes = {17}
  Tests = 2
  MaxFactor = 12
  MaxSize = 15
  KeySizes = {14}
  PubExps = {3}
  Foreign <- MCForeign
  OddFactors = {67}
  Plain = {2}
  PadHash <- MCPadHash
  OidLens = {0}
  Slack <- MCSlack
  MessageLens = {0, 1, 2, 4}
  PmsLen = 3
  MaxEdits = 0
  OctetBits = 4
  Curves = {}
  Multipliers = {}
  Pairs = {}
  Encodings = {}
  Drawn = {}
  Hashes = {}
  RawInts = {}
  ChangedTo = {}
INVARIANTS SealsAgree
CHECK_DEADLOCK FALSE
