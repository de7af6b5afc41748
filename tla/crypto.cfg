SPECIFICATION Spec
CONSTANTS
  HashLen = 2
  CountLen = 2
  Impl <- MCImpl
  Macs <- MCMacs
  KeyLens = {0, 1, 4, 5, 8, 9}
  MaxMessage = 26
  MaxPiece = 9
  MaxIterations = 4
  MaxOut = 7
  ChunkRepeats = 3
  FullChunks = 3
  CheckEvery = 2
  Timeout = 4
  TickMod = 16
  MaxTicks = 2
  Starts = {0, 14}
  MaxNonce = 3
  MaxAsked = 10
  MaxChunks = 3
  Block = 4
  NonceLens = {0, 3, 4, 5}
  TextLens = {0, 1, 4, 5, 9}
  MaxText = 10
  AnyPieces = FALSE
  W = 5
  ByteBits = 3
  MaxWindow = 3
  Moduli = {3, 16, 31, 33, 527, 512, 1023, 1024, 1025, 1055, 16415, 16447, 17407, 32767, 24577}
  Sources <- MCSources
  SmallWords = {0, 1, 31}
  Exponents <- MCExponents
  Rooms = {7, 8, 20, 36}
  MaxOps = 2
  Dividends = {1, 100, 16000}
  Divisors = {0, 1, 3, 17, 31, 510, 1023, 5000, 16320, 16414, 16446, 32766, 24000, 11111, 1056}
  ExpBits = 5
  SmallPrimes = {17}
  Tests = 2
  MaxFactor = 12
  MaxSize = 15
  KeySizes = {14, 15}
  PubExps = {0, 1, 2, 3, 5, 7, 11, 17, 31}
  Foreign <- MCForeign
  OddFactors = {65, 67, 69, 71, 73, 75, 77, 79, 81, 83, 95, 97, 127, 129}
  Plain = {0, 1, 2, 103, 127, 206, 1000, 5000, 13080, 13081, 15000, 32767}
  PadHash <- MCPadHash
  OidLens = {0, 1, 2}
  Slack <- MCSlack
  MessageLens = {0, 1, 2, 4}
  PmsLen = 3
  MaxEdits = 2
  OctetBits = 4
  Curves <- MCCurves
  Multipliers <- MCMultipliers
  Pairs <- MCPairs
  Encodings <- MCEncodings
  Drawn <- MCDrawn
  Hashes <- MCHashes
  RawInts <- MCRawInts
  ChangedTo = {0, 1, 2, 3, 4, 5, 6, 7, 8, 9, 10, 11, 12, 48}
INVARIANTS DigestsAgree DerivedKey ProofOfWork SealsAgree NumberAgrees KeysAgree CurvesAgree
CHECK_DEADLOCK FALSE
