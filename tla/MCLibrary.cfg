SPECIFICATION Spec
CONSTANTS
  MaxKey = 5
  Hashes <- MCHashes
  NSlots = 1
  MaxCap = 8
  Values = {1, 2}
  MinCap = 4
  MaxEntries = 3
  MaxCrashes = 2
  AddrBits = 3
  PortMax = 5
  GenInputs <- MCInputs
  MaxRounds = 2
  NULL = NULL
  Unparsed = Unparsed
  BadAddr = BadAddr
  NoChain = NoChain
  BadChains = {"bad"}
  MaxMpids = 2
  BannerFiles <- MCFiles
  HttpProtos = {2, 3}
  Cves <- MCCves
  VulnSpecs <- MCSpecs
  VendProds <- MCVendProds
  Versions <- MCVersions
  NFetchers = 2
  MaxSize = 8
  RequestFiles <- MCRequests
  MaxFaults = 2
  CsvFiles <- MCCsv
  LineFiles <- MCLines
  ChunkSize = 5
  ScgiRequests <- MCScgi
  MaxHdr = 18
  MaxLen = 4
INVARIANTS TablesExact GeneratesEachOnce ServicesExact ComponentsTraced
  VulnspecExact FetchedExactly ReadersExact
CHECK_DEADLOCK FALSE
