SPECIFICATION Spec
CONSTANTS
  Remembered = {s1, s2}
  Notable = {s1}
  Prompts = {p1, p2}
  Feelings = {f1}
  Tags = {t1}
  Steps = {k1}
  Practised = 1
  Expert = 2
  VecsCap = 1
  Losses = {20}
  MaxRecords = 3
  MaxVectors = 2
  MaxSaveFaults = 1
  Entries = {i1, i2}
  Contradicts <- Contradicts1
  Importances = {"critical", "background"}
  Horizon = 2
  MaxClock = 2
  MaxRenewals = 1
  MaxReloads = 1
  Rate = 200
  Floor = 500
  Ceiling = 8500
  MinSessions = 10
  Windows = {3, 12}
  MaxCycles = 60
  Exchanges = {q1}
  Instances = {n1, n2}
  MaxText = 2
  Attempts = 3
  Enough = 2
  Running = {r1, r2}
  Posts = {x1}
  Lines <- Lines1
  NoOne = NoOne
  MaxPosts = 2
  MaxEnds = 1
  MaxDaemonEnds = 1
  Blocks = {b1}
  Texts = {t1, t2}
  Authors = {a1, a2}
  MaxSaves = 4
  MaxContentLoads = 1
  Sizes = {1, 3, 6}
  MaxWords = 4
  Target = 4
  Overlap = 1
  Width = 5
  MaxChunks = 3
  Embedders = {"granite", "e5", "bge"}
  Dim <- Dim1
  Stamp = "e5"
  Never = Never
  Interval = 2
  MaxTicks = 5
  MaxObserved = 2
  MaxStarts = 3
  MaxDiskFaults = 1
  Package <- Package1
  NoFile = NoFile
  Cut = Cut
  MaxSetbacks = 1
  MaxGenerations = 4
  Chats = {"echoing", "named", "bare"}
  Presents <- Presents1
  NoId = NoId
  Providers <- Providers1
  Models <- Models1
  MemoryOn = TRUE
  Policy = "error"
  SystemLimit = 5
  MaxTurns = 3
  MaxOfRole <- MaxOfRole1
  DirectMemory = TRUE
  DirectLength = 3
INVARIANT TypeOK
INVARIANT InjectSound
 
 
 
INVARIANT AdaptersSound
INVARIANT ContentSound
 
INVARIANT BackupsSound
 
 
CHECK_DEADLOCK FALSE
