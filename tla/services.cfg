SPECIFICATION ServicesSpec
CONSTANTS
  boot1 = boot1
  boot2 = boot2
  revoke1 = revoke1
  Tasks <- MCTasks
  KindOf <- MCKindOf
  MaxSecret = 6
  MaxDays = 2
  RevokedDays = 2
  MaxCrashes = 1
  Nothing = Nothing
  Requests = {r1, r2}
  Callers = {r1, r2}
  Tokens = {t1}
  MaxAttempts = 2
  MaxIssued = 3
  MaxStarted = 4
  MaxFailures = 1
  Nobody = Nobody
  Runs = {r1, r2}
  MaxFaults = 5
  Senders = {r1, r2}
  MaxSends = 3
  MaxLapses = 1
  MaxBreaks = 1
  NoSender = NoSender
  Imports = {r1, r2}
  Txs = {t1, t2}
  MaxImports = 2
  MaxStops = 1
  Free = Free
  KeepMonths = 1
  LastMonth = 2
  Never = Never
  SecretRows = {r1, r2}
  MaxRotations = 2
  MaxSaved = 1
  MaxMishaps = 1
  MaxLaunches = 3
  MaxTroubles = 2
  Initial <- MCInitial
  Writable <- MCWritable
  Targets <- MCTargets
  Owning = {4}
  MaxWrites = 2
  MaxDeletions = 2
  Savers = {r1, r2}
  EndpointIds = {1, 2, 3}
  MaxPerApp = 2
  MaxTime = 6
  Listeners = {r1, r2}
  MaxSaves = 1
  LastDay = 2
  MaxRelayTroubles = 1
  MaxOffered = 2
  MaxSent = 4
  MaxInFlight = 2
  Inputs = {1, 2}
  MaxClicks = 9
  NoInput = 0
  Checks = {r1, r2}
  AppKeys = {k1}
  SystemKeys = k2
  NoKeys = NoKeys
  TOKEN_TTL = 1
  REPORT_TTL = 2
  LastTick = 4
  MaxTurns = 1
  MaxNoAnswers = 1
  Reviewers = {r1, r2}
  Collector = Collector
  WeekEnd = 2
  MaxChanges = 5
SYMMETRY Sym
VIEW Acting
INVARIANTS
  TypesOK  QuotaEventHonored IntakeSound
   PartitionsInTime RotationKeepsValues 
  DeletionsFailByRacesOnly OneLocalhost RelayServes ScreenTellsTruth WizardShowsTheImport
  VerdictsAreRecent ReviewStands
PROPERTIES SecretsHold
CHECK_DEADLOCK FALSE
