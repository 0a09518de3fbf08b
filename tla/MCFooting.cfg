SPECIFICATION FootingSpec
CONSTANTS
  shell = shell
  rerun = rerun
  tool = tool
  script = script
  stray = stray
  desktop = desktop
  office = office
  mail = mail
  chat = chat
  alice = alice
  bob = bob
  desk = desk
  server = server
  cloud = cloud
  sysmon = sysmon
  start = start
  agent = agent
  oddity = oddity
  word = word
  portal = portal
  None = None
  Absent = Absent
  FindingIds <- FourIds
  Instances <- AllInstances
  SlotOf <- Slots
  Schemes <- BothSchemes
  Telemetry <- Rows
  Devices <- ThreeDevices
  Users <- TwoUsers
  Principals <- TwoUsers
  Metadata <- TriageMetadata
  Hunts <- FourFindings
  MinScore = 5
  MinCaseSize = 2
  SingletonMinSeverity = 3
  MaxGap = 12
  TightWindow = 2
  AuthExecWindow = 3
  CrossDomainWindow = 3
  SiblingWindow = 2
  MaxSessionFanOut = 2
  MaxSessionSpan = 2
  Names <- ThreeNames
  Addresses <- OneAddress
  Processes <- Estate
  OfficeApplications <- Office
  Destinations <- Reached
  Regular <- ServerPolls
  BenignThreshold = 4
  MaxSeverityForBenign = 2
  SustainedContactThreshold = 5
INVARIANTS
  CasesAreComponents
  LinksAreTrue
  AlarmsAreInvestigated
CHECK_DEADLOCK FALSE
