SPECIFICATION InvestigationSpec
CONSTANTS
  own = own
  other = other
  common = common
  invented = invented
  None = None
  Roster <- ThreeSpecialists
  Configs <- ThreeConfigs
  Runtimes <- BothRuntimes
  KnownIds <- ThreeKnown
  ModelCites <- FewCites
  Citings <- TieLast
  MaxClaims = 1
  MaxProposed = 2
  MaxTook = 1
  MaxUsed = 1
INVARIANTS
  DegradedTold
CHECK_DEADLOCK FALSE
