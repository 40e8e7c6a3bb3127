\* One provider that may lack its token: every history of three rows, over
\* three cooldown lengths.
SPECIFICATION FairSpec
CONSTANTS
  Providers = {p1}
  TokenProviders = {p1}
  Threshold = 2
  Unavailable = 3
  Cooldown = 1
  Permits = 1
  Window = 3
PROPERTIES AdmissionMatchesRows RestoreAgrees AlwaysCalledAgain
CHECK_DEADLOCK FALSE
