SPECIFICATION FairSpec
CONSTANTS
  ana = ana  ben = ben  cleo = cleo  acme = acme  bolt = bolt
  Instances = {1}
  Requests = {1, 2}
  Members = {ana, ben}
  Orgs = {acme}
  OrgOf <- MCOrgOf
  Readers <- MCReaders
  MaxEntries = 1
  TTL = 1
  MaxLoad = 1
  MaxTime = 3
  MaxWrites = 1
  None = None
INVARIANTS AnswersAreOwn
PROPERTIES StalenessBounded ReadersAnswered
