\* Registry: two tasks, two contents of which one is too large as it is stored, two puts
\* and an archive, and a cache that remembers one answer of a kind.  Experiments: two with
\* one result each, and two children, a recorder and a player or a child that outlived the
\* node before.  Preview: up to three segments, as many requests as eight generations allow.
SPECIFICATION ServicesSpec
CONSTANTS
  Tasks = {route, round}
  Contents = {north, vast}
  Bulky = {vast}
  Puts = {put1, put2}
  Archives = {archive1}
  Keyed = {put1, put2, archive1}
  None = none
  Limit = 1
  MaxRevision = 2
  MaxCrashes = 1
  Experiments = {mapping, patrol}
  Processes = {child1, child2}
  Missing = missing
  MaxResults = 1
  MaxSegments = 3
  MaxGeneration = 8
SYMMETRY Alike
INVARIANTS AnswersAreTrue WritesAreDue IndexShowsFiles StatusIsTrue RunsAsAsked SummariesAreTrue ShownAnswersRequest
CHECK_DEADLOCK FALSE
