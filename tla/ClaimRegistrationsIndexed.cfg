SPECIFICATION EdSpec
CONSTANTS
  EdContributors = {"c"}
  EdMaintainers = {"m"}
  EdOrgs = {"acme"}
  EdIssues = {1, 2}
  EdMaxEvents = 4
CHECK_DEADLOCK FALSE
INVARIANT EdRegistrationsIndexed
