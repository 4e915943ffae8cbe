SPECIFICATION MCSpec
CONSTANTS
  Builders = {"cron", "hand"}
  Orders <- MCOrders
  Feeds <- MCFeeds
  MaxFaults = 1
  Policies <- MCPolicies
  Requests <- MCRequests
  Plans = {"p1"}
  Runs = {"u1", "u2"}
  Yesterday = 2
  MaxExecuted = 4
INVARIANTS DashboardTellsTruth NothingLeftRunning SimplifiedAgrees
PROPERTIES BuildsConverge PassIsEarned
