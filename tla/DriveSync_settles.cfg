\* One tap of each action, under the fairness the runner's wakes and the network give; answers get lost,
\* requests fail, another phone may report the event too.
SPECIFICATION FairSpec
CONSTANTS
  MaxTaps = 1
  MaxKills = 0
  MaxFaults = 0
  OtherPhone = TRUE
INVARIANTS DriveAgrees ReportAgrees
PROPERTY Settles
CHECK_DEADLOCK FALSE
