SPECIFICATION FairSpec
CONSTANTS
  Certs = {"tls"}
  Scoped = {"tls"}
  Channels = {"webhook"}
  Specs <- MCWorking
  Day = 2
  Interval = 1
  Horizon = 4
  NewLives = {0, 4}
  MaxPass = 1
  MaxEdits = 0
  MaxFaults = 0
PROPERTY OnlyMeaningfulUpdates
