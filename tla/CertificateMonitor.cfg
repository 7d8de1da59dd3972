SPECIFICATION FairSpec
CONSTANTS
  Certs = {"tls"}
  Scoped = {"tls"}
  Channels = {"webhook"}
  Specs <- MCSpecs
  Day = 2
  Interval = 1
  Horizon = 4
  NewLives = {0, 4}
  MaxPass = 1
  MaxEdits = 1
  MaxFaults = 2
INVARIANT TypeOK
PROPERTIES SilenceIsJustified RepeatsAreExplained ExpiredIsReported StatusForgets
