SPECIFICATION FairSpec
CONSTANTS
  s1 = s1
  s2 = s2
  None = None
  Schedules = {s1, s2}
  CronsOf <- Choice
  Unsupported = {"around"}
  NameOf <- Shared
  Days = {"sunday"}
  MaxTroubles = 2
  Editable = {s1}
INVARIANTS
  ScheduleTypeOK
  LinkedCampaignIsOurs
PROPERTIES
  EnabledSchedulesAreServed
  DisabledSchedulesRetire
CHECK_DEADLOCK FALSE
