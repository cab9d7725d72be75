SPECIFICATION FairSpec
CONSTANTS
  Tasks = {t, u}
  Followed = t
  Calls = {c, d}
  MaxInflight = 2
  Scenarios <- Scenes
  Others = TRUE
INVARIANTS MainIsShownAsItIs NeverSleepsOnNews SeenWasSent IdleStaysIdle FollowerIsCurrent
PROPERTIES FollowedToTheEnd
CHECK_DEADLOCK FALSE
