\* Two runs of the page, two presses of the mute button, two changes of device, a broken connection.
SPECIFICATION FairSpec
CONSTANTS
  MaxStarts = 2
  MaxToggles = 2
  MaxSwitches = 2
  MaxDrops = 1
INVARIANTS TypeOK StoppedDark StoppedSilent OneHeart
PROPERTIES Joins LockFreed
\* A page that was started as often as the bound allows and stopped is at rest.
CHECK_DEADLOCK FALSE
