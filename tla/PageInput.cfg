SPECIFICATION InputSpec
CONSTANTS
  Boards <- BoardsDef
  Desks <- DesksDef
  Hasty <- HastyDef
  Platforms = {"other", "mac", "ios", "chromeos", "legacy"}
  MaxHeld = 3
  Buttons = {"left", "back"}
  Turns <- TurnsDef
  Pointers = {0, 2, 5}
  RemoteWidths = {2, 8}
  WindowWidths = {4}
INVARIANTS TypeOK RemoteHoldsWhatIsPressed NoKeyLeftHeld
INVARIANTS RemoteSeesButtons NoButtonLeftHeld
PROPERTY PressIsWhereItPoints
CHECK_DEADLOCK FALSE
