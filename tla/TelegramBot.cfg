SPECIFICATION Spec
CONSTANTS
  Chats = {home, away}
  Home = home
  Packs = {lumen}
  Words = {one, two}
  None = None
  MaxUpdates = 3
  MaxDeaths = 1
INVARIANT TypeOK
INVARIANT IdeasKept
INVARIANT HandledOnce
PROPERTY EveryUpdateHandled
CHECK_DEADLOCK FALSE
