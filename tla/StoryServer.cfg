SPECIFICATION Spec
CONSTANTS
  Names = {"boot", "friend"}
  Slugs = {"boot", "friend"}
  SlugOf <- MCSlugOf
  BootName = "boot"
  Tokens = {t1}
  Passwords = {1, 2}
  BootPassword = 1
  MaxChanges = 1
  None = None
  FirstDir = d1
  Dirs = {d1, d2}
  Versions <- MCVersions
  Inbox <- MCInbox
  MaxTurn = 2
  MaxLines = 2
  MaxDeaths = 1
  Nil = Nil
INVARIANT TypeOK
INVARIANT AccountTakenBack
INVARIANT ServedStoryIsWhole
INVARIANT TurnsStayInOrder
PROPERTY PlayedOnSurvives
PROPERTY ServerComesUp
CHECK_DEADLOCK FALSE
