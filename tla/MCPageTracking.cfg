SPECIFICATION FairSpec
CONSTANTS
  Users = {u1, u2}
  Pages = {A, B}
  NoUser = NoUser
  NoPage = NoPage
  NoView = NoView
  Checking = Checking
  MaxVisits = 4
  MaxChanges = 6
CHECK_DEADLOCK FALSE
INVARIANTS
  ViewsFollowVisits
  GtmForgets
PROPERTIES
  ConsentRespected
  CookieKept
  EveryPageCounted
