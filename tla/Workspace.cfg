SPECIFICATION PartSpec
CONSTANTS
  Parts = {"ledger", "calendar", "domain", "mail", "guest", "settings", "charges",
           "portal", "progress", "fleet", "linking", "connect", "inbox", "card",
           "trail", "page", "notice"}
  Workers = {w1, w2}
  Slots <- TwoSlots
  Grace = 0
  CardAge = 1
  MaxTime = 2
  MaxRecords = 2
  MaxCrashes = 1
  Syncers = {w1, w2}
  Times = {"t1", "t2"}
  MaxMoves = 1
  MaxConsents = 1
  MaxUpsets = 1
  MaxDomainEdits = 4
  MaxDomainFaults = 2
  Mailers = {w1, w2}
  Deliveries = {d1, d2}
  Nobody = Nobody
  MaxTries = 2
  MaxPurges = 1
  MaxMailFaults = 1
  MaxEntries = 3
  MaxOpenings = 1
  Tabs = {w1, w2}
  MaxEdits = 2
  MaxSaves = 2
  MaxLostReplies = 1
  MaxPoints = 3
  MaxCorrections = 1
  MaxClock = 4
  MaxLinks = 2
  MaxReminders = 2
  MaxReschedules = 1
  Last = 1
  MaxGuestLinks = 2
  MaxFlight = 2
  MaxVisits = 5
  Moments <- FourMoments
  Gap = 2
  Readings = {1, 2}
  Rate = 1
  BilledTrips <- TwoTrips
  Invoices = {1, 2}
  Windows <- TwoWindows
  TripEndings = {2, 3}
  Day = 2
  PortalGrace = 1
  Cooldown = 2
  RetryDelay = 1
  MaxDaily = 2
  MailOf <- ThreeMails
  Signers = {2, 3}
  MaxGuests = 3
  MaxMerges = 1
  Workplaces = {1, 2}
  Accounts = {1}
  MaxTickets = 2
  MaxDemotions = 1
  Mails = {4}
  Events = {1, 2, 3}
  PageSize = 1
  FetchLimit = 2
  Begins <- ThreeBegins
  Now0 = 2
  MaxListed = 3
  MaxChanges = 1
  MaxDecisions = 1
  Items = {1, 2}
  Proposed <- TwoProposed
  CardStarts <- TwoStarts
  ZoneBefore <- WestBefore
  ZoneAfter <- WestAfter
  ZoneChange = 8
  Walls = {1, 7, 9}
  MaxOpens = 2
  MaxTyped = 1
  MaxClicks = 1
  Spans <- TwoSpans
  Lead = 1
  TrailAfter = 1
  LinkLife = 1
  Late = 1
  Skew = 1
  KeepFor <- TwoAges
  MaxHour = 3
  MaxHeard = 1
  MaxMishaps = 1
  Sites = {1, 2}
  Agreed = {1}
  LastTrip = 2
  MaxCached = 1
  MaxRevoked = 1
  MaxFails = 1
CONSTRAINT FewUpsets
SYMMETRY Alike
VIEW PartView
INVARIANTS
  LocationKept
  CardKeepsFaith
  NothingSkipped
  ConnectedAsAsked
  OneGuestPerAddress
  PartsTypeOK
  OncePerCompletion
  ConfirmedAgrees
  DetachedBeforeForgotten
  PurgedIsNotReadAgain
  ChargesAgree
  BackStaysInApp
  LinkHolds
  WordStands
PROPERTIES
  NothingGoesBack
  SavedSettingsStay
  SettledSessionsStay
  FinishedStaysFinished
CHECK_DEADLOCK FALSE
