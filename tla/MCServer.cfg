SPECIFICATION MCSpec
CONSTANTS
  q1 = q1
  q2 = q2
  q3 = q3
  phone = phone
  watch = watch
  ip = ip
  anna = anna
  ben = ben
  chen = chen
  h1 = h1
  h2 = h2
  x1 = x1
  x2 = x2
  a1 = a1
  a2 = a2
  maths = maths
  sport = sport
  art = art
  Requests <- MCRequests
  Clients <- MCClients
  MaxTokens = 2
  NoRequest = NoRequest
  Addresses <- MCAddresses
  Identifiers <- MCIdentifiers
  Logins <- MCLogins
  AddressLimit = 4
  FailureLimit = 2
  Window = 2
  MaxEntries = 2
  LastTick = 3
  MaxVisits = 5
  NoIdentifier = NoIdentifier
  Releases <- MCReleases
  Admins <- MCAdmins
  NoRelease = NoRelease
  Mailboxes <- MCMailboxes
  Senders <- MCSenders
  Quotas <- MCQuotas
  LastDate = 2
  NoSender = NoSender
  FirstYear = 2024
  LastYear = 2029
  Anchors <- MCAnchors
  Timetable <- MCTimetable
  Exceptions <- MCExceptions
  MaxExceptions = 3
  NoLesson = NoLesson
  Unnamed = 9
  Blank = 8
INVARIANTS
  ServerInv
  ReuseExplained
  GuessesBounded
  QuotaKept
  DigestExplained
  ListedMeansThere
  ArtifactKept
  NoStrayFiles
PROPERTIES
  NoSessionAfterRevocation
  SweptWhileUploading
  WeekAdvances
SYMMETRY MCSymmetry
CHECK_DEADLOCK FALSE
