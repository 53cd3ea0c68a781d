\* Four posts on pages of one, of which the API gives three at most; feeds of two out of
\* three; banners of up to three slides.
SPECIFICATION FairSpec
CONSTANTS
  MaxCalls = 2
  None = None
  Table <- MCTable
  SrvFilters = {"f1"}
  Statuses = {"ONGOING"}
  Days = {"d1"}
  Tags = {"g1"}
  PageSize = 1
  ServerMax = 3
  PagerAll = 2
  Siblings = 1
  HomeUsers = {u1, u2}
  HomePosts <- MCHomePosts
  HomeTables <- MCHomeTables
  PoolLimit = 3
  FeedLimit = 2
  SeoulCluster = {"SEONGSU", "HONGDAE"}
  Autoplay = 2
  MaxBanners = 3
  Picks = 3
  Off = Off
INVARIANTS
  ReadingTypeOK
  ShowsWhatWasAsked
  CardsMatchFilters
  PagerIsSound
  FeedIsTheUsers
  FeedIsSound
  RingAgreesWithTimer
PROPERTIES
  ExploreSettles
  SeededTimelineStays
  HomeSettles
  SlidesMoveOn
