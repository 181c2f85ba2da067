SPECIFICATION MCSpec
CONSTANTS
  shop = shop
  mart = mart
  brand = brand
  t1 = t1
  t2 = t2
  MaxSlots = 5
  Products <- MCProducts
  Table <- MCTable
  Width = 2
  Reach = 2
  MaxShard = 5
  Room = 2
  Limit = 3
  Names = {brand, shop, mart}
  Hosts = {shop, mart}
  Excluded = {mart}
  Titles = {t1, t2}
  NoOffer = NoOffer
  Cards = 2
  Fanout = 1
  Pages = 1
  Cap = 2
  Most = 2
  c1 = c1
  c2 = c2
  s1 = s1
  s2 = s2
  None = None
  Calls = {c1, c2}
  Stubs = {s1, s2}
  Ttl = 2
  MaxExports = 2
  Horizon = 2
INVARIANT TypeOK
INVARIANT RetryFresh
INVARIANT EachOnItsOwn
INVARIANT MergedOnce
PROPERTY WithinTtl
PROPERTY RefusedOnlyFromDisk
PROPERTY ImplementsAdapter
PROPERTY SearchEnds
PROPERTY AdaptersImplemented
CHECK_DEADLOCK FALSE
