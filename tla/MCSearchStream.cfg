SPECIFICATION MCSpec
CONSTANTS
  wb = wb
  ozon = ozon
  Sources = {wb, ozon}
  WB = wb
  MaxOffers <- MCMaxOffers
INVARIANT WellFormed
INVARIANT StreamAgrees
INVARIANT AdjustedOnce
PROPERTY NothingAfterEnd
PROPERTY CacheKeepsAnswers
PROPERTY StreamCompletes
CHECK_DEADLOCK FALSE
