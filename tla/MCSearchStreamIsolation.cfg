SPECIFICATION FairSpec
CONSTANTS
  wb = wb
  ozon = ozon
  Sources = {wb, ozon}
  WB = wb
  MaxOffers <- MCMaxOffers
PROPERTY EveryStreamCompletes
CHECK_DEADLOCK FALSE
