SPECIFICATION Spec
CONSTANTS
  wb = wb
  ozon = ozon
  Sources = {wb, ozon}
  WB = wb
  MaxOffers <- MCMaxOffers
INVARIANT Converge
CHECK_DEADLOCK FALSE
