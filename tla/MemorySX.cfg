SPECIFICATION Spec
CONSTANTS
  opt_gx = FALSE
  Offer <- OfferSX
  Withdrawn <- WithdrawnSX
  Address <- Boundaries
  CardFiles <- CardsSX
  Copies = TRUE
  MaxDisturbed = 1
INVARIANTS ReadBack InBounds CopyRestores
