SPECIFICATION Spec
CONSTANTS
  opt_gx = TRUE
  Offer <- OfferGX
  Withdrawn <- WithdrawnGX
  Address <- AddressGX
  CardFiles <- CardsGX
  Copies = FALSE
  MaxDisturbed = 0
INVARIANTS TypeOK UnconfiguredSilent DaisyChain ReadBack InBounds
