SPECIFICATION Spec
CONSTANTS
  opt_gx = TRUE
  Offer <- OfferRamGX
  Withdrawn <- WithdrawnGX
  Address <- BankRegisters
  CardFiles <- NoCards
  Copies = TRUE
  MaxDisturbed = 1
INVARIANT CopyOnlyReads
