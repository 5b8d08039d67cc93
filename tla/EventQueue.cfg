SPECIFICATION Spec
CONSTANTS
  EVQ_SIZE = 4
  Code = {1, 100}
  Zero = 0
INVARIANTS TypeOK OnlyPushedCodes
PROPERTIES ImplementsFifo EveryCodeLeaves
