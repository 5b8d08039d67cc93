SPECIFICATION Spec
CONSTANTS
  Release = {1, 2, 3}
  APP_VERSION = 1
  NoRelease = 0
INVARIANTS TypeOK OneThreadEach  OnlyVerifiedImages
PROPERTIES ManualCheckAnswered InstallReported
