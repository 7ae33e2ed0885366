SPECIFICATION Spec
CONSTANTS
  Slots = 2
  ImagesPerFile = 2
  Series <- SameName
  Plans <- Rerun
  MayFail = FALSE
  MayStop = FALSE
PROPERTIES
  NoEarlierImages
