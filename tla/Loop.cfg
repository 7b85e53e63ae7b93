SPECIFICATION LoopSpec
CONSTANTS
  Capacity = 1
  Carousel <- MCCarousel
  Tools = {"Desk"}
PROPERTIES
  AttemptRight
  AttemptEnds
  PreviewEnds
  AlertOpens
  ReturnsWhereOpened
  OverlayEnds
