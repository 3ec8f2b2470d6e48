CONSTANTS
  Segments <- SomeSegments
  Messages <- SomeMessages
  Values = {0, 6, 8, 70, 255}
  A <- HostA
  B <- HostB
  MaxPad = 3
SPECIFICATION Spec
PROPERTY ArrivesIntact
