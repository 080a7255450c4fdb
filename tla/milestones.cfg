\* Two milestones, handlers that overlap, one fault, an echo, a period that may close.
CONSTANTS
  fat = fat
  sat = sat
  h1 = h1
  h2 = h2
  Codes = {fat, sat}
  Handlers = {h1, h2}
  Bounds <- Mixed
SPECIFICATION Spec
 
PROPERTIES EveryReachRecognised
CHECK_DEADLOCK FALSE
