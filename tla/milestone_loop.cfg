\* One milestone reached once, nothing lost, nothing repeated, one handler at a time.
CONSTANTS
  fat = fat
  sat = sat
  h1 = h1
  h2 = h2
  Codes = {fat}
  Handlers = {h1}
  Bounds <- OnceWithEchoes
SPECIFICATION Safety
INVARIANTS InvoicedOnce
CHECK_DEADLOCK FALSE
