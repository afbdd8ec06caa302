\* Two updates, two exchanges, two overlapping writes, one restart.
CONSTANTS
  u1 = u1
  u2 = u2
  x1 = x1
  x2 = x2
  w1 = w1
  w2 = w2
  Torn = Torn
  Updates = {u1, u2}
  Transactions = {x1, x2}
  Parts = 2
  Writers = {w1, w2}
  MaxRestarts = 1
SPECIFICATION JsonSpec
INVARIANTS
  UnsavedIsScheduled
  ExchangeWholeOnDisk
  ExitSaves
\* a process that has exited may stay down
CHECK_DEADLOCK FALSE
