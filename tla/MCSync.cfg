\* Two tasks and the thread, a queue of two.
CONSTANTS
  t1 = t1
  t2 = t2
  NoTask = NoTask
  Task <- MCTask
  Item = {1, 2}
  num_items = 2
  MaxNotify = 1
SYMMETRY Symmetry
SPECIFICATION Spec
INVARIANTS
  OwnerIsHolder
  WaitersWoken
PROPERTY KeepsOrder
