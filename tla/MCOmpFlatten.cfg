SPECIFICATION Spec
CONSTANT Trees <- MCTrees
INVARIANTS LeavesKept OrderKept FlatWhereWalked NothingToDo
PROPERTY Returns
