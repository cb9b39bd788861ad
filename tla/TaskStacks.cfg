\* Is the stack of a task its own?  Three slots, stacks just large enough.
SPECIFICATION Spec
CONSTANTS
  MAX_TASKS = 3
  TASK_STACK_SIZE = 38
  DEPTH = 2
  CALLS = 5
INVARIANT
  StackReserved
CHECK_DEADLOCK FALSE
