SPECIFICATION Spec
CONSTANTS
    Sessions = {1}
    States = {1, 2}
INVARIANT OnceIsEnough
CHECK_DEADLOCK FALSE
