SPECIFICATION Spec
CONSTANTS
    MaxAppends = 3
INVARIANTS NeverRaises
