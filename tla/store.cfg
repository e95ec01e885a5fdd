SPECIFICATION Spec
CONSTANTS
    MaxAppends = 5
INVARIANTS TypeOK ReplayInOrder
PROPERTIES DamageIsLocal AppendOnly RefinesAuditLog
