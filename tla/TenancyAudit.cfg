SPECIFICATION Spec
CONSTANTS
  NULL = NULL
  Tenants <- MCTenants
  Universe <- MCUniverse
  Families <- MCFamilies
  Droppable <- MCDroppable
  Relaxable <- MCRelaxable
  MaxLate = 1
INVARIANTS ReadyUnlessCrossed UnreachableNeverFires RootExplainsChildren
CHECK_DEADLOCK FALSE
