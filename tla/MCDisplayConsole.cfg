SPECIFICATION Spec
CHECK_DEADLOCK FALSE
INVARIANTS  RestIsExact PointerMarksRight AxisReadsRight HintTellsGoVerdict ProxyRouteIsAsked
PROPERTIES NothingJumps
