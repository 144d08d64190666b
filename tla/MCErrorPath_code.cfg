SPECIFICATION Spec
CONSTANT ConnectorStatuses = {400, 503}
CHECK_DEADLOCK FALSE
INVARIANT CodeAsDeclared
