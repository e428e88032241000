SPECIFICATION Spec
INVARIANT CDPGroupEnablesRoles
CHECK_DEADLOCK FALSE
