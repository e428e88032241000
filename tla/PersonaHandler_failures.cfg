CONSTANTS
    QuerySources = {q1, q2}
    CDPRoles = cdp_roles
SPECIFICATION Spec
INVARIANT HardFailureIsAnError
CHECK_DEADLOCK FALSE
