SPECIFICATION Spec
CONSTANT Tokens = {k1, k2}
INVARIANT UpgradeSendSucceeds
CHECK_DEADLOCK FALSE
