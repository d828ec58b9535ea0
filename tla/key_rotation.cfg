SPECIFICATION RotationSpec
CONSTANTS
  SecretRows = {r1}
  MaxRotations = 2
  MaxSaved = 1
  MaxMishaps = 1
INVARIANT SecretsReadableAfterSwitch
CHECK_DEADLOCK FALSE
