\* A change of the password, with a session open and one more token to come.
SPECIFICATION Spec
CONSTANTS
  Requests = {r1, r2}
  MaxFailures = 2
  MaxTokens = 2
  MaxResets = 1
  MaxPasswords = 1
  MaxClock = 1
SYMMETRY Symmetry
PROPERTIES
  NewPasswordNewLogin
