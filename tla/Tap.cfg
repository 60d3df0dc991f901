\* Taps on two screens.
SPECIFICATION Spec
CONSTANTS
  w1 = w1
  w2 = w2
  NONE = NONE
  Word <- MCWord
  Fuzzy = 2
  BorderWidth = 1
  Sessions <- TapSession
PROPERTY TapActivates
