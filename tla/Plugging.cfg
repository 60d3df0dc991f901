\* Every layout, changed twice at any moment, with taps, pagers and restarts.
SPECIFICATION Spec
CONSTANTS
  NULL = NULL
  eDP = eDP
  HDMI = HDMI
  crtc1 = crtc1
  crtc2 = crtc2
  Word <- MCWord
  Fuzzy = 2
  Output = {eDP, HDMI}
  Crtc = {crtc1, crtc2}
  OutputList <- TwoOutputs
  Layouts <- AllLayouts
  Points <- FourPoints
  DesktopCount = 2
  DesktopIndices = {0, 1, 2, 3, 4}
  Changes = 2
INVARIANTS
  OneActiveScreen
  ScreensAsPlugged
  PagersAgree
PROPERTY TapsAreSafe
CHECK_DEADLOCK FALSE
