\* A monitor is plugged in after the start.
SPECIFICATION Spec
CONSTANTS
  NULL = NULL
  eDP = eDP
  HDMI = HDMI
  crtc1 = crtc1
  crtc2 = crtc2
  Word <- MCWord
  Fuzzy = 2
  Output = {eDP, HDMI}
  Crtc = {crtc1, crtc2}
  OutputList <- TwoOutputs
  Layouts <- Plain
  Points <- FourPoints
  DesktopCount = 2
  DesktopIndices = {0}
  Changes = 1
PROPERTY TapsActivateAnywhere
CHECK_DEADLOCK FALSE
