------------------------------ MODULE MCOutputs ------------------------------
(* Two outputs, two CRTCs and the ways in which they are set up. *)
EXTENDS Outputs, TLC

CONSTANTS eDP, HDMI, crtc1, crtc2

MCWord == 4096
TwoOutputs == <<eDP, HDMI>>

At(x, y) == [x |-> x, y |-> y]
FourPoints == {At(1, 1), At(11, 8), At(12, 3), At(20, 5)}

Left  == [x |-> 0, y |-> 0, width |-> 12, height |-> 9]
Right == [Left EXCEPT !.x = 12]
Off   == [Left EXCEPT !.width = 0, !.height = 0]

Layout(connected, of_a, of_b, at1, at2) ==
  [connected |-> connected, crtc |-> (eDP :> of_a) @@ (HDMI :> of_b), at |-> (crtc1 :> at1) @@ (crtc2 :> at2)]

Single   == Layout({eDP}, crtc1, NULL, Left, Off)
Row      == Layout({eDP, HDMI}, crtc1, crtc2, Left, Right)
Swapped  == Layout({eDP, HDMI}, crtc2, crtc1, Left, Right)
Mirror   == Layout({eDP, HDMI}, crtc1, crtc2, Left, Left)
Clone    == Layout({eDP, HDMI}, crtc1, crtc1, Left, Off)
Unplugged == Layout({eDP}, crtc1, crtc2, Left, Right)   \* HDMI is gone and still driven
Headless == Layout({}, NULL, NULL, Off, Off)
Undocked == Layout({eDP}, crtc1, crtc2, Left, NULL)     \* the CRTC went with the dock

AllLayouts == {Single, Row, Swapped, Mirror, Clone, Unplugged, Headless, Undocked}
Plain      == {Single, Row}
=============================================================================
