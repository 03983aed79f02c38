CONSTANTS
    RouteName = {AUTH, HOME, CREATE, LIST}
    Key = {k1, k2, k3, k4, k5}
    MaxDepth = 3
    MaxDismissals = 2
SPECIFICATION Spec
SYMMETRY KeySymmetry
INVARIANTS NavOK SwipedHasAScreenBeneath
PROPERTIES DismissalRemovesOnlyItsRoute GoingBackKeepsTheBottom
