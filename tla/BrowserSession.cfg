SPECIFICATION Spec
CONSTANTS
  Tabs = {t1, t2}
  MaxMessages = 2
  MaxSignIns = 1
  MaxLosses = 1
  Nil = Nil
INVARIANTS QuietFormsAccepted ToastShownOnce SignInResumesPage NavigationEnds
SYMMETRY TabSymmetry

