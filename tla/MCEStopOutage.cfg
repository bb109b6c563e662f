CONSTANTS
  Operator = {o1}
SPECIFICATION Spec
INVARIANT EngagedMeansDenied
