SPECIFICATION Spec
CONSTANT Ops = {o1, o2, o3, o4, o5, o6}
INVARIANTS QuietOncePassed OneOpeningPerRound
PROPERTIES PassReturns ImplementsBarrier
