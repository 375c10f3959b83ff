SPECIFICATION Spec
CONSTANT Plans <- UrcPlans
INVARIANT NothingStranded
