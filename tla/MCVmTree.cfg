SPECIFICATION FairSpec
CONSTANT Grace = 6
INVARIANT StopLeavesNoTree
PROPERTIES StopAsPromised SignalsAreDue
