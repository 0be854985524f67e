SPECIFICATION FairSpec
CONSTANT Grace = 3
INVARIANT StopReachesCrosvm
