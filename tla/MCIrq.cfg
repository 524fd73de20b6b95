\* Both lines, both contexts.
SPECIFICATION FairSpec
INVARIANT RearmComing
PROPERTY LinesServiced
