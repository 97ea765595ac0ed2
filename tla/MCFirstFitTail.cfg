CONSTANT NPAGES = 4
SPECIFICATION FitSpec
INVARIANT NoPageTwice
