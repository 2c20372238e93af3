\* Nothing to bound: four queries, one connection at a time, one scrape.
SPECIFICATION Spec
INVARIANT TypeOK
INVARIANT SampleIsPaired
INVARIANT ScrapeIsWhole
INVARIANT ScrapeAgrees
INVARIANT ScramIsMutual
PROPERTY ConnectionEnds
PROPERTY ImplementsCycle
