\* Every kind of request; streams of up to four events.
SPECIFICATION FairSpec
CONSTANT MaxEvents = 4
INVARIANTS StreamInv OkHasContent
PROPERTIES Deadlines CallEnds
