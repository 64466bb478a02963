-------------------------- MODULE MCDeduplicator --------------------------
EXTENDS Deduplicator
CONSTANT MaxDuplicates   \* bound of a TLC run
FewDuplicates == duplicateCount <= MaxDuplicates
============================================================================
