------------------------------- MODULE MCListCache -------------------------------
\* ListCache on small sets, for TLC.
EXTENDS ListCache, TLC

CONSTANT page      \* the key of a request with parameters

KeysOfBoth == {Bare, page}
=============================================================================
