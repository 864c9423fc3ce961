---------------------------- MODULE MCReaderLoop ----------------------------
(* Two readers and two tags: enough for a tag to move between readers, for *)
(* two tags to share a field and for one reader to block the other.        *)
EXTENDS ReaderLoop
=============================================================================
