---------------------------- MODULE MCByteSource ----------------------------
(* Files shorter than, as long as and longer than one request and two.        *)
EXTENDS ByteSource

SmallFileLens == {0, 3, 8, 11}
SmallRequests == {0, 1, 3, 4, 6}
=============================================================================
