----------------------------- MODULE MCListScan -----------------------------
(* TLC instances of ListScan: bytes 1 (the separator, which keys may        *)
(* contain) to 3, a bucket whose id is a prefix of another bucket's.       *)
EXTENDS ListScan

MCBucket == <<2>>
MCBuckets == {<<2>>, <<2, 2>>}
MCUserKeys == {<<1>>, <<2>>, <<2, 3>>}
MCScopes == {<<>>, <<2>>, <<2, 3>>}
MCPrefixes == {<<>>, <<2>>, <<3>>}
=============================================================================
