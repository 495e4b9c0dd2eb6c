----------------------------- MODULE MCLeafPage -----------------------------
EXTENDS LeafPage

MCKeys == 1..3
MCValLen == [s |-> 1, l |-> 4]

\* A scaled layout: records of 3 and 6 bytes with their meta, classes 4, 7, 11 below
\* a leaf of 21, or 4, 7, 8 below one of 14 in cache-only mode: three large records
\* are more than a root leaf holds there, and more than a base page holds below it.
Conf(cache_only, load_full, record_cache) ==
  [min |-> 2, max |-> 5, leaf |-> IF cache_only THEN 14 ELSE 21, fence |-> 2, cb |-> 128,
   cache_only |-> cache_only, load_full |-> load_full, record_cache |-> record_cache,
   pages |-> IF cache_only THEN 3 ELSE 1, leaves |-> 3,
   records |-> {<<k, "l">> : k \in MCKeys} \cup (IF record_cache THEN {<<1, "s">>} ELSE {})]

\* On disk with records or whole pages cached by reads, and in cache-only mode.
MCConfigs == {Conf(FALSE, TRUE, TRUE), Conf(FALSE, FALSE, FALSE), Conf(TRUE, FALSE, TRUE)}
=============================================================================
