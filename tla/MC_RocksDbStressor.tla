------------------------- MODULE MC_RocksDbStressor -------------------------
(***************************************************************************)
(* Small instances of RocksDbStressor for TLC.                             *)
(***************************************************************************)
EXTENDS RocksDbStressor

CONSTANTS k1, k2

\* One key is enough for hits, misses and deletes to meet.
MCKeysOne == {k1}
MCKeysTwo == {k1, k2}
=============================================================================
