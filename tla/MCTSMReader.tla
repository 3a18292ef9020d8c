--------------------------- MODULE MCTSMReader ---------------------------
(***************************************************************************)
(* Model-checking instance of TSMReader: two readers, a float block and an *)
(* integer block, the second ending exactly at the end of the file, read   *)
(* by either typed method; one Close called twice and one rename.          *)
(***************************************************************************)
EXTENDS TSMReader

MCEntries == {[off |-> 0, size |-> 5, type |-> "float"],
              [off |-> 5, size |-> 5, type |-> "integer"]}

\* A corrupt index entry whose size is smaller than the checksum prefix.
MCEntriesShort == MCEntries \cup {[off |-> 2, size |-> 2, type |-> "float"]}
====
