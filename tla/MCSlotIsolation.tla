-------------------------- MODULE MCSlotIsolation --------------------------
(* Small instances of SlotIsolation for TLC. *)
EXTENDS SlotIsolation, TLC

CONSTANTS A, B, w1, w2, api, web, src, www

\* src is a directory that covers the file api; www is apart from both.
Overlaps == {<<src, src>>, <<src, api>>, <<api, src>>, <<api, api>>, <<www, www>>}

\* One task writes a file, another the directory around it and a file elsewhere.
FileAndDirectory == (api :> {api}) @@ (web :> {src, www})
Interchangeable == Permutations({A, B}) \cup Permutations({w1, w2})
Alike == Permutations({A, B})
============================================================================
