------------------------------ MODULE MCArchive ------------------------------
(* Each part of Storage on a small instance of its own. *)
EXTENDS Storage

(* Two files of one name; the sync alone, beside the re-routing, or beside *)
(* a backfill.                                                             *)
MCBaseOf == [f \in File |-> "x"]
MCDefaultOf == [f \in File |-> "_unsorted"]
MCCasts == {{"sync"}, {"sync", "reroute"}, {"sync", "backfill"}}
MCRivals == {{"sync", "backfill"}}

(* A module's folder with a file not yet sorted, a like one of another     *)
(* module, and a file of the owner's outside the root.                     *)
MCPaths ==
  {<<>>, <<"t", "m">>, <<"t", "m", "..">>}
    \cup {<<"t", "m", d>> : d \in {"_unsorted", "cat"}} \cup {<<"t", "w", "cat">>}
    \cup {<<"t", "m", d, "n">> : d \in {"_unsorted", "cat"}} \cup {<<"t", "w", "cat", "n">>}
MCSafe == {"t", "m", "w", "_unsorted", "cat", "n"}
MCItem(in, path, folder) == [in |-> in, path |-> path, folder |-> folder]
MCOwners ==
  <<MCItem(TRUE, <<>>, TRUE), MCItem(TRUE, <<"t", "m">>, TRUE),
    MCItem(TRUE, <<"t", "m", "_unsorted">>, TRUE),
    MCItem(TRUE, <<"t", "m", "_unsorted", "n">>, FALSE),
    MCItem(FALSE, <<"n">>, FALSE), MCItem(TRUE, <<"t", "w", "cat">>, TRUE)>>

=============================================================================
