----------------------------- MODULE MCLibraryScreen -----------------------------
(******************************************************************************)
(* One book with bookmarks whose numbers leave a gap, one share, two          *)
(* operations.                                                                *)
(******************************************************************************)
EXTENDS LibraryScreen

BookmarkIds == {1, 3}
================================================================================
