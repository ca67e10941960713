--------------------------- MODULE MCSharePages ---------------------------
(* The instance of SharePages that is checked: the link's file has three    *)
(* chunks, one of them longer, and another file is in its folder.           *)
EXTENDS SharePages

SmallFiles == <<<<1, 2, 1>>, <<1>>>>
SomePermits == {{"preview", "thumb"}, {"content"}, {"thumb"}}
=============================================================================
