---------------------------- MODULE DurableBlob ----------------------------
(***************************************************************************)
(* What the storage of one blob promises to those who do not look inside:  *)
(* no placements, no replicas, no jobs, only the upload whose bytes the    *)
(* blob stands for and whether they can be had from primary storage.       *)
(* BlobReplication implements it (ImplementsDurableBlob there).            *)
(***************************************************************************)
CONSTANTS
    Uploads,  \* upload requests
    None      \* no upload

VARIABLES
    content,    \* the upload the blob stands for
    written,    \* the uploads that have taken effect
    available,  \* primary storage serves the content
    harmed      \* primary storage lost a copy, or a deletion has begun

vars == <<content, written, available, harmed>>

Init ==
    /\ content = None
    /\ written = {}
    /\ available = FALSE
    /\ harmed = FALSE

(* An upload takes effect once, as a whole; from then on the blob stands   *)
(* for its bytes and nothing but a later upload or the deletion changes    *)
(* that.                                                                   *)
Write(r) ==
    /\ r \notin written
    /\ content' = r
    /\ written' = written \cup {r}
    /\ available' \in (IF harmed THEN BOOLEAN ELSE {TRUE})
    /\ UNCHANGED harmed

Harm ==
    /\ ~harmed
    /\ harmed' = TRUE
    /\ available' \in BOOLEAN
    /\ UNCHANGED <<content, written>>

(* In harm's way the content may be lost, and healed from a replica.       *)
LoseOrHeal ==
    /\ harmed
    /\ available' \in BOOLEAN
    /\ UNCHANGED <<content, written, harmed>>

Delete ==
    /\ harmed
    /\ content' = None
    /\ available' = FALSE
    /\ UNCHANGED <<written, harmed>>

Next == (\E r \in Uploads : Write(r)) \/ Harm \/ LoseOrHeal \/ Delete

Spec == Init /\ [][Next]_vars
=============================================================================
