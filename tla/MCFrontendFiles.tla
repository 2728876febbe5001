--------------------------- MODULE MCFrontendFiles ---------------------------
(***************************************************************************)
(* Values for the constants of FrontendFiles.                              *)
(***************************************************************************)
EXTENDS FrontendFiles

CONSTANTS u1, u2, u3, x, y, z

\* Two uploads that share a content, and one that repeats it and adds a refused one.
MCFilesIn == [u \in Uploads |->
    CASE u = u1 -> <<x, y>> [] u = u2 -> <<x>> [] u = u3 -> <<z, y>>]

=============================================================================
