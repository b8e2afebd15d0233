-------------------------- MODULE MCGalleryService --------------------------
(* Instances of GalleryService for TLC: request slots are interchangeable.  *)
EXTENDS GalleryService, TLC

RequestSymmetry == Permutations(Requests)
=============================================================================
