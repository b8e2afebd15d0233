-------------------------- MODULE MCGalleryBrowser --------------------------
(* GalleryBrowser for TLC.  Another moderator's gallery comes and goes in  *)
(* the middle of the listing, the user's own at its end.                   *)
EXTENDS GalleryBrowser, TLC

MCOwned == {MaxGalleries}

MCChanging == {2}

CallSymmetry == Permutations(Calls)
=============================================================================
