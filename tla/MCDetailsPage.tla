---------------------------- MODULE MCDetailsPage ----------------------------
EXTENDS DetailsPage, TLC

GallerySymmetry == Permutations(Galleries)
=============================================================================
