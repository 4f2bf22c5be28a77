----------------------------- MODULE MCFeatures -----------------------------
(* Two runs on images of up to three components; every image of four rows  *)
(* and four columns, for a grid of three by three strips.                  *)
EXTENDS Features

MCImages == SUBSET ((0 .. ER) \X (0 .. EC))
=============================================================================
