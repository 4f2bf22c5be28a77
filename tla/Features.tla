------------------------------ MODULE Features ------------------------------
(***************************************************************************)
(* feature_400dim.cpp: what becomes of the files of components from one    *)
(* run to the next (FeatureFile), and the grid it lays over the image of   *)
(* one of them (FeatureGrid).  A behaviour is the one or the other.        *)
(***************************************************************************)
EXTENDS FeatureFile

CONSTANTS ER, EC, Strips, Images

VARIABLES
  part,
  bin, fla, bsr, ber, bsc, bec, r11, c11, grid   \* of FeatureGrid

G == INSTANCE FeatureGrid WITH pc <- grid

ASSUME FeaturesAssumption == G!Inputs

image == <<bin, fla, bsr, ber, bsc, bec, r11, c11, grid>>

NoFiles ==
  /\ run = 0 /\ comps = 0 /\ dir = <<>> /\ exists = FALSE /\ header = FALSE
  /\ data = <<>> /\ cut = FALSE /\ i = 0 /\ features = <<>>
  /\ lost = {} /\ opened = FALSE /\ pc = "none"

NoImage ==
  /\ bin = {} /\ fla = FALSE /\ bsr = 0 /\ ber = 0 /\ bsc = 0 /\ bec = 0
  /\ r11 = <<>> /\ c11 = <<>> /\ grid = "none"

StartPart ==
  \/ part = "files" /\ Init /\ NoImage
  \/ part = "grid" /\ G!Init /\ NoFiles

Files == part = "files" /\ Next /\ UNCHANGED <<part, image>>

Grid == part = "grid" /\ G!Next /\ UNCHANGED <<part, vars>>

Run == Files \/ Grid

FeaturesSpec == StartPart /\ [][Run]_<<part, vars, image>>

-----------------------------------------------------------------------------
(* The box the grid is laid over is that of the pixels but for what the    *)
(* scans leave out, or the whole image, and the strips cut it up exactly.  *)
GridExact ==
  part = "grid" =>
    /\ G!TypeOK /\ G!BoxHolds /\ G!BoxTight /\ G!WholeImage
    /\ G!WideEnough /\ G!StripsExact
=============================================================================
