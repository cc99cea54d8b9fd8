----------------------------- MODULE MCScratch -----------------------------
(* The instances of Scratch that TLC checks. *)
EXTENDS Scratch, TLC

CONSTANTS w1, w2

Two == {w1, w2}

On(does, copy) == [does |-> does, copy |-> copy]

CheckPlan ==
    <<On("hunt", "source-base"), On("minimize", "source-base"), On("confirm", "source-base"),
      On("confirm", "source-candidate"), On("sweep", "source-candidate")>>

CorrectedPlan ==
    CheckPlan \o <<On("confirm", "source-corrected"), On("sweep", "source-corrected")>>

ReplayPlan == <<On("confirm", "source"), On("sweep", "source")>>

MapPlan == <<On("sweep", "map-candidate")>>

EveryPlan == {CheckPlan, CorrectedPlan, ReplayPlan, MapPlan}

EveryCopy == {"source-base", "source-candidate", "source-corrected", "source", "map-candidate"}
=============================================================================
