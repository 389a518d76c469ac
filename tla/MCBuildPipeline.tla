-------------------------- MODULE MCBuildPipeline --------------------------
(***************************************************************************)
(* BuildPipeline for TLC: two versions, one of them the beginning of the   *)
(* other, two markers, sources at the tag and edited, two extensions; runs *)
(* of all phases, and runs that skip some.                                 *)
(***************************************************************************)
EXTENDS BuildPipeline

MCExtensions == <<"hibernate-orm", "panache">>

MCOccurs(a, b) == a = b \/ (a = "custom" /\ b = "custom2")

All == [suffix |-> "custom", marker |-> "M", preview |-> FALSE, hibernate |-> TRUE,
        quarkus |-> TRUE, sample |-> TRUE, verify |-> TRUE]
MCOptions == {
    All,
    [All EXCEPT !.suffix = "custom2", !.marker = "N"],
    [All EXCEPT !.preview = TRUE, !.verify = FALSE],
    [All EXCEPT !.hibernate = FALSE],
    [All EXCEPT !.suffix = "custom2", !.quarkus = FALSE],
    [All EXCEPT !.hibernate = FALSE, !.quarkus = FALSE],
    [All EXCEPT !.hibernate = FALSE, !.quarkus = FALSE, !.sample = FALSE]}
=============================================================================
