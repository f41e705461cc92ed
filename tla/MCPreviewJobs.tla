---------------------------- MODULE MCPreviewJobs ----------------------------
(* Small instances of PreviewJobs for TLC. *)
EXTENDS PreviewJobs
=============================================================================
