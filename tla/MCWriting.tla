----------------------------- MODULE MCWriting -----------------------------
(* One journal and a new one in the draft; two drafts in the drawer; two     *)
(* journals with two fields on the detail page.                              *)
EXTENDS Writing
CONSTANTS a, b
=============================================================================
