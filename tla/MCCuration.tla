----------------------------- MODULE MCCuration -----------------------------
(***************************************************************************)
(* Curation with an editor and an admin.                                   *)
(***************************************************************************)
EXTENDS Curation

CONSTANTS ed, ad, x

MCUser == {ed, ad}
MCAdmin == {ad}
MCIdent == {x}

=============================================================================
