---------------------------- MODULE MCFlashParams ---------------------------
(* Two builds, two names, three words, speeds that are and are not taken    *)
(* for an empty flash.                                                      *)
EXTENDS FlashParams
=============================================================================
