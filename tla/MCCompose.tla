------------------------------ MODULE MCCompose ------------------------------
(* A small instance of Compose: two dialogues beside a search tab.         *)
EXTENDS Compose
=============================================================================
