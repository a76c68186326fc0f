--------------------------- MODULE MCPromptStore ---------------------------
(* Small instances of the prompt store for TLC. *)
EXTENDS PromptStore, TLC

Symmetric == Permutations(Requests) \cup Permutations(Prompts)
=============================================================================
