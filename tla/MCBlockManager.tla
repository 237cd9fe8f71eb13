--------------------------- MODULE MCBlockManager ---------------------------
(* Instances of BlockManager for TLC.                                      *)
EXTENDS BlockManager

CONSTANTS s1, s2, s3

NoKeys == {[salt |-> None, extras |-> "plain"]}

\* Two salts, and an adapter under one of them.
MixedKeys == {[salt |-> None, extras |-> "plain"], [salt |-> "x", extras |-> "plain"],
              [salt |-> None, extras |-> "adapter"]}

Sequences2 == {s1, s2}
Sequences3 == {s1, s2, s3}
SymmetricIds == Permutations({s1, s2, s3})

\* One prompt that fills its only block: never a hit, since a hit stops before
\* the last prompt token.
PromptsFull == {<<1, 1>>}
\* Prompts that share a tail but not a first token.
PromptsTails == {<<1, 2>>, <<1, 2, 1>>, <<2, 2, 1>>}
PromptsA == {<<1, 1>>, <<1, 1, 1>>}
=============================================================================
