------------------------------ MODULE MCToolStack ------------------------------
(***************************************************************************)
(* ToolStack for TLC: the signatures of the tools, and the items of a      *)
(* batch.                                                                  *)
(***************************************************************************)
EXTENDS ToolStack

TextsParam == Param("texts", PositionalOrKeyword)

\* generate_embeddings, whose annotations are strings; a tool with **kwargs; one with a
\* parameter of its own named `exp`, and with a string for what it returns; one that takes
\* a secret, which its own module imports; and one with a parameter no model has a field for.
Embeddings == <<TextsParam, Annotated("embedding_kwargs", PositionalOrKeyword, "Any")>>

WithKwargs == <<TextsParam, Param("kwargs", VarKeyword)>>

WithExp == <<TextsParam, Param("exp", PositionalOrKeyword)>>

WithSecret == <<TextsParam, Annotated("secret", PositionalOrKeyword, "own")>>

WithUnfit == <<TextsParam, Annotated("_texts", PositionalOrKeyword, "unfit")>>

MCToolSignatures == {Embeddings, WithKwargs, WithExp, WithSecret, WithUnfit}

MCReturnOf == [sig \in MCToolSignatures |-> IF sig = WithExp THEN "Any" ELSE "value"]

\* Which secret is which makes no difference.
SecretSymmetry == Permutations(Secrets)

MCBatches == {<< >>, <<1, 1>>}
================================================================================
