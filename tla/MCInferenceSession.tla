-------------------------- MODULE MCInferenceSession --------------------------
(* Two servers, two candidate formats. *)
EXTENDS InferenceSession

CONSTANTS s1, s2   \* the members of Servers

MCFormats == <<"none", "deepseek">>

===============================================================================
