----------------------------- MODULE MCPipeline -----------------------------
(* Versions for model checking TestPipeline. *)
EXTENDS TestPipeline

\* The first emulator loops on the first version of a test; the others give
\* the output wanted for one version each.
MCCorrect == {<<0, 1>>, <<1, 0>>}
MCEndless == {<<0, 0>>}
=============================================================================
