-------------------------- MODULE MCDirichletTracker --------------------------
(* ln_gamma, digamma and ln at whole numbers, in hundredths, for TLC. *)
EXTENDS DirichletTracker

MCLnGamma == <<0, 0, 69, 179, 318, 479, 658, 853, 1060, 1280, 1510>>
MCDigamma == <<-58, 42, 92, 126, 151, 171, 187, 202, 214, 225, 235>>
MCLn      == <<0, 69, 110, 139, 161, 179, 195, 208, 220, 230, 240>>

MCMerged == {<<<<0, 1>>, <<5, 1>>, <<0, 2>>>>}
=============================================================================
