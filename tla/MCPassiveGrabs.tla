----------------------------- MODULE MCPassiveGrabs -----------------------------
(* PassiveGrabs with clients, keys and modifiers that are alike.               *)
EXTENDS PassiveGrabs, TLC

MCSymmetry ==
  {f @@ g @@ h : f \in Permutations(Clients), g \in Permutations(Keys),
                 h \in Permutations(Modifiers)}
================================================================================
