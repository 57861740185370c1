------------------------------- MODULE MCNetwork -------------------------------
(***************************************************************************)
(* Three parts of the network that meet only in the coordinator and the    *)
(* gateways, on small instances: the citations of posts (Citations), the   *)
(* files on their way (Transfers) and the button that funds a pool         *)
(* (Fortify).  They share no variable, so that what one does is no         *)
(* different for what the others do meanwhile: a behaviour is one of a     *)
(* single part, and the others rest.                                       *)
(*                                                                         *)
(* Event 1 has been posted about a topic; 2 answers it and cites the topic *)
(* and 1, 3 answers 2, 4 pays, answers 1 and cites the topic; 5 neither    *)
(* pays nor has done work.  Asset movie has two blocks and a preview of    *)
(* one, asset noise has the same block twice.                              *)
(***************************************************************************)
EXTENDS Citations, Transfers, Fortify

CONSTANTS topic, g1, g2, b1, b2, b3, film, clip, hiss, movie, noise

MCRefOf == <<topic, 1, 2, 1, 1>>
MCTokens == << <<>>, <<topic, 1, topic>>, <<>>, <<topic>>, <<>> >>
MCItems == << <<>>, <<>>, <<>>, <<topic>>, <<>> >>

MCBlocksOf == film :> <<b1, b2>> @@ hiss :> <<b2, b2>> @@ clip :> <<b3>>
MCOriginalOf == movie :> film @@ noise :> hiss
MCVariantsOf == movie :> <<clip>> @@ noise :> <<>>
MCInline == movie :> 1 @@ noise :> 3 @@ b1 :> 1 @@ b2 :> 2 @@ b3 :> 1
MCPriced == {<<g2, b1>>}
MCCut == {<<g1, b3>>, <<g2, b2>>}
MCServing == {<<g1, movie>>, <<g1, b1>>}
MCHolding == g1 :> {b3, clip} @@ g2 :> {b2}

\* Two polls of the first session may overlap, and one of the second with both.
MCChecks == <<2, 1>>

VARIABLE part

networkVars == <<part, citationVars, transferVars, fortifyVars>>

MCInit ==
  /\ part \in {"citations", "transfers", "fortify"}
  /\ CitationsInit
  /\ TransfersInit
  /\ FortifyInit
  /\ part # "fortify" => ~devMode /\ ~hasWebLN

MCNext ==
  /\ UNCHANGED part
  /\ \/ /\ part = "citations"
        /\ CitationsNext
        /\ UNCHANGED <<transferVars, fortifyVars>>
     \/ /\ part = "transfers"
        /\ TransfersNext
        /\ UNCHANGED <<citationVars, fortifyVars>>
     \/ /\ part = "fortify"
        /\ FortifyNext
        /\ UNCHANGED <<citationVars, transferVars>>

MCSpec == MCInit /\ [][MCNext]_networkVars

MCSymmetry == Permutations(Worker)
===============================================================================
