---------------------------- MODULE MCDelegation ----------------------------
(* Two delegations of a packet under one stem, one after the other or at     *)
(* once, in one workspace; the two contents of a file have one size, the     *)
(* inventory cap is one file, and a walk may fail to read the directory that *)
(* holds the first file and the contents of the second.                      *)
EXTENDS Delegation, TLC

CONSTANTS c1, c2, p

MCStem   == c1 :> p @@ c2 :> p
MCUnder  == "dir" :> {1}
MCDigest == "x" :> "hash-x" @@ "y" :> "hash-y"
MCSize   == "x" :> "size" @@ "y" :> "size"

MCFaults == {[lost |-> {}, vague |-> {}], [lost |-> {"dir"}, vague |-> {2}]}

MCWorkspaces == {[f \in Files |-> IF f = 1 THEN "x" ELSE "y"]}

MCUsages == {[prompt |-> 3, cached |-> 1, candidates |-> 1, thoughts |-> 1]}
==============================================================================
