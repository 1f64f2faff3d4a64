----------------------------- MODULE MCNetplay -----------------------------
(* Instances of Netplay for TLC. *)
EXTENDS Netplay

MCInput == {"neutral", "punch"}

(* The first player never does what the other guesses at first; the second *)
(* does either.                                                            *)
MCPad == [p \in Peer |-> IF p = 2 THEN MCInput ELSE {"punch"}]

MCNoDelay == [p \in Peer |-> 0]
MCDelay == [p \in Peer |-> 1]
=============================================================================
