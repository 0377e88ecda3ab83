-------------------------------- MODULE MCHub --------------------------------
(***************************************************************************)
(* Instances of federated hubs: the Python hubs have all others as peers.  *)
(***************************************************************************)
EXTENDS Hub, TLC

AllPeers == [h \in PyHubs |-> Hubs \ {h}]

\* The key k1 is in the hands of somebody who also signs delete proofs and posts a stray card.
CONSTANT k1

StrayCards == [card : [did : Agents, key : {k1}], from : {None}, home : {None}]

DatedDeletes == [did : Agents, key : {k1}, at : 0 .. Horizon]

HubSymmetry == Permutations(Challenges)
=============================================================================
