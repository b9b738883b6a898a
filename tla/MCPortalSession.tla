-------------------------- MODULE MCPortalSession --------------------------
(***************************************************************************)
(* A small instance of PortalSession for TLC, over a store that may fail   *)
(* and over one that always answers.                                       *)
(***************************************************************************)
EXTENDS PortalSession, TLC

CONSTANTS
  StoreMayFail,  \* whether this instance explores a failing store
  FailingTokens, \* bound: tokens minted when the store may fail
  AnsweringTime  \* bound: the clock where the store answers

MCInit == Init /\ (storeMayFail => StoreMayFail)

(* Bound: where the store answers, a worker only stops when that leaves an *)
(* end unrecorded; where it may fail, anywhere.                            *)
StopsMatter ==
  \A r \in Request : Stop(r) => accident' # accident \/ RefuseRotate(r) \/ SweepDone(r)

(* Bound: there, everyone logs in on the first tick.                       *)
EarlyLogins == now > 1 => \A j \in minted' \ minted : token'[j].parent # NoJti

MCNext ==
  /\ Next
  /\ storeMayFail => Cardinality(minted') <= FailingTokens
  /\ ~storeMayFail => now' <= AnsweringTime /\ StopsMatter /\ EarlyLogins

MCSpec == MCInit /\ [][MCNext]_vars

(* Token ids and workers are interchangeable: no operator picks one.       *)
Symmetry == Permutations(Jti) \cup Permutations(Request)
=============================================================================
