----------------------------- MODULE MCRequests -----------------------------
(***************************************************************************)
(* Small instances, for TLC, of the services whose requests read, check    *)
(* and write in separate steps.  A scenario runs one of the two services   *)
(* and says how its requests meet.                                         *)
(***************************************************************************)
EXTENDS ActivitySignup, ChangeProposals, TLC

CONSTANTS
  MaxUnseen, \* bound: how many promotions are stored and not counted
  MaxGone,   \* bound: how many sign-ups are withdrawn at a time where requests overlap
  MaxWrites, \* bound: how often one proposal's values are written
  Contested  \* bound: the property over which decisions race

VARIABLE scenario

mcVars == <<vars, proposalVars, scenario>>

ASignupScenario == scenario \in {"parallel", "billing", "serial"}

(* Bounds: where sign-ups overlap they do so over one place, open from the *)
(* start; the other service starts in one state.                           *)
MCInit ==
  /\ Init
  /\ ProposalInit
  /\ scenario \in {"parallel", "billing", "serial", "racing", "deciding"}
  /\ calm = (scenario = "serial")
  /\ billing = (scenario = "billing")
  /\ orderly = (scenario = "deciding")
  /\ capacity = IF calm THEN Capacity ELSE 1
  /\ ~calm => activity = [open |-> TRUE, places |-> 1]
  /\ ASignupScenario => record = Nothing
  /\ scenario = "racing" => \A f \in Property \ {Contested} : record[f] = Missing

(* Bound: no step into these phases.                                       *)
Without(phases) == \A p \in Process : proc'[p].phase \notin phases

(* Bounds: staff change the supervisors where requests overlap, billing is *)
(* a scenario of its own on three rows, and in the last one the clock only *)
(* moves between requests.                                                 *)
SignupNext ==
  /\ Next
  /\ unseen' <= MaxUnseen
  /\ \/ /\ scenario = "parallel"
        /\ Without({"status"})
        /\ Cardinality(Of(row', "withdrawn")) <= MaxGone
        /\ now' = 0
     \/ /\ scenario = "billing"
        /\ Without({"status", "supervise"})
        /\ row'[4] = NoRow
        /\ now' = 0
     \/ scenario = "serial" /\ (now' # now => \A p \in Process : proc[p] = Idle)
  /\ UNCHANGED proposalVars

(* Bound: decisions that race do so over one property, of one proposal.    *)
DecisionNext ==
  /\ ProposalNext
  /\ scenario = "racing" =>
       /\ Cardinality({m \in Proposal : proposal'[m] # NoProposal}) <= 1
       /\ \A m \in Proposal :
            /\ DOMAIN proposal'[m].changes \subseteq {Contested}
            /\ written'[m] <= MaxWrites
       /\ \A f \in Property \ {Contested} : record'[f] = record[f]
  /\ UNCHANGED vars

MCNext ==
  /\ \/ ASignupScenario /\ SignupNext
     \/ ~ASignupScenario /\ DecisionNext
  /\ UNCHANGED scenario

MCSpec == MCInit /\ [][MCNext]_mcVars

(* Nothing is liveness here, and no operator picks one of these.           *)
Anyone ==
  Permutations(Child) \cup Permutations(Process) \cup Permutations(Proposal)
    \cup Permutations(Reviewer)
=============================================================================
