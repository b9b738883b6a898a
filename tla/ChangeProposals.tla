--------------------------- MODULE ChangeProposals ---------------------------
(***************************************************************************)
(* Proposed changes to one record (lib/Service/Proposals).  A citizen or a *)
(* colleague proposes; a reviewer accepts, which writes the record as that *)
(* reviewer and then closes the proposal, or rejects; the proposer may     *)
(* withdraw.  The app that owns the record changes it at any time.         *)
(*                                                                         *)
(* The state and the drift are judged on rows the controller read before;  *)
(* nothing is read again when the record and the proposal are written.     *)
(* Who may propose, read and review is settled before and left out; the    *)
(* reviewer's own rights may still refuse the write.                       *)
(***************************************************************************)
EXTENDS Integers

CONSTANTS
  Proposal,   \* ids of changeProposal rows
  Reviewer,   \* requests under way
  Unnamed,    \* no proposal
  Property,   \* the properties one may propose
  Value,
  Missing     \* what a record without the property says

VARIABLES
  record,    \* what the record says
  proposal,  \* the changeProposal rows
  reviewer,  \* what each request is doing
  written,   \* history, per proposal: how often its values were written
  orderly    \* fixed at the start: one request or edit at a time, nothing fails

proposalVars == <<record, proposal, reviewer, written, orderly>>

Says == [Property -> Value \cup {Missing}]
Nothing == [f \in Property |-> Missing]

(* One change per property at least, and what the record said of each.     *)
Changes == UNION {[fields -> Value] : fields \in SUBSET Property \ {{}}}
ProposalRow == [state : {"queued", "accepted", "rejected", "withdrawn"}, changes : Changes,
        snapshot : UNION {[fields -> Value \cup {Missing}] : fields \in SUBSET Property}]
NoProposal == [state |-> "none", changes |-> <<>>, snapshot |-> <<>>]

ReviewPhase == {"idle", "propose", "subject", "apply", "close"}
Decision == {"none", "accept", "confirm", "reject", "withdraw"}
NoReview == [phase |-> "idle", proposal |-> Unnamed, decision |-> "none", seen |-> Nothing]

ProposalTypeOK ==
  /\ record \in Says
  /\ proposal \in [Proposal -> ProposalRow \cup {NoProposal}]
  /\ reviewer \in [Reviewer -> [phase : ReviewPhase, proposal : Proposal \cup {Unnamed},
                           decision : Decision, seen : Says]]
  /\ written \in [Proposal -> Nat]
  /\ \A m \in Proposal : DOMAIN proposal[m].snapshot = DOMAIN proposal[m].changes

ProposalInit ==
  /\ record \in Says
  /\ proposal = [m \in Proposal |-> NoProposal]
  /\ reviewer = [p \in Reviewer |-> NoReview]
  /\ written = [m \in Proposal |-> 0]
  /\ orderly \in BOOLEAN

Unengaged == \A p \in Reviewer : reviewer[p] = NoReview
MayReview(p) == reviewer[p] = NoReview /\ (orderly => Unengaged)

Turn(p, state) == reviewer' = [reviewer EXCEPT ![p] = state]

-----------------------------------------------------------------------------
(* Proposing                                                               *)

(* A citizen's request reads the record; a colleague's has an empty one.   *)
Propose(p) ==
  /\ MayReview(p)
  /\ \E seen \in {record, Nothing} : Turn(p, [NoReview EXCEPT !.phase = "propose", !.seen = seen])
  /\ UNCHANGED <<record, proposal, written>>

RecordProposal(p, m, changes) ==
  /\ reviewer[p].phase = "propose"
  /\ proposal[m] = NoProposal
  /\ \/ proposal' = [proposal EXCEPT ![m] =
          [state |-> "queued", changes |-> changes,
           snapshot |-> [f \in DOMAIN changes |-> reviewer[p].seen[f]]]]
     \/ ~orderly /\ UNCHANGED proposal
  /\ Turn(p, NoReview)
  /\ UNCHANGED <<record, written>>

-----------------------------------------------------------------------------
(* Deciding                                                                *)

(* The proposal as the controller reads it; one that is closed is refused. *)
Review(p, m, decision) ==
  /\ MayReview(p)
  /\ proposal[m].state = "queued"
  /\ decision \in {"accept", "confirm", "reject"}
  /\ Turn(p, [NoReview EXCEPT !.phase = "subject", !.proposal = m, !.decision = decision])
  /\ UNCHANGED <<record, proposal, written>>

(* Mutant: a property the record did not have cannot drift.                *)
DriftedFromValue(m, seen) ==
  \E f \in DOMAIN proposal[m].changes :
    proposal[m].snapshot[f] # Missing /\ seen[f] # proposal[m].snapshot[f]

Drifted(m, seen) ==
  \E f \in DOMAIN proposal[m].changes : seen[f] # proposal[m].snapshot[f]

(* A record that cannot be read looks empty.  A drifted one is refused,    *)
(* unless the reviewer has confirmed.                                      *)
ReadSubject(p) ==
  LET q == reviewer[p] IN
  /\ q.phase = "subject"
  /\ \E seen \in {record} \cup (IF ~orderly THEN {Nothing} ELSE {}) :
       Turn(p, CASE q.decision = "reject" -> [q EXCEPT !.phase = "close"]
                   [] q.decision = "accept" /\ Drifted(q.proposal, seen) -> NoReview
                   [] OTHER -> [q EXCEPT !.phase = "apply"])
  /\ UNCHANGED <<record, proposal, written>>

Carries(m) ==
  record' = [f \in Property |->
    IF f \in DOMAIN proposal[m].changes THEN proposal[m].changes[f] ELSE record[f]]

(* Mutant: the reviewer's write is not looked at.                          *)
ApplyAnyway(p) ==
  LET m == reviewer[p].proposal IN
  /\ reviewer[p].phase = "apply"
  /\ \/ Carries(m) /\ written' = [written EXCEPT ![m] = @ + 1]
     \/ UNCHANGED <<record, written>>
  /\ Turn(p, [reviewer[p] EXCEPT !.phase = "close"])
  /\ UNCHANGED proposal

(* OpenRegister may refuse the reviewer; a write that throws may have been *)
(* stored all the same.                                                    *)
Apply(p) ==
  LET m == reviewer[p].proposal IN
  /\ reviewer[p].phase = "apply"
  /\ \/ /\ Carries(m)
        /\ written' = [written EXCEPT ![m] = @ + 1]
        /\ \/ Turn(p, [reviewer[p] EXCEPT !.phase = "close"])
           \/ ~orderly /\ Turn(p, NoReview)
     \/ UNCHANGED <<record, written>> /\ Turn(p, NoReview)
  /\ UNCHANGED proposal

(* Only the proposer, whose request reads the proposal and not the record. *)
WithdrawProposal(p, m) ==
  /\ MayReview(p)
  /\ proposal[m].state = "queued"
  /\ Turn(p, [NoReview EXCEPT !.phase = "close", !.proposal = m, !.decision = "withdraw"])
  /\ UNCHANGED <<record, proposal, written>>

Closed(decision) ==
  CASE decision = "reject" -> "rejected"
    [] decision = "withdraw" -> "withdrawn"
    [] OTHER -> "accepted"

(* The state is written over whatever state the row has by now.            *)
Close(p) ==
  LET q == reviewer[p] IN
  /\ q.phase = "close"
  /\ \/ proposal' = [proposal EXCEPT ![q.proposal].state = Closed(q.decision)]
     \/ ~orderly /\ UNCHANGED proposal
  /\ Turn(p, NoReview)
  /\ UNCHANGED <<record, written>>

(* The owning app, or anybody with the rights, changes the record.         *)
Edit(f, v) ==
  /\ orderly => Unengaged
  /\ record[f] # v
  /\ record' = [record EXCEPT ![f] = v]
  /\ UNCHANGED <<proposal, reviewer, written>>

ProposalStep ==
  \/ \E p \in Reviewer :
       \/ Propose(p)
       \/ \E m \in Proposal, changes \in Changes : RecordProposal(p, m, changes)
       \/ \E m \in Proposal, decision \in Decision : Review(p, m, decision)
       \/ ReadSubject(p)
       \/ Apply(p)
       \/ \E m \in Proposal : WithdrawProposal(p, m)
       \/ Close(p)
  \/ \E f \in Property, v \in Value : Edit(f, v)

ProposalNext == ProposalStep /\ UNCHANGED orderly

ProposalSpec == ProposalInit /\ [][ProposalNext]_proposalVars

-----------------------------------------------------------------------------

(* However decisions race and whichever read or write fails, a proposal    *)
(* that says accepted was written to the record (applyProposal, 321-334).  *)
AcceptedIsWritten == \A m \in Proposal : proposal[m].state = "accepted" => written[m] > 0

(* What was rejected or withdrawn never reached the record, and what was   *)
(* accepted reached it once (refusalBeforeApplying, 282; reject, 350;      *)
(* withdraw, 377).                                                         *)
WrittenIsAccepted ==
  \A m \in Proposal :
    /\ proposal[m].state \in {"rejected", "withdrawn"} => written[m] = 0
    /\ written[m] <= 1

(* However decisions race, what says accepted was written; one by one, and *)
(* with a store that works, what was written says accepted and was written *)
(* once (ProposalService, 229-391).                                        *)
DecisionsAreTrue == AcceptedIsWritten /\ (orderly => WrittenIsAccepted)

(* One by one, an acceptance that nobody confirmed overwrites only what    *)
(* the proposer saw (accept, 235-241).                                     *)
Unconfirmed(p) ==
  reviewer[p].phase = "apply" /\ reviewer[p].decision = "accept" /\ reviewer'[p] # reviewer[p]
NothingOverwrittenUnseenSerially ==
  [][orderly => \A p \in Reviewer :
       Unconfirmed(p) /\ record' # record =>
         LET m == proposal[reviewer[p].proposal] IN
         \A f \in DOMAIN m.changes : record[f] = m.snapshot[f]]_proposalVars
=============================================================================
