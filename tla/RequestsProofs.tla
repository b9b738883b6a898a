--------------------------- MODULE RequestsProofs ---------------------------
(***************************************************************************)
(* What holds of change proposals for any proposals, requests, properties  *)
(* and values, and of the places of an activity for any children, requests *)
(* and places: however the requests overlap and the store fails where      *)
(* nothing is said of it, and one by one where the property says so.       *)
(***************************************************************************)
EXTENDS ActivitySignup, ChangeProposals, FiniteSetTheorems, TLAPS

ReviewRequest == [phase : ReviewPhase, proposal : Proposal \cup {Unnamed}, decision : Decision, seen : Says]

(* A request past its first read knows its proposal and what it decides;   *)
(* one that applies accepts; one that closes as accepted has written.      *)
KnowsProposal(q, rows) ==
  q.phase \in {"subject", "apply", "close"} => q.proposal \in Proposal /\ rows[q.proposal] \in ProposalRow
Accepts(q) == q.phase = "apply" => q.decision \in {"accept", "confirm"}
Decides(q) == q.phase = "subject" => q.decision \in {"accept", "confirm", "reject"}
HasWritten(q, count) ==
  q.phase = "close" /\ Closed(q.decision) = "accepted" => count[q.proposal] > 0

SoundReview(q, count, rows) == KnowsProposal(q, rows) /\ Accepts(q) /\ Decides(q) /\ HasWritten(q, count)

ReviewInv ==
  /\ ProposalTypeOK
  /\ \A p \in Reviewer : SoundReview(reviewer[p], written, proposal)
  /\ AcceptedIsWritten

-----------------------------------------------------------------------------

LEMMA IdleIsSound ==
  /\ NoReview \in ReviewRequest
  /\ \A count, rows : SoundReview(NoReview, count, rows)
  BY DEF NoReview, ReviewRequest, ReviewPhase, Decision, Nothing, Says, SoundReview, KnowsProposal, Accepts,
         Decides, HasWritten

(* A step of one request that neither changes what was written nor closes  *)
(* a proposal.                                                             *)
LEMMA StepOfOne ==
  ASSUME ReviewInv, NEW p \in Reviewer, NEW q \in ReviewRequest, SoundReview(q, written, proposal),
         Turn(p, q), UNCHANGED <<proposal, written>>, record' \in Says
  PROVE  ReviewInv'
<1>1. ProposalTypeOK'
  BY DEF ReviewInv, ProposalTypeOK, Turn, ReviewRequest
<1>2. \A r \in Reviewer : SoundReview(reviewer'[r], written, proposal)
  BY DEF ReviewInv, ProposalTypeOK, Turn, ReviewRequest
<1>3. \A r \in Reviewer : SoundReview(reviewer'[r], written', proposal')
  BY <1>2
<1>4. AcceptedIsWritten'
  BY DEF ReviewInv, AcceptedIsWritten
<1> QED BY <1>1, <1>3, <1>4 DEF ReviewInv

LEMMA ReviewInitHolds == ProposalInit => ReviewInv
<1> SUFFICES ASSUME ProposalInit PROVE ReviewInv
  OBVIOUS
<1>1. ProposalTypeOK
  BY IdleIsSound DEF ProposalInit, ProposalTypeOK, ReviewRequest, NoProposal
<1>2. \A p \in Reviewer : SoundReview(reviewer[p], written, proposal)
  BY IdleIsSound DEF ProposalInit
<1>3. AcceptedIsWritten
  BY DEF ProposalInit, AcceptedIsWritten, NoProposal
<1> QED BY <1>1, <1>2, <1>3 DEF ReviewInv

LEMMA ProposeKeeps == ASSUME ReviewInv, NEW p \in Reviewer, Propose(p) PROVE ReviewInv'
<1>1. record \in Says /\ Nothing \in Says
  BY DEF ReviewInv, ProposalTypeOK, Says, Nothing
<1>2. PICK seen \in {record, Nothing} : Turn(p, [NoReview EXCEPT !.phase = "propose", !.seen = seen])
  BY DEF Propose
<1> DEFINE q == [NoReview EXCEPT !.phase = "propose", !.seen = seen]
<1>3. q \in ReviewRequest
  BY <1>1, <1>2 DEF NoReview, ReviewRequest, ReviewPhase, Decision
<1>4. SoundReview(q, written, proposal)
  BY DEF SoundReview, KnowsProposal, Accepts, Decides, HasWritten, NoReview
<1> QED BY <1>1, <1>2, <1>3, <1>4, StepOfOne DEF Propose

LEMMA RecordProposalKeeps ==
  ASSUME ReviewInv, NEW p \in Reviewer, NEW m \in Proposal, NEW changes \in Changes,
         RecordProposal(p, m, changes)
  PROVE  ReviewInv'
<1> DEFINE seen == [f \in DOMAIN changes |-> reviewer[p].seen[f]]
           new == [state |-> "queued", changes |-> changes, snapshot |-> seen]
<1>1. CASE proposal' = proposal
  BY <1>1, IdleIsSound, StepOfOne DEF RecordProposal, ReviewInv, ProposalTypeOK
<1>2. CASE proposal' = [proposal EXCEPT ![m] = new]
  <2>1. PICK fields \in SUBSET Property \ {{}} : changes \in [fields -> Value]
    BY DEF Changes
  <2>2. DOMAIN changes = fields
    BY <2>1
  <2>3. reviewer[p].seen \in Says
    BY DEF ReviewInv, ProposalTypeOK
  <2>4. seen \in [fields -> Value \cup {Missing}]
    BY <2>1, <2>2, <2>3 DEF Says
  <2>5. new \in ProposalRow
    BY <2>1, <2>4 DEF ProposalRow
  <2>6. DOMAIN new.snapshot = DOMAIN new.changes
    OBVIOUS
  <2>7. ProposalTypeOK'
    BY <1>2, <2>5, <2>6, IdleIsSound DEF ReviewInv, ProposalTypeOK, RecordProposal, Turn, ReviewRequest
  <2>8. \A r \in Reviewer : SoundReview(reviewer'[r], written', proposal')
    BY <1>2, <2>5, IdleIsSound
    DEF ReviewInv, ProposalTypeOK, RecordProposal, Turn, SoundReview, KnowsProposal, Accepts, Decides, HasWritten
  <2>9. AcceptedIsWritten'
    BY <1>2 DEF ReviewInv, ProposalTypeOK, AcceptedIsWritten, RecordProposal
  <2> QED BY <2>7, <2>8, <2>9 DEF ReviewInv
<1> QED BY <1>1, <1>2 DEF RecordProposal

LEMMA ReviewKeeps ==
  ASSUME ReviewInv, NEW p \in Reviewer, NEW m \in Proposal, NEW decision \in Decision,
         Review(p, m, decision)
  PROVE  ReviewInv'
<1> DEFINE q == [NoReview EXCEPT !.phase = "subject", !.proposal = m, !.decision = decision]
<1>1. q \in ReviewRequest
  BY IdleIsSound DEF NoReview, ReviewRequest, ReviewPhase, Decision
<1>0. proposal[m] \in ProposalRow
  BY DEF Review, ReviewInv, ProposalTypeOK, NoProposal
<1>2. SoundReview(q, written, proposal)
  BY <1>0 DEF SoundReview, KnowsProposal, Accepts, Decides, HasWritten, NoReview, Review
<1>3. Turn(p, q) /\ UNCHANGED <<proposal, written>> /\ record' \in Says
  BY DEF Review, ReviewInv, ProposalTypeOK
<1> QED BY <1>1, <1>2, <1>3, StepOfOne

LEMMA WithdrawKeeps ==
  ASSUME ReviewInv, NEW p \in Reviewer, NEW m \in Proposal, WithdrawProposal(p, m) PROVE ReviewInv'
<1> DEFINE q == [NoReview EXCEPT !.phase = "close", !.proposal = m, !.decision = "withdraw"]
<1>1. q \in ReviewRequest
  BY IdleIsSound DEF NoReview, ReviewRequest, ReviewPhase, Decision
<1>0. proposal[m] \in ProposalRow
  BY DEF WithdrawProposal, ReviewInv, ProposalTypeOK, NoProposal
<1>2. SoundReview(q, written, proposal)
  BY <1>0 DEF SoundReview, KnowsProposal, Accepts, Decides, HasWritten, NoReview, Closed
<1>3. Turn(p, q) /\ UNCHANGED <<proposal, written>> /\ record' \in Says
  BY DEF WithdrawProposal, ReviewInv, ProposalTypeOK
<1> QED BY <1>1, <1>2, <1>3, StepOfOne

LEMMA ReadSubjectKeeps == ASSUME ReviewInv, NEW p \in Reviewer, ReadSubject(p) PROVE ReviewInv'
<1> DEFINE q == reviewer[p]
           m == q.proposal
           rejecting == [q EXCEPT !.phase = "close"]
           applying == [q EXCEPT !.phase = "apply"]
<1>1. q \in ReviewRequest /\ SoundReview(q, written, proposal) /\ q.phase = "subject"
  BY DEF ReviewInv, ProposalTypeOK, ReviewRequest, ReadSubject
<1>2. UNCHANGED <<proposal, written>> /\ record' \in Says
  BY DEF ReadSubject, ReviewInv, ProposalTypeOK
<1>3. CASE q.decision = "reject" /\ Turn(p, rejecting)
  <2>1. rejecting \in ReviewRequest
    BY <1>1 DEF ReviewRequest, ReviewPhase
  <2>2. SoundReview(rejecting, written, proposal)
    BY <1>1, <1>3 DEF SoundReview, KnowsProposal, Accepts, Decides, HasWritten, Closed, ReviewRequest
  <2> QED BY <1>2, <1>3, <2>1, <2>2, StepOfOne
<1>4. CASE Turn(p, NoReview)
  BY <1>2, <1>4, IdleIsSound, StepOfOne
<1>5. CASE q.decision \in {"accept", "confirm"} /\ Turn(p, applying)
  <2>1. applying \in ReviewRequest
    BY <1>1 DEF ReviewRequest, ReviewPhase
  <2>2. SoundReview(applying, written, proposal)
    BY <1>1, <1>5 DEF SoundReview, KnowsProposal, Accepts, Decides, HasWritten, ReviewRequest
  <2> QED BY <1>2, <1>5, <2>1, <2>2, StepOfOne
<1>6. PICK seen : Turn(p, CASE q.decision = "reject" -> rejecting
                              [] q.decision = "accept" /\ Drifted(m, seen) -> NoReview
                              [] OTHER -> applying)
  BY DEF ReadSubject
<1>7. q.decision \in {"accept", "confirm", "reject"}
  BY <1>1 DEF SoundReview, Decides
<1> QED BY <1>3, <1>4, <1>5, <1>6, <1>7

LEMMA ApplyKeeps == ASSUME ReviewInv, NEW p \in Reviewer, Apply(p) PROVE ReviewInv'
<1> DEFINE q == reviewer[p]
           m == q.proposal
           closing == [q EXCEPT !.phase = "close"]
<1>1. q \in ReviewRequest /\ m \in Proposal /\ SoundReview(q, written, proposal) /\ q.phase = "apply"
  BY DEF ReviewInv, ProposalTypeOK, ReviewRequest, Apply, SoundReview, KnowsProposal
<1>2. CASE UNCHANGED <<record, written>> /\ Turn(p, NoReview)
  BY <1>2, IdleIsSound, StepOfOne DEF Apply, ReviewInv, ProposalTypeOK
<1>3. CASE Carries(m) /\ written' = [written EXCEPT ![m] = @ + 1]
           /\ (Turn(p, closing) \/ Turn(p, NoReview))
  <2>1. written' \in [Proposal -> Nat] /\ written'[m] > 0
        /\ \A k \in Proposal : written[k] > 0 => written'[k] > 0
    BY <1>1, <1>3 DEF ReviewInv, ProposalTypeOK
  <2>2. record' \in Says
    <3>1. \A f \in Property :
            f \in DOMAIN proposal[m].changes => proposal[m].changes[f] \in Value
      BY <1>1 DEF ReviewInv, ProposalTypeOK, ProposalRow, NoProposal, Changes
    <3> QED BY <1>3, <3>1 DEF Carries, ReviewInv, ProposalTypeOK, Says
  <2>3. closing \in ReviewRequest
    BY <1>1 DEF ReviewRequest, ReviewPhase
  <2>0. proposal' = proposal
    BY DEF Apply
  <2>4. SoundReview(closing, written', proposal')
    BY <1>1, <2>1, <2>0 DEF SoundReview, KnowsProposal, Accepts, Decides, HasWritten, ReviewRequest
  <2>5. \A r \in Reviewer : SoundReview(reviewer[r], written', proposal')
    BY <2>1, <2>0 DEF ReviewInv, SoundReview, KnowsProposal, HasWritten
  <2>6. reviewer' \in [Reviewer -> ReviewRequest]
    BY <1>3, <2>3, IdleIsSound DEF ReviewInv, ProposalTypeOK, Turn, ReviewRequest
  <2>9. \A r \in Reviewer : SoundReview(reviewer'[r], written', proposal')
    <3>1. SoundReview(NoReview, written', proposal')
      BY IdleIsSound
    <3>2. \A r \in Reviewer : reviewer'[r] \in {reviewer[r], closing, NoReview}
      BY <1>3 DEF ReviewInv, ProposalTypeOK, Turn
    <3> QED BY <2>4, <2>5, <3>1, <3>2
  <2>7. ProposalTypeOK'
    BY <2>1, <2>2, <2>6 DEF ReviewInv, ProposalTypeOK, Apply, ReviewRequest
  <2>8. AcceptedIsWritten'
    BY <2>1 DEF ReviewInv, AcceptedIsWritten, Apply
  <2> QED BY <2>7, <2>8, <2>9 DEF ReviewInv
<1> QED BY <1>2, <1>3 DEF Apply

LEMMA CloseKeeps == ASSUME ReviewInv, NEW p \in Reviewer, Close(p) PROVE ReviewInv'
<1> DEFINE q == reviewer[p]
           m == q.proposal
<1>1. q \in ReviewRequest /\ m \in Proposal /\ SoundReview(q, written, proposal) /\ q.phase = "close"
  BY DEF ReviewInv, ProposalTypeOK, ReviewRequest, Close, SoundReview, KnowsProposal
<1>2. CASE UNCHANGED proposal
  BY <1>2, IdleIsSound, StepOfOne DEF Close, ReviewInv, ProposalTypeOK
<1>3. CASE proposal' = [proposal EXCEPT ![m].state = Closed(q.decision)]
  <2>1. Closed(q.decision) \in {"accepted", "rejected", "withdrawn"}
    BY DEF Closed
  <2>2. proposal[m] \in ProposalRow
    BY <1>1 DEF SoundReview, KnowsProposal
  <2>3. proposal'[m] \in ProposalRow
    BY <1>1, <1>3, <2>1, <2>2 DEF ReviewInv, ProposalTypeOK, ProposalRow
  <2>4. \A k \in Proposal : /\ proposal'[k].changes = proposal[k].changes
                           /\ proposal'[k].snapshot = proposal[k].snapshot
    BY <1>1, <1>3, <2>2 DEF ReviewInv, ProposalTypeOK, ProposalRow
  <2>5. ProposalTypeOK'
    BY <1>3, <2>3, <2>4, IdleIsSound DEF ReviewInv, ProposalTypeOK, Close, Turn, ReviewRequest
  <2>6. \A r \in Reviewer : SoundReview(reviewer'[r], written', proposal')
    BY <1>3, <2>3, IdleIsSound
    DEF ReviewInv, ProposalTypeOK, Close, Turn, SoundReview, KnowsProposal, Accepts, Decides, HasWritten
  <2>7. AcceptedIsWritten'
    BY <1>1, <1>3, <2>1 DEF ReviewInv, ProposalTypeOK, AcceptedIsWritten, Close, SoundReview, HasWritten
  <2> QED BY <2>5, <2>6, <2>7 DEF ReviewInv
<1> QED BY <1>2, <1>3 DEF Close

LEMMA EditKeeps == ASSUME ReviewInv, NEW f \in Property, NEW v \in Value, Edit(f, v) PROVE ReviewInv'
<1>1. record' \in Says
  BY DEF ReviewInv, ProposalTypeOK, Edit, Says
<1> QED BY <1>1 DEF ReviewInv, ProposalTypeOK, Edit, AcceptedIsWritten

LEMMA ReviewNextKeeps == ReviewInv /\ [ProposalNext]_proposalVars => ReviewInv'
<1> SUFFICES ASSUME ReviewInv, [ProposalNext]_proposalVars PROVE ReviewInv'
  OBVIOUS
<1>1. CASE UNCHANGED proposalVars
  BY <1>1 DEF proposalVars, ReviewInv, ProposalTypeOK, AcceptedIsWritten
<1>2. ASSUME NEW p \in Reviewer, Propose(p) PROVE ReviewInv'
  BY <1>2, ProposeKeeps
<1>3. ASSUME NEW p \in Reviewer, NEW m \in Proposal, NEW changes \in Changes,
             RecordProposal(p, m, changes)
      PROVE  ReviewInv'
  BY <1>3, RecordProposalKeeps
<1>4. ASSUME NEW p \in Reviewer, NEW m \in Proposal, NEW decision \in Decision,
             Review(p, m, decision)
      PROVE  ReviewInv'
  BY <1>4, ReviewKeeps
<1>5. ASSUME NEW p \in Reviewer, ReadSubject(p) PROVE ReviewInv'
  BY <1>5, ReadSubjectKeeps
<1>6. ASSUME NEW p \in Reviewer, Apply(p) PROVE ReviewInv'
  BY <1>6, ApplyKeeps
<1>7. ASSUME NEW p \in Reviewer, NEW m \in Proposal, WithdrawProposal(p, m) PROVE ReviewInv'
  BY <1>7, WithdrawKeeps
<1>8. ASSUME NEW p \in Reviewer, Close(p) PROVE ReviewInv'
  BY <1>8, CloseKeeps
<1>9. ASSUME NEW f \in Property, NEW v \in Value, Edit(f, v) PROVE ReviewInv'
  BY <1>9, EditKeeps
<1> QED BY <1>1, <1>2, <1>3, <1>4, <1>5, <1>6, <1>7, <1>8, <1>9 DEF ProposalNext, ProposalStep

-----------------------------------------------------------------------------

(* Proposals, requests and the record keep their types, whatever decisions *)
(* race and whichever read or write fails (ProposalService, 112-464).      *)
THEOREM ProposalsTypeCorrect == ProposalSpec => []ProposalTypeOK
<1>1. ReviewInv => ProposalTypeOK
  BY DEF ReviewInv
<1> QED BY <1>1, ReviewInitHolds, ReviewNextKeeps, PTL DEF ProposalSpec

(* However many reviewers decide at once, and whichever read or write      *)
(* fails, a proposal that says accepted was written to the record          *)
(* (applyProposal, 321-334).                                               *)
THEOREM AcceptedMeansWritten == ProposalSpec => []AcceptedIsWritten
<1>1. ReviewInv => AcceptedIsWritten
  BY DEF ReviewInv
<1> QED BY <1>1, ReviewInitHolds, ReviewNextKeeps, PTL DEF ProposalSpec

-----------------------------------------------------------------------------
(* One by one, and with a store that works                                 *)

Accepting(q) == q.phase = "close" /\ Closed(q.decision) = "accepted"

(* What a request decides is still open, and written by that request only; *)
(* what it applies unconfirmed is what the proposer saw.                   *)
Engaged(q, rows, count, says) ==
  q.phase \in {"subject", "apply", "close"} =>
    /\ rows[q.proposal].state = "queued"
    /\ count[q.proposal] = IF Accepting(q) THEN 1 ELSE 0
    /\ q.phase = "apply" /\ q.decision = "accept" =>
         \A f \in DOMAIN rows[q.proposal].changes : says[f] = rows[q.proposal].snapshot[f]

OneReview == \A p, r \in Reviewer : reviewer[p] # NoReview /\ reviewer[r] # NoReview => p = r
EachEngaged == \A p \in Reviewer : Engaged(reviewer[p], proposal, written, record)
WrittenOnce == \A m \in Proposal : written[m] \in {0, 1}
WrittenIsClosed ==
  \A m \in Proposal : written[m] # 0 /\ proposal[m].state # "accepted" =>
    \E p \in Reviewer : reviewer[p].phase = "close" /\ reviewer[p].proposal = m

InOrder == OneReview /\ EachEngaged /\ WrittenOnce /\ WrittenIsClosed
Ordered == orderly => InOrder

LEMMA IdleIsEngaged == \A rows, count, says : Engaged(NoReview, rows, count, says)
  BY DEF Engaged, NoReview

(* Whoever acts does so alone.                                             *)
LEMMA Alone ==
  ASSUME InOrder, NEW p \in Reviewer, reviewer[p] # NoReview \/ Unengaged
  PROVE  \A r \in Reviewer \ {p} : reviewer[r] = NoReview
  BY DEF InOrder, OneReview, Unengaged

LEMMA OneStaysOne ==
  ASSUME ReviewInv, InOrder, NEW p \in Reviewer, reviewer[p] # NoReview \/ Unengaged,
         NEW q, Turn(p, q)
  PROVE  /\ OneReview'
         /\ reviewer'[p] = q
         /\ \A r \in Reviewer \ {p} : reviewer[r] = NoReview /\ reviewer'[r] = NoReview
<1>1. \A r \in Reviewer \ {p} : reviewer[r] = NoReview
  BY Alone
<1>2. reviewer'[p] = q /\ \A r \in Reviewer \ {p} : reviewer'[r] = NoReview
  BY <1>1 DEF Turn, ReviewInv, ProposalTypeOK
<1> QED BY <1>1, <1>2 DEF OneReview

(* A step of one request that changes neither rows nor record.             *)
LEMMA StepInOrder ==
  ASSUME ReviewInv, InOrder, NEW p \in Reviewer, reviewer[p] # NoReview \/ Unengaged,
         NEW q, Turn(p, q), Engaged(q, proposal, written, record),
         UNCHANGED <<proposal, written, record>>, reviewer[p].phase # "close"
  PROVE  InOrder'
<1>1. OneReview' /\ reviewer'[p] = q
      /\ \A r \in Reviewer \ {p} : reviewer[r] = NoReview /\ reviewer'[r] = NoReview
  BY OneStaysOne
<1>2. EachEngaged'
  BY <1>1, IdleIsEngaged DEF EachEngaged
<1>3. WrittenOnce'
  BY DEF InOrder, WrittenOnce
<1>4. \A m \in Proposal : written[m] # 0 => proposal[m].state = "accepted"
  BY <1>1 DEF InOrder, WrittenIsClosed, NoReview
<1>5. WrittenIsClosed'
  BY <1>4 DEF WrittenIsClosed
<1> QED BY <1>1, <1>2, <1>3, <1>5 DEF InOrder

LEMMA RecordInOrder ==
  ASSUME ReviewInv, InOrder, orderly, NEW p \in Reviewer, NEW m \in Proposal, NEW changes \in Changes,
         RecordProposal(p, m, changes)
  PROVE  InOrder'
<1>1. reviewer[p].phase = "propose" /\ reviewer[p] # NoReview
  BY DEF RecordProposal, NoReview
<1>2. OneReview' /\ reviewer'[p] = NoReview
      /\ \A r \in Reviewer \ {p} : reviewer[r] = NoReview /\ reviewer'[r] = NoReview
  BY <1>1, OneStaysOne DEF RecordProposal
<1>3. EachEngaged'
  BY <1>2, IdleIsEngaged DEF EachEngaged
<1>4. WrittenOnce'
  BY DEF InOrder, WrittenOnce, RecordProposal
<1>5. \A k \in Proposal : written[k] # 0 => proposal[k].state = "accepted"
  BY <1>1, <1>2 DEF InOrder, WrittenIsClosed, NoReview
<1>6. \A k \in Proposal \ {m} : proposal'[k] = proposal[k]
  BY DEF RecordProposal, ReviewInv, ProposalTypeOK
<1>7. written[m] = 0
  BY <1>5 DEF RecordProposal, NoProposal, ReviewInv, ProposalTypeOK
<1>8. WrittenIsClosed'
  BY <1>5, <1>6, <1>7 DEF WrittenIsClosed, RecordProposal
<1> QED BY <1>2, <1>3, <1>4, <1>8 DEF InOrder

LEMMA BeginInOrder ==
  ASSUME ReviewInv, InOrder, orderly, NEW p \in Reviewer, NEW m \in Proposal,
         NEW decision \in Decision, Review(p, m, decision) \/ WithdrawProposal(p, m)
  PROVE  InOrder'
<1>1. Unengaged /\ reviewer[p].phase # "close" /\ proposal[m].state = "queued"
      /\ UNCHANGED <<proposal, written, record>>
  BY DEF Review, WithdrawProposal, MayReview, NoReview
<1>2. written[m] = 0
  BY <1>1 DEF InOrder, WrittenIsClosed, Unengaged, NoReview, ReviewInv, ProposalTypeOK
<1>3. CASE Review(p, m, decision)
  <2> DEFINE q == [NoReview EXCEPT !.phase = "subject", !.proposal = m, !.decision = decision]
  <2>1. Turn(p, q)
    BY <1>3 DEF Review
  <2>2. Engaged(q, proposal, written, record)
    BY <1>1, <1>2 DEF Engaged, Accepting, NoReview
  <2> QED BY <1>1, <2>1, <2>2, StepInOrder
<1>4. CASE WithdrawProposal(p, m)
  <2> DEFINE q == [NoReview EXCEPT !.phase = "close", !.proposal = m, !.decision = "withdraw"]
  <2>1. Turn(p, q)
    BY <1>4 DEF WithdrawProposal
  <2>2. Engaged(q, proposal, written, record)
    BY <1>1, <1>2 DEF Engaged, Accepting, Closed, NoReview
  <2> QED BY <1>1, <2>1, <2>2, StepInOrder
<1> QED BY <1>3, <1>4

LEMMA ReadInOrder ==
  ASSUME ReviewInv, InOrder, orderly, NEW p \in Reviewer, ReadSubject(p)
  PROVE  InOrder'
<1> DEFINE q == reviewer[p]
           m == q.proposal
           rejecting == [q EXCEPT !.phase = "close"]
           applying == [q EXCEPT !.phase = "apply"]
<1>1. /\ q \in ReviewRequest /\ q.phase = "subject" /\ q # NoReview
      /\ q.decision \in {"accept", "confirm", "reject"}
      /\ proposal[m].state = "queued" /\ written[m] = 0
  BY DEF ReadSubject, NoReview, InOrder, EachEngaged, Engaged, Accepting, ReviewInv,
         SoundReview, Decides, ProposalTypeOK, ReviewRequest
<1>2. UNCHANGED <<proposal, written, record>>
  BY DEF ReadSubject
<1>3. Turn(p, CASE q.decision = "reject" -> rejecting
                [] q.decision = "accept" /\ Drifted(m, record) -> NoReview
                [] OTHER -> applying)
  BY DEF ReadSubject
<1>4. CASE q.decision = "reject"
  <2>1. Engaged(rejecting, proposal, written, record)
    BY <1>1, <1>4 DEF Engaged, Accepting, Closed, ReviewRequest
  <2>2. Turn(p, rejecting)
    BY <1>3, <1>4
  <2> QED BY <1>1, <1>2, <2>1, <2>2, StepInOrder
<1>5. CASE q.decision = "accept" /\ Drifted(m, record)
  <2>1. Turn(p, NoReview)
    BY <1>3, <1>5
  <2> QED BY <1>1, <1>2, <2>1, IdleIsEngaged, StepInOrder
<1>6. CASE q.decision # "reject" /\ ~(q.decision = "accept" /\ Drifted(m, record))
  <2>1. Engaged(applying, proposal, written, record)
    BY <1>1, <1>6 DEF Engaged, Accepting, Drifted, ReviewRequest
  <2>2. Turn(p, applying)
    BY <1>3, <1>6
  <2> QED BY <1>1, <1>2, <2>1, <2>2, StepInOrder
<1> QED BY <1>4, <1>5, <1>6

LEMMA ApplyInOrder ==
  ASSUME ReviewInv, InOrder, orderly, NEW p \in Reviewer, Apply(p)
  PROVE  InOrder'
<1> DEFINE q == reviewer[p]
           m == q.proposal
           closing == [q EXCEPT !.phase = "close"]
<1>1. /\ q \in ReviewRequest /\ q.phase = "apply" /\ q # NoReview /\ m \in Proposal
      /\ q.decision \in {"accept", "confirm"}
      /\ proposal[m].state = "queued" /\ written[m] = 0
  BY DEF Apply, NoReview, InOrder, EachEngaged, Engaged, Accepting, ReviewInv,
         SoundReview, Accepts, KnowsProposal, ProposalTypeOK, ReviewRequest
<1>2. proposal' = proposal
  BY DEF Apply
<1>3. CASE UNCHANGED <<record, written>> /\ Turn(p, NoReview)
  BY <1>1, <1>2, <1>3, IdleIsEngaged, StepInOrder
<1>4. CASE written' = [written EXCEPT ![m] = @ + 1] /\ Turn(p, closing)
  <2>1. OneReview' /\ reviewer'[p] = closing
        /\ \A r \in Reviewer \ {p} : reviewer[r] = NoReview /\ reviewer'[r] = NoReview
    BY <1>1, <1>4, OneStaysOne
  <2>2. written'[m] = 1 /\ \A k \in Proposal \ {m} : written'[k] = written[k]
    BY <1>1, <1>4 DEF ReviewInv, ProposalTypeOK
  <2>3. Engaged(closing, proposal', written', record')
    BY <1>1, <1>2, <2>2 DEF Engaged, Accepting, Closed, ReviewRequest
  <2>4. EachEngaged'
    BY <2>1, <2>3, IdleIsEngaged DEF EachEngaged
  <2>5. WrittenOnce'
    BY <2>2 DEF InOrder, WrittenOnce
  <2>6. \A k \in Proposal : written[k] # 0 => proposal[k].state = "accepted"
    BY <1>1, <2>1 DEF InOrder, WrittenIsClosed, NoReview
  <2>7. closing.phase = "close" /\ closing.proposal = m
    BY <1>1 DEF ReviewRequest
  <2>8. WrittenIsClosed'
    BY <1>2, <2>1, <2>2, <2>6, <2>7 DEF WrittenIsClosed
  <2> QED BY <2>1, <2>4, <2>5, <2>8 DEF InOrder
<1> QED BY <1>3, <1>4 DEF Apply

LEMMA CloseInOrder ==
  ASSUME ReviewInv, InOrder, orderly, NEW p \in Reviewer, Close(p)
  PROVE  InOrder'
<1> DEFINE q == reviewer[p]
           m == q.proposal
<1>1. /\ q \in ReviewRequest /\ q.phase = "close" /\ q # NoReview
      /\ m \in Proposal /\ proposal[m] \in ProposalRow
      /\ written[m] = IF Closed(q.decision) = "accepted" THEN 1 ELSE 0
  BY DEF Close, NoReview, InOrder, EachEngaged, Engaged, Accepting, ReviewInv,
         SoundReview, KnowsProposal, ProposalTypeOK, ReviewRequest
<1>2. OneReview' /\ reviewer'[p] = NoReview
      /\ \A r \in Reviewer \ {p} : reviewer[r] = NoReview /\ reviewer'[r] = NoReview
  BY <1>1, OneStaysOne DEF Close
<1>3. EachEngaged'
  BY <1>2, IdleIsEngaged DEF EachEngaged
<1>4. WrittenOnce'
  BY DEF InOrder, WrittenOnce, Close
<1>5. proposal' = [proposal EXCEPT ![m].state = Closed(q.decision)] /\ written' = written
  BY DEF Close
<1>6. proposal'[m].state = Closed(q.decision)
      /\ \A k \in Proposal \ {m} : proposal'[k] = proposal[k]
  BY <1>1, <1>5 DEF ReviewInv, ProposalTypeOK, ProposalRow
<1>7. \A k \in Proposal \ {m} : written[k] # 0 => proposal[k].state = "accepted"
  BY <1>2 DEF InOrder, WrittenIsClosed, NoReview
<1>8. WrittenIsClosed'
  BY <1>1, <1>5, <1>6, <1>7 DEF WrittenIsClosed
<1> QED BY <1>2, <1>3, <1>4, <1>8 DEF InOrder

LEMMA EditInOrder ==
  ASSUME InOrder, orderly, NEW f \in Property, NEW v \in Value, Edit(f, v)
  PROVE  InOrder'
<1>1. EachEngaged'
  BY IdleIsEngaged DEF Edit, EachEngaged, Unengaged
<1> QED BY <1>1 DEF Edit, InOrder, OneReview, WrittenOnce, WrittenIsClosed

LEMMA OrderKeeps ==
  ASSUME ReviewInv, Ordered, [ProposalNext]_proposalVars
  PROVE  Ordered'
<1> SUFFICES ASSUME orderly, InOrder PROVE InOrder'
  BY DEF Ordered, proposalVars, ProposalNext
<1>1. CASE UNCHANGED proposalVars
  BY <1>1 DEF proposalVars, InOrder, OneReview, EachEngaged, WrittenOnce, WrittenIsClosed
<1>2. ASSUME NEW p \in Reviewer, Propose(p) PROVE InOrder'
  <2>1. PICK seen : Turn(p, [NoReview EXCEPT !.phase = "propose", !.seen = seen])
    BY <1>2 DEF Propose
  <2>2. Engaged([NoReview EXCEPT !.phase = "propose", !.seen = seen], proposal, written, record)
    BY DEF Engaged, NoReview
  <2>3. Unengaged /\ reviewer[p].phase # "close"
    BY <1>2 DEF Propose, MayReview, NoReview
  <2>4. UNCHANGED <<proposal, written, record>>
    BY <1>2 DEF Propose
  <2> QED BY <2>1, <2>2, <2>3, <2>4, StepInOrder
<1>3. ASSUME NEW p \in Reviewer, NEW m \in Proposal, NEW changes \in Changes,
             RecordProposal(p, m, changes)
      PROVE  InOrder'
  BY <1>3, RecordInOrder
<1>4. ASSUME NEW p \in Reviewer, NEW m \in Proposal, NEW decision \in Decision,
             Review(p, m, decision) \/ WithdrawProposal(p, m)
      PROVE  InOrder'
  BY <1>4, BeginInOrder
<1>5. ASSUME NEW p \in Reviewer, NEW m \in Proposal, WithdrawProposal(p, m) PROVE InOrder'
  BY <1>4, <1>5 DEF Decision
<1>6. ASSUME NEW p \in Reviewer, ReadSubject(p) PROVE InOrder'
  BY <1>6, ReadInOrder
<1>7. ASSUME NEW p \in Reviewer, Apply(p) PROVE InOrder'
  BY <1>7, ApplyInOrder
<1>8. ASSUME NEW p \in Reviewer, Close(p) PROVE InOrder'
  BY <1>8, CloseInOrder
<1>9. ASSUME NEW f \in Property, NEW v \in Value, Edit(f, v) PROVE InOrder'
  BY <1>9, EditInOrder
<1> QED BY <1>1, <1>2, <1>3, <1>4, <1>5, <1>6, <1>7, <1>8, <1>9 DEF ProposalNext, ProposalStep

LEMMA OrderInit == ProposalInit => Ordered
  BY IdleIsEngaged
  DEF ProposalInit, Ordered, InOrder, OneReview, EachEngaged, WrittenOnce, WrittenIsClosed

(* However decisions race, what says accepted was written; one by one, and *)
(* with a store that works, what was written says accepted and was written *)
(* once (ProposalService, 229-391).                                        *)
THEOREM DecisionsTellTheTruth == ProposalSpec => []DecisionsAreTrue
<1>1. ReviewInv /\ Ordered => DecisionsAreTrue
  <2> SUFFICES ASSUME ReviewInv, Ordered, orderly PROVE WrittenIsAccepted
    BY DEF DecisionsAreTrue, ReviewInv
  <2> SUFFICES ASSUME NEW m \in Proposal, proposal[m].state \in {"rejected", "withdrawn"}
               PROVE  written[m] = 0
    BY DEF WrittenIsAccepted, Ordered, InOrder, WrittenOnce
  <2> QED BY DEF Ordered, InOrder, WrittenIsClosed, EachEngaged, Engaged
<1>2. ReviewInv /\ Ordered /\ [ProposalNext]_proposalVars => (ReviewInv /\ Ordered)'
  BY ReviewNextKeeps, OrderKeeps
<1> QED BY <1>1, <1>2, ReviewInitHolds, OrderInit, PTL DEF ProposalSpec

(* One by one, an acceptance that nobody confirmed overwrites only what    *)
(* the proposer saw (accept, 235-241).                                     *)
THEOREM NothingIsOverwrittenUnseen == ProposalSpec => NothingOverwrittenUnseenSerially
<1>1. ReviewInv /\ Ordered /\ [ProposalNext]_proposalVars => (ReviewInv /\ Ordered)'
  BY ReviewNextKeeps, OrderKeeps
<1>2. ReviewInv /\ Ordered =>
        (orderly => \A p \in Reviewer :
           Unconfirmed(p) /\ record' # record =>
             LET m == proposal[reviewer[p].proposal] IN
             \A f \in DOMAIN m.changes : record[f] = m.snapshot[f])
  BY DEF Ordered, InOrder, EachEngaged, Engaged, Unconfirmed
<1> QED BY <1>1, <1>2, ReviewInitHolds, OrderInit, PTL DEF ProposalSpec, NothingOverwrittenUnseenSerially

-----------------------------------------------------------------------------
(* The places of an activity                                               *)

Doing == [phase : Phase, child : Child \cup {NoChild}, status : Status, free : 0..capacity,
          todo : SUBSET Slot, seen : [Slot -> Row], activity : Offer]

(* A promotion under way has a place to give.                              *)
PromotesInto(q) == q.phase = "promote" => q.free > 0

SignupInv ==
  /\ TypeOK
  /\ capacity \in 1..Capacity /\ billing \in BOOLEAN /\ calm \in BOOLEAN
  /\ \A p \in Process : PromotesInto(proc[p])

LEMMA Typed == TypeOK => /\ proc \in [Process -> Doing]
                         /\ row \in [Slot -> Row] /\ activity \in Offer /\ now \in 0..MaxTime
  BY DEF TypeOK, Doing

LEMMA RowsTyped == NoRow \in Row /\ NoRows \in [Slot -> Row]
  BY SignupConstants DEF NoRow, NoRows, Row, Status

LEMMA NotBusy ==
  ASSUME capacity \in Nat PROVE Idle \in Doing /\ PromotesInto(Idle) /\ Idle.phase = "idle"
  BY RowsTyped DEF Idle, Doing, Phase, Status, Offer, PromotesInto

LEMMA OfIsFinite ==
  ASSUME NEW rows, NEW status
  PROVE  /\ Of(rows, status) \in SUBSET Slot /\ IsFiniteSet(Of(rows, status))
         /\ Cardinality(Of(rows, status)) \in Nat
  BY SignupConstants, FS_Subset, FS_CardinalityType DEF Of

(* What a request holds.                                                   *)
LEMMA HoldingIs ==
  ASSUME TypeOK, NEW q \in Doing, NEW phase \in Phase, NEW rows \in SUBSET Slot
  PROVE  LET h == Holding(q, phase, rows) IN
         /\ h \in Doing
         /\ h.phase = phase /\ h.todo = rows /\ h.activity = q.activity /\ h.free = q.free
         /\ h.status = q.status
         /\ \A s \in rows : h.seen[s] = row[s]
<1> DEFINE view == [s \in Slot |-> IF s \in rows THEN row[s] ELSE NoRow]
<1>1. view \in [Slot -> Row]
  BY RowsTyped DEF TypeOK
<1>2. \A s \in rows : view[s] = row[s]
  OBVIOUS
<1> HIDE DEF view
<1>3. [q EXCEPT !.phase = phase, !.child = NoChild, !.todo = rows, !.seen = view] \in Doing
  BY <1>1 DEF Doing
<1>4. Holding(q, phase, rows) =
        [q EXCEPT !.phase = phase, !.child = NoChild, !.todo = rows, !.seen = view]
  BY DEF Holding, view
<1> QED BY <1>2, <1>3, <1>4 DEF Doing

(* A request that is done with one row of those it holds.                  *)
Without1(q, s, free) == [q EXCEPT !.free = free, !.todo = @ \ {s}, !.seen[s] = NoRow]
LEMMA WithoutOne ==
  ASSUME NEW q \in Doing, NEW s \in Slot, NEW free \in 0..capacity
  PROVE  LET h == Without1(q, s, free) IN
         /\ h \in Doing
         /\ h.phase = q.phase /\ h.todo = q.todo \ {s} /\ h.activity = q.activity
         /\ h.free = free /\ h.status = q.status
         /\ \A t \in Slot \ {s} : h.seen[t] = q.seen[t]
<1> DEFINE view == [q.seen EXCEPT ![s] = NoRow]
<1>1. view \in [Slot -> Row] /\ \A t \in Slot \ {s} : view[t] = q.seen[t]
  BY RowsTyped DEF Doing
<1>2. Without1(q, s, free) = [q EXCEPT !.free = free, !.todo = q.todo \ {s}, !.seen = view]
  BY DEF Without1, Doing
<1> HIDE DEF view
<1> QED BY <1>1, <1>2 DEF Doing

LEMMA RequestSteps ==
  ASSUME SignupInv, NEW p \in Process, NEW q \in Doing, PromotesInto(q), Become(p, q),
         row' \in [Slot -> Row], activity' \in Offer, now' \in 0..MaxTime, unseen' \in Nat,
         UNCHANGED conditions
  PROVE  SignupInv'
<1>1. proc' \in [Process -> Doing]
  BY Typed DEF SignupInv, Become
<1>2. TypeOK'
  BY <1>1 DEF TypeOK, Doing, Offer, conditions
<1>3. \A r \in Process : PromotesInto(proc'[r])
  BY Typed DEF SignupInv, Become
<1> QED BY <1>2, <1>3 DEF SignupInv, conditions

(* A request that starts.                                                  *)
Started(phase, c, offer) == [Idle EXCEPT !.phase = phase, !.child = c, !.activity = offer]
LEMMA StartedIs ==
  ASSUME SignupInv, NEW phase \in Phase \ {"promote"}, NEW c \in Child \cup {NoChild},
         NEW offer \in Offer
  PROVE  LET h == Started(phase, c, offer) IN
         /\ h \in Doing /\ PromotesInto(h)
         /\ h.phase = phase /\ h.child = c /\ h.activity = offer
<1>1. capacity \in Nat
  BY SignupConstants DEF SignupInv
<1>2. Idle \in Doing /\ Idle.child = NoChild /\ Idle.phase = "idle"
  BY <1>1, NotBusy DEF Idle
<1> QED BY <1>2 DEF Started, Doing, PromotesInto

LEMMA StartedByNobody ==
  ASSUME NEW phase, NEW offer
  PROVE  [Idle EXCEPT !.phase = phase, !.activity = offer] = Started(phase, NoChild, offer)
<1> DEFINE once == [Idle EXCEPT !.phase = phase]
<1>1. once.child = NoChild /\ DOMAIN once = {"phase", "child", "status", "free", "todo", "seen", "activity"}
      /\ once = [x \in DOMAIN once |-> once[x]]
  BY DEF Idle
<1>2. [once EXCEPT !.child = NoChild] = once
  BY <1>1
<1> QED BY <1>2, Zenon DEF Started

LEMMA BeginTypes ==
  ASSUME SignupInv, UNCHANGED conditions, unseen' \in Nat, NEW p \in Process, NEW phase \in Phase \ {"promote"},
         NEW c \in Child \cup {NoChild}, Begin(p, phase, c)
  PROVE  SignupInv'
<1> DEFINE q == Started(phase, c, activity)
<1>1. q \in Doing /\ PromotesInto(q)
  BY StartedIs DEF SignupInv, TypeOK
<1> QED BY <1>1, RequestSteps DEF Begin, SignupInv, TypeOK, Started

LEMMA RefuseTypes ==
  ASSUME SignupInv, UNCHANGED conditions, unseen' \in Nat, NEW p \in Process, Become(p, Idle),
         row' \in [Slot -> Row], activity' \in Offer, now' = now
  PROVE  SignupInv'
  BY SignupConstants, NotBusy, RequestSteps DEF SignupInv, TypeOK

LEMMA CheckSignupTypes ==
  ASSUME SignupInv, UNCHANGED conditions, unseen' \in Nat, NEW p \in Process, CheckSignup(p)
  PROVE  SignupInv'
<1> DEFINE q == proc[p]
           new == [q EXCEPT !.phase = "signup", !.status = StatusForNewSignup(q)]
<1>1. UNCHANGED <<now, activity, row>>
  BY DEF CheckSignup
<1>2. CASE Become(p, Idle)
  BY <1>1, <1>2, RefuseTypes DEF SignupInv, TypeOK
<1>3. CASE Become(p, new)
  <2>1. new \in Doing /\ PromotesInto(new)
    BY Typed DEF SignupInv, Doing, Phase, Status, StatusForNewSignup, PromotesInto
  <2> QED BY <1>1, <1>3, <2>1, RequestSteps DEF SignupInv, TypeOK
<1> QED BY <1>2, <1>3 DEF CheckSignup, Refuse

LEMMA WriteSignupTypes ==
  ASSUME SignupInv, UNCHANGED conditions, unseen' \in Nat, NEW p \in Process, WriteSignup(p)
  PROVE  SignupInv'
<1>1. \A s \in Slot : [child |-> proc[p].child, status |-> proc[p].status,
                       at |-> now, billed |-> FALSE] \in Row
  BY Typed DEF SignupInv, Doing, Row
<1>2. row' \in [Slot -> Row]
  BY <1>1 DEF WriteSignup, SignupInv, TypeOK, Of
<1> QED BY <1>2, RefuseTypes DEF WriteSignup, SignupInv, TypeOK

LEMMA FindSignupTypes ==
  ASSUME SignupInv, UNCHANGED conditions, unseen' \in Nat, NEW p \in Process, FindSignup(p)
  PROVE  SignupInv'
<1> DEFINE q == proc[p]
<1>1. UNCHANGED <<now, activity, row>>
  BY DEF FindSignup
<1>2. CASE Become(p, Idle)
  BY <1>1, <1>2, RefuseTypes DEF SignupInv, TypeOK
<1>3. ASSUME NEW s \in ActiveFor(row, q.child), Become(p, Holding(q, "withdraw", {s}))
      PROVE  SignupInv'
  <2>1. {s} \in SUBSET Slot
    BY DEF ActiveFor, Of
  <2>2. Holding(q, "withdraw", {s}) \in Doing /\ PromotesInto(Holding(q, "withdraw", {s}))
    BY <2>1, HoldingIs, Typed DEF SignupInv, Phase, PromotesInto
  <2> QED BY <1>1, <1>3, <2>2, RequestSteps DEF SignupInv, TypeOK
<1> QED BY <1>2, <1>3 DEF FindSignup, Refuse

LEMMA SetTyped ==
  ASSUME SignupInv, NEW p \in Process, NEW s \in Slot, NEW status \in Status
  PROVE  /\ [proc[p].seen[s] EXCEPT !.status = status] \in Row
         /\ [proc[p].seen[s] EXCEPT !.billed = TRUE] \in Row
<1>1. proc[p].seen[s] \in Row
  BY Typed DEF SignupInv, Doing
<1> QED BY <1>1 DEF Row

LEMMA WriteWithdrawalTypes ==
  ASSUME SignupInv, UNCHANGED conditions, unseen' \in Nat, NEW p \in Process, WriteWithdrawal(p)
  PROVE  SignupInv'
<1> DEFINE q == proc[p]
           next == [Idle EXCEPT !.phase = "waitlist", !.activity = q.activity]
<1>0. q.activity \in Offer
  BY Typed DEF SignupInv, Doing
<1>1. next \in Doing /\ PromotesInto(next)
  <2>1. next = Started("waitlist", NoChild, q.activity)
    BY StartedByNobody
  <2>2. "waitlist" \in Phase \ {"promote"}
    BY DEF Phase
  <2> HIDE DEF next
  <2> QED BY <1>0, <2>1, <2>2, StartedIs
<1>2. UNCHANGED <<now, activity>>
  BY DEF WriteWithdrawal
<1>3. row' \in [Slot -> Row]
  <2>1. \A s \in q.todo : s \in Slot
    BY Typed DEF SignupInv, Doing
  <2>2. \A s \in q.todo : [q.seen[s] EXCEPT !.status = "withdrawn"] \in Row
    BY <2>1, SetTyped DEF Status
  <2> QED BY <2>1, <2>2, Typed DEF WriteWithdrawal, SignupInv
<1>4. Become(p, next) \/ Become(p, Idle)
  BY DEF WriteWithdrawal
<1>5. CASE Become(p, next)
  BY <1>1, <1>2, <1>3, <1>5, RequestSteps DEF SignupInv, TypeOK
<1>6. CASE Become(p, Idle)
  BY <1>2, <1>3, <1>6, RefuseTypes DEF SignupInv, TypeOK
<1> QED BY <1>4, <1>5, <1>6

(* A promotion that begins has as many places as are free.                 *)
Promoting(q, free, waiting) == [Holding(q, "promote", waiting) EXCEPT !.free = free]
LEMMA PromotingIs ==
  ASSUME SignupInv, NEW q \in Doing, NEW free \in 1..capacity, NEW waiting \in SUBSET Slot
  PROVE  LET h == Promoting(q, free, waiting) IN
         /\ h \in Doing
         /\ h.phase = "promote" /\ h.free = free /\ h.todo = waiting /\ h.activity = q.activity
         /\ \A s \in waiting : h.seen[s] = row[s]
<1> DEFINE g == Holding(q, "promote", waiting)
<1>1. /\ g \in Doing /\ g.phase = "promote" /\ g.todo = waiting /\ g.activity = q.activity
      /\ \A s \in waiting : g.seen[s] = row[s]
  BY HoldingIs DEF SignupInv, Phase
<1>2. Promoting(q, free, waiting) = [g EXCEPT !.free = free]
  BY DEF Promoting
<1>3. free \in 0..capacity
  BY DEF SignupInv
<1> HIDE DEF g
<1> QED BY <1>1, <1>2, <1>3 DEF Doing

LEMMA ReadWaitlistIs ==
  ASSUME SignupInv, NEW p \in Process, ReadWaitlist(p)
  PROVE  LET q == proc[p]
             free == q.activity.places - Confirmed
             waiting == Of(row, "waitlisted") IN
         /\ q.phase = "waitlist" /\ UNCHANGED <<now, activity, row>>
         /\ waiting \in SUBSET Slot
         /\ \/ free \in 1..capacity /\ waiting # {} /\ Become(p, Promoting(q, free, waiting))
            \/ (free <= 0 \/ waiting = {} \/ ~calm) /\ Become(p, Idle)
<1>1. Confirmed \in Nat /\ Of(row, "waitlisted") \in SUBSET Slot
  BY OfIsFinite DEF Confirmed
<1>2. proc[p].activity.places \in 0..capacity /\ capacity \in Nat
  BY Typed DEF SignupInv, Doing, Offer
<1> HIDE DEF Confirmed
<1> QED BY <1>1, <1>2 DEF ReadWaitlist, Promoting

LEMMA ReadWaitlistTypes ==
  ASSUME SignupInv, UNCHANGED conditions, unseen' \in Nat, NEW p \in Process, ReadWaitlist(p)
  PROVE  SignupInv'
<1> DEFINE q == proc[p]
           free == q.activity.places - Confirmed
           waiting == Of(row, "waitlisted")
<1>1. UNCHANGED <<now, activity, row>> /\ waiting \in SUBSET Slot
  BY ReadWaitlistIs
<1>2. CASE free \in 1..capacity /\ Become(p, Promoting(q, free, waiting))
  <2>1. Promoting(q, free, waiting) \in Doing /\ PromotesInto(Promoting(q, free, waiting))
    BY <1>1, <1>2, PromotingIs, Typed DEF SignupInv, PromotesInto
  <2> QED BY <1>1, <1>2, <2>1, RequestSteps DEF SignupInv, TypeOK
<1>3. CASE Become(p, Idle)
  BY <1>1, <1>3, RefuseTypes DEF SignupInv, TypeOK
<1> QED BY <1>2, <1>3, ReadWaitlistIs

(* What a promotion does: one row, the first it has left.                  *)
LEMMA PromoteOneIs ==
  ASSUME SignupInv, NEW p \in Process, PromoteOne(p)
  PROVE  LET q == proc[p] IN
         \E s \in First(q.seen, q.todo), free \in {q.free, q.free - 1} :
           /\ q.phase = "promote" /\ s \in Slot /\ s \in q.todo /\ free \in 0..capacity
           /\ UNCHANGED <<now, activity>>
           /\ row' \in [Slot -> Row]
           /\ Become(p, IF free = 0 \/ q.todo = {s} THEN Idle ELSE Without1(q, s, free))
           /\ \/ /\ row' = [row EXCEPT ![s] = [q.seen[s] EXCEPT !.status = "confirmed"]]
                 /\ \/ free = q.free - 1 /\ unseen' = unseen
                    \/ ~calm /\ free = q.free /\ unseen' = unseen + 1
              \/ ~calm /\ free = q.free /\ row' = row /\ unseen' = unseen
<1> DEFINE q == proc[p]
           After(s, free) == IF free = 0 \/ q.todo = {s} THEN Idle ELSE Without1(q, s, free)
<1>1. q \in Doing /\ q.phase = "promote" /\ q.free \in 1..capacity /\ capacity \in Nat
  BY Typed DEF SignupInv, PromoteOne, PromotesInto, Doing
<1>2. PICK s \in First(q.seen, q.todo) :
        \/ /\ row' = [row EXCEPT ![s] = [q.seen[s] EXCEPT !.status = "confirmed"]]
           /\ \/ unseen' = unseen /\ Become(p, After(s, q.free - 1))
              \/ ~calm /\ unseen' = unseen + 1 /\ Become(p, After(s, q.free))
        \/ ~calm /\ UNCHANGED <<row, unseen>> /\ Become(p, After(s, q.free))
  BY DEF PromoteOne, Without1
<1>3. s \in Slot /\ s \in q.todo
  BY <1>1 DEF First, Doing
<1>4. row' \in [Slot -> Row]
  <2>1. [q.seen[s] EXCEPT !.status = "confirmed"] \in Row
    BY <1>3, SetTyped DEF Status
  <2> QED BY <1>2, <1>3, <2>1, Typed DEF SignupInv
<1>5. UNCHANGED <<now, activity>>
  BY DEF PromoteOne
<1>6. q.free \in 0..capacity /\ q.free - 1 \in 0..capacity
  BY <1>1
<1> QED BY <1>1, <1>2, <1>3, <1>4, <1>5, <1>6

LEMMA PromoteOneTypes ==
  ASSUME SignupInv, UNCHANGED conditions, unseen' \in Nat, NEW p \in Process, PromoteOne(p)
  PROVE  SignupInv'
<1> DEFINE q == proc[p]
<1>1. PICK s \in First(q.seen, q.todo), free \in {q.free, q.free - 1} :
        /\ s \in Slot /\ free \in 0..capacity
        /\ UNCHANGED <<now, activity>> /\ row' \in [Slot -> Row]
        /\ Become(p, IF free = 0 \/ q.todo = {s} THEN Idle ELSE Without1(q, s, free))
  BY PromoteOneIs
<1>2. CASE free = 0 \/ q.todo = {s}
  BY <1>1, <1>2, RefuseTypes DEF SignupInv, TypeOK
<1>3. CASE free # 0 /\ Become(p, Without1(q, s, free))
  <2>1. Without1(q, s, free) \in Doing /\ PromotesInto(Without1(q, s, free))
    BY <1>1, <1>3, WithoutOne, Typed DEF SignupInv, PromotesInto
  <2> QED BY <1>1, <1>3, <2>1, RequestSteps DEF SignupInv, TypeOK
<1> QED BY <1>1, <1>2, <1>3

LEMMA StaffTypes ==
  ASSUME SignupInv, UNCHANGED conditions, unseen' \in Nat, NEW p \in Process, Staff(p)
  PROVE  SignupInv'
<1>1. ASSUME NEW phase \in {"status", "supervise"}, NEW offer \in Offer,
             Become(p, [Idle EXCEPT !.phase = phase, !.activity = offer]),
             UNCHANGED <<now, activity, row>>
      PROVE  SignupInv'
  <2> DEFINE q == [Idle EXCEPT !.phase = phase, !.activity = offer]
  <2>1. q \in Doing /\ PromotesInto(q)
    <3>1. q = Started(phase, NoChild, offer)
      BY StartedByNobody
    <3>2. phase \in Phase \ {"promote"}
      BY DEF Phase
    <3> HIDE DEF q
    <3> QED BY <3>1, <3>2, StartedIs
  <2> QED BY <1>1, <2>1, RequestSteps DEF SignupInv, TypeOK
<1>2. ASSUME NEW open \in BOOLEAN, SetStatus(p, open) PROVE SignupInv'
  <2>1. [activity EXCEPT !.open = open] \in Offer
    BY Typed DEF SignupInv, Offer
  <2> QED BY <1>1, <1>2, <2>1 DEF SetStatus
<1>3. ASSUME NEW places \in 0..capacity, SetSupervisors(p, places) PROVE SignupInv'
  <2>1. [activity EXCEPT !.places = places] \in Offer
    BY Typed DEF SignupInv, Offer
  <2> QED BY <1>1, <1>3, <2>1 DEF SetSupervisors
<1>4. CASE SaveActivity(p)
  <2> DEFINE q == proc[p]
             next == [q EXCEPT !.phase = "waitlist"]
  <2>1. next \in Doing /\ PromotesInto(next) /\ q.activity \in Offer
    BY Typed DEF SignupInv, Doing, Phase, PromotesInto
  <2>2. UNCHANGED <<now, row>> /\ activity' \in Offer /\ (Become(p, next) \/ Become(p, Idle))
    BY <1>4, <2>1 DEF SaveActivity, SignupInv, TypeOK
  <2>3. CASE Become(p, next)
    BY <2>1, <2>2, <2>3, RequestSteps DEF SignupInv, TypeOK
  <2>4. CASE Become(p, Idle)
    BY <2>2, <2>4, RefuseTypes DEF SignupInv, TypeOK
  <2> QED BY <2>2, <2>3, <2>4
<1> QED BY <1>2, <1>3, <1>4 DEF Staff

LEMMA BillingTypes ==
  ASSUME SignupInv, UNCHANGED conditions, unseen' \in Nat, NEW p \in Process, Billing(p)
  PROVE  SignupInv'
<1> DEFINE q == proc[p]
<1>0. q \in Doing
  BY Typed DEF SignupInv
<1>1. CASE Bill(p)
  BY <1>1, BeginTypes DEF Bill, Phase
<1>2. CASE RaiseContributions(p)
  <2>1. UNCHANGED <<now, activity, row>>
    BY <1>2 DEF RaiseContributions
  <2>2. CASE Become(p, Idle)
    BY <2>1, <2>2, RefuseTypes DEF SignupInv, TypeOK
  <2>3. ASSUME NEW billed \in SUBSET Slot, Become(p, Holding(q, "bill", billed)) PROVE SignupInv'
    <3>1. Holding(q, "bill", billed) \in Doing /\ PromotesInto(Holding(q, "bill", billed))
      BY <1>0, HoldingIs DEF SignupInv, Phase, PromotesInto
    <3> QED BY <2>1, <2>3, <3>1, RequestSteps DEF SignupInv, TypeOK
  <2> QED BY <1>2, <2>2, <2>3, OfIsFinite DEF RaiseContributions, Refuse
<1>3. CASE WriteReference(p)
  <2>1. PICK s \in q.todo :
          /\ row' \in {row, [row EXCEPT ![s] = [q.seen[s] EXCEPT !.billed = TRUE]]}
          /\ Become(p, IF q.todo = {s} THEN Idle ELSE [q EXCEPT !.todo = @ \ {s}, !.seen[s] = NoRow])
    BY <1>3 DEF WriteReference
  <2>2. s \in Slot /\ UNCHANGED <<now, activity>> /\ q.phase = "bill"
    BY <1>0, <1>3 DEF WriteReference, Doing
  <2>3. row' \in [Slot -> Row]
    <3>1. [q.seen[s] EXCEPT !.billed = TRUE] \in Row
      BY <2>2, SetTyped DEF Status
    <3> QED BY <2>1, <2>2, <3>1, Typed DEF SignupInv
  <2>4. CASE q.todo = {s}
    BY <2>1, <2>2, <2>3, <2>4, RefuseTypes DEF SignupInv, TypeOK
  <2>5. CASE q.todo # {s}
    <3>1. [q EXCEPT !.todo = @ \ {s}, !.seen[s] = NoRow] = Without1(q, s, q.free)
      BY <1>0 DEF Without1, Doing
    <3>2. q.free \in 0..capacity
      BY <1>0 DEF Doing
    <3>3. Without1(q, s, q.free) \in Doing /\ PromotesInto(Without1(q, s, q.free))
      BY <1>0, <2>2, <3>2, WithoutOne DEF PromotesInto
    <3> QED BY <2>1, <2>2, <2>3, <2>5, <3>1, <3>3, RequestSteps DEF SignupInv, TypeOK
  <2> QED BY <2>4, <2>5
<1> QED BY <1>1, <1>2, <1>3 DEF Billing

LEMMA SignupKeeps == SignupInv /\ [Next]_vars => SignupInv'
<1> SUFFICES ASSUME SignupInv, [Next]_vars PROVE SignupInv'
  OBVIOUS
<1>0. UNCHANGED conditions /\ unseen' \in Nat
  <2>1. \A p \in Process : PromoteOne(p) => unseen' \in {unseen, unseen + 1}
    BY DEF PromoteOne
  <2>2. unseen' \in {unseen, unseen + 1}
    BY <2>1 DEF Next, vars, SignupStep, Promotion
  <2> QED BY <2>2 DEF Next, vars, SignupInv, TypeOK
<1>1. CASE UNCHANGED vars
  BY <1>1 DEF vars, conditions, SignupInv, TypeOK, Offer
<1>2. ASSUME NEW p \in Process, Guardian(p) PROVE SignupInv'
  <2>1. ASSUME NEW c \in Child, SignUp(p, c) \/ Withdraw(p, c) PROVE SignupInv'
    BY <1>0, <2>1, BeginTypes DEF SignUp, Withdraw, Phase
  <2> QED BY <1>0, <1>2, <2>1, CheckSignupTypes, WriteSignupTypes, FindSignupTypes,
             WriteWithdrawalTypes DEF Guardian
<1>3. ASSUME NEW p \in Process, Promotion(p) PROVE SignupInv'
  BY <1>0, <1>3, ReadWaitlistTypes, PromoteOneTypes DEF Promotion
<1>4. ASSUME NEW p \in Process, Staff(p) PROVE SignupInv'
  BY <1>0, <1>4, StaffTypes
<1>5. ASSUME NEW p \in Process, Billing(p) PROVE SignupInv'
  BY <1>0, <1>5, BillingTypes
<1>6. CASE Tick
  BY <1>0, <1>6, SignupConstants DEF Tick, conditions, SignupInv, TypeOK, Offer
<1> QED BY <1>1, <1>2, <1>3, <1>4, <1>5, <1>6 DEF Next, SignupStep

LEMMA SignupInit == Init => SignupInv
<1> SUFFICES ASSUME Init PROVE SignupInv
  OBVIOUS
<1>1. capacity \in 1..Capacity /\ capacity \in Nat
  BY SignupConstants DEF Init
<1>2. TypeOK
  BY <1>1, NotBusy, RowsTyped, SignupConstants DEF Init, TypeOK, Doing
<1> QED BY <1>1, <1>2, NotBusy DEF Init, SignupInv

(* The rows, and what each request has read and means to write, keep their *)
(* types however requests overlap and whichever write fails; a promotion   *)
(* never gives a place it has not counted (ActivitySignupService, 141-302).*)
THEOREM SignupTypeCorrect == Spec => []TypeOK
<1>1. SignupInv => TypeOK
  BY DEF SignupInv
<1> QED BY <1>1, SignupInit, SignupKeeps, PTL DEF Spec

-----------------------------------------------------------------------------
(* How far an activity is over-filled                                      *)

(* One token for each place a request has counted free and not given yet.  *)
Tokens(owed, most) == {t \in Process \X (1..most) : t[2] <= owed[t[1]]}

LEMMA TokensAreFinite ==
  ASSUME NEW most \in Nat, NEW owed
  PROVE  /\ IsFiniteSet(Tokens(owed, most)) /\ Cardinality(Tokens(owed, most)) \in Nat
         /\ Cardinality(Process) \in Nat
<1>1. IsFiniteSet(1..most)
  BY FS_Interval
<1>2. IsFiniteSet(Process \X (1..most))
  BY <1>1, SignupConstants, FS_Product
<1>3. Tokens(owed, most) \in SUBSET (Process \X (1..most))
  BY DEF Tokens
<1> QED BY <1>2, <1>3, SignupConstants, FS_Subset, FS_CardinalityType

LEMMA FewerTokens ==
  ASSUME NEW most \in Nat, NEW old \in [Process -> Nat], NEW new \in [Process -> Nat],
         \A p \in Process : new[p] <= old[p]
  PROVE  Cardinality(Tokens(new, most)) <= Cardinality(Tokens(old, most))
<1>1. Tokens(new, most) \in SUBSET Tokens(old, most)
  <2> SUFFICES ASSUME NEW t \in Process \X (1..most), t[2] <= new[t[1]] PROVE t[2] <= old[t[1]]
    BY DEF Tokens
  <2>1. t[1] \in Process /\ t[2] \in Nat
    OBVIOUS
  <2> QED BY <2>1
<1> QED BY <1>1, TokensAreFinite, FS_Subset

LEMMA OneTokenFewer ==
  ASSUME NEW most \in Nat, NEW old \in [Process -> Nat], NEW new \in [Process -> Nat],
         \A p \in Process : new[p] <= old[p],
         NEW p \in Process, old[p] \in 1..most, new[p] < old[p]
  PROVE  Cardinality(Tokens(new, most)) + 1 <= Cardinality(Tokens(old, most))
<1> DEFINE given == <<p, old[p]>>
<1>1. given \in Tokens(old, most)
  BY DEF Tokens
<1>2. Tokens(new, most) \in SUBSET (Tokens(old, most) \ {given})
  <2> SUFFICES ASSUME NEW t \in Process \X (1..most), t[2] <= new[t[1]]
               PROVE  t[2] <= old[t[1]] /\ t # given
    BY DEF Tokens
  <2>1. t[1] \in Process /\ t[2] \in Nat
    OBVIOUS
  <2>2. given[1] = p /\ given[2] = old[p]
    OBVIOUS
  <2> HIDE DEF given
  <2> QED BY <2>1, <2>2
<1>3. /\ IsFiniteSet(Tokens(old, most) \ {given})
      /\ Cardinality(Tokens(old, most) \ {given}) = Cardinality(Tokens(old, most)) - 1
  BY <1>1, TokensAreFinite, FS_RemoveElement
<1>4. Cardinality(Tokens(new, most)) <= Cardinality(Tokens(old, most) \ {given})
  BY <1>2, <1>3, FS_Subset
<1> QED BY <1>3, <1>4, TokensAreFinite

(* What one request counts free, with what all others may have counted.    *)
LEMMA TokensOfOthers ==
  ASSUME NEW most \in Nat, NEW new \in [Process -> Nat], NEW p \in Process, new[p] <= most
  PROVE  Cardinality(Tokens(new, most)) + most <= most * Cardinality(Process) + new[p]
<1> DEFINE N == Cardinality(Process)
           k == new[p]
           others == (Process \ {p}) \X (1..most)
           own == {p} \X (1..k)
<1>1. k \in Nat /\ N \in Nat /\ IsFiniteSet(Process)
  BY TokensAreFinite, SignupConstants
<1>2. IsFiniteSet(Process \ {p}) /\ Cardinality(Process \ {p}) = N - 1
  BY <1>1, FS_RemoveElement
<1>3. IsFiniteSet(1..most) /\ Cardinality(1..most) = most
  BY FS_Interval
<1>4. IsFiniteSet(1..k) /\ Cardinality(1..k) = k
  BY <1>1, FS_Interval
<1>5. IsFiniteSet(others) /\ Cardinality(others) = (N - 1) * most
  BY <1>2, <1>3, FS_Product
<1>6. IsFiniteSet({p}) /\ Cardinality({p}) = 1
  BY FS_Singleton
<1>7. IsFiniteSet(own) /\ Cardinality(own) = k
  <2>1. IsFiniteSet(own) /\ Cardinality(own) = 1 * k
    BY <1>4, <1>6, FS_Product
  <2> QED BY <1>1, <2>1
<1>8. Tokens(new, most) \in SUBSET (others \cup own)
  <2> SUFFICES ASSUME NEW t \in Process \X (1..most), t[2] <= new[t[1]]
               PROVE  t \in others \cup own
    BY DEF Tokens
  <2>1. t[1] \in Process /\ t[2] \in 1..most /\ t = <<t[1], t[2]>>
    OBVIOUS
  <2> QED BY <1>1, <2>1
<1>9. others \cap own = {}
  OBVIOUS
<1>10. /\ IsFiniteSet(others \cup own)
       /\ Cardinality(others \cup own) = (N - 1) * most + k
  <2>1. IsFiniteSet(others \cup own)
        /\ Cardinality(others \cup own) = Cardinality(others) + Cardinality(own) - Cardinality(others \cap own)
    BY <1>5, <1>7, FS_Union
  <2>2. Cardinality(others \cap own) = 0
    BY <1>9, FS_EmptySet
  <2>3. (N - 1) * most \in Int
    BY <1>1
  <2> QED BY <1>1, <1>5, <1>7, <2>1, <2>2, <2>3
<1>11. Cardinality(Tokens(new, most)) <= (N - 1) * most + k
  BY <1>8, <1>10, FS_Subset
<1>12. (N - 1) * most = most * N - most /\ most * N \in Nat
  BY <1>1
<1> QED BY <1>1, <1>11, <1>12, TokensAreFinite

(* The rows of one status after one row is written.                        *)
LEMMA OfAfter ==
  ASSUME NEW rows \in [Slot -> Row], NEW s \in Slot, NEW r \in Row, NEW status
  PROVE  Of([rows EXCEPT ![s] = r], status) =
           IF r.status = status THEN Of(rows, status) \cup {s} ELSE Of(rows, status) \ {s}
  BY DEF Of

LEMMA ConfirmedAfter ==
  ASSUME SignupInv, NEW s \in Slot, NEW r \in Row, row' = [row EXCEPT ![s] = r]
  PROVE  /\ Confirmed \in Nat /\ Confirmed' \in Nat
         /\ Confirmed' <= Confirmed + 1
         /\ r.status # "confirmed" => Confirmed' <= Confirmed
         /\ r.status = "confirmed" /\ row[s].status # "confirmed" => Confirmed' = Confirmed + 1
         /\ r.status = row[s].status => Confirmed' = Confirmed
<1> DEFINE old == Of(row, "confirmed")
           new == Of(row', "confirmed")
<1>1. new = IF r.status = "confirmed" THEN old \cup {s} ELSE old \ {s}
  <2>1. row \in [Slot -> Row]
    BY Typed DEF SignupInv
  <2>2. Of([row EXCEPT ![s] = r], "confirmed") = IF r.status = "confirmed" THEN old \cup {s} ELSE old \ {s}
    BY <2>1 DEF Of
  <2> QED BY <2>2
<1>2. s \in old <=> row[s].status = "confirmed"
  BY DEF Of
<1>3. IsFiniteSet(old) /\ Cardinality(old) \in Nat
  BY OfIsFinite
<1>4. Confirmed = Cardinality(old) /\ Confirmed' = Cardinality(new)
  BY DEF Confirmed
<1>5. Cardinality(old \cup {s}) = IF s \in old THEN Cardinality(old) ELSE Cardinality(old) + 1
  BY <1>3, FS_AddElement
<1>6. Cardinality(old \ {s}) = IF s \in old THEN Cardinality(old) - 1 ELSE Cardinality(old)
  BY <1>3, FS_RemoveElement
<1>7. s \in old => Cardinality(old) # 0
  BY <1>3, FS_EmptySet
<1> HIDE DEF old, new
<1>8. CASE r.status = "confirmed"
  BY <1>1, <1>2, <1>3, <1>4, <1>5, <1>8
<1>9. CASE r.status # "confirmed"
  BY <1>1, <1>2, <1>3, <1>4, <1>6, <1>7, <1>9
<1> QED BY <1>8, <1>9

(* The places a request counted free and has not given yet.                *)
Owed(q) ==
  IF q.phase = "signup" /\ q.status = "confirmed" THEN 1
  ELSE IF q.phase = "promote" THEN q.free ELSE 0
OwedBy(procs) == [p \in Process |-> Owed(procs[p])]

NotBilling(q) == q.phase \notin {"unbilled", "bill"}
WithinBound == Confirmed + Cardinality(Tokens(OwedBy(proc), capacity)) 
                 <= capacity * Cardinality(Process) + unseen
Unbilled == \A p \in Process : NotBilling(proc[p])
Bounded == ~billing => Unbilled /\ WithinBound

LEMMA OwedTyped ==
  ASSUME SignupInv
  PROVE  /\ \A q \in Doing : Owed(q) \in 0..capacity
         /\ OwedBy(proc) \in [Process -> Nat]
         /\ Owed(Idle) = 0 /\ NotBilling(Idle)
         /\ capacity \in Nat /\ Confirmed \in Nat /\ unseen \in Nat
<1>1. capacity \in Nat /\ capacity >= 1
  BY SignupConstants DEF SignupInv
<1>2. \A q \in Doing : Owed(q) \in 0..capacity
  BY <1>1 DEF Owed, Doing
<1>3. OwedBy(proc) \in [Process -> Nat]
  BY <1>1, <1>2, Typed DEF OwedBy, SignupInv
<1>4. Owed(Idle) = 0 /\ NotBilling(Idle)
  BY DEF Owed, Idle, NotBilling
<1> QED BY <1>1, <1>2, <1>3, <1>4, OfIsFinite DEF Confirmed, SignupInv, TypeOK

LEMMA OwedAfter ==
  ASSUME SignupInv, NEW p \in Process, NEW q \in Doing, Become(p, q)
  PROVE  /\ OwedBy(proc') \in [Process -> Nat]
         /\ OwedBy(proc')[p] = Owed(q) /\ OwedBy(proc)[p] = Owed(proc[p])
         /\ \A r \in Process \ {p} : OwedBy(proc')[r] = OwedBy(proc)[r]
         /\ Unbilled /\ NotBilling(q) => Unbilled'
<1>1. proc' \in [Process -> Doing] /\ proc'[p] = q
      /\ \A r \in Process \ {p} : proc'[r] = proc[r]
  BY Typed DEF SignupInv, Become
<1>2. \A r \in Process : Owed(proc'[r]) \in Nat
  BY <1>1, OwedTyped
<1> QED BY <1>1, <1>2 DEF OwedBy, Unbilled

(* A step that owes no more, and gives nothing but what it does not see.   *)
LEMMA OwesNoMore ==
  ASSUME SignupInv, WithinBound, UNCHANGED conditions, NEW p \in Process, NEW q \in Doing,
         Become(p, q), Owed(q) <= Owed(proc[p]), Confirmed' \in Nat,
         unseen' \in {unseen, unseen + 1}, Confirmed' + unseen <= Confirmed + unseen'
  PROVE  WithinBound'
<1> DEFINE old == OwedBy(proc)
           new == OwedBy(proc')
<1>1. capacity \in Nat /\ Confirmed \in Nat /\ unseen \in Nat /\ old \in [Process -> Nat] /\ new \in [Process -> Nat]
  BY OwedTyped, OwedAfter
<1>2. \A r \in Process : new[r] <= old[r]
  BY <1>1, OwedAfter
<1>3. Cardinality(Tokens(new, capacity)) <= Cardinality(Tokens(old, capacity))
      /\ Cardinality(Tokens(new, capacity)) \in Nat /\ Cardinality(Tokens(old, capacity)) \in Nat
      /\ Cardinality(Process) \in Nat
  BY <1>1, <1>2, FewerTokens, TokensAreFinite
<1>4. capacity * Cardinality(Process) \in Nat
  BY <1>1, <1>3
<1>5. WithinBound' <=> Confirmed' + Cardinality(Tokens(new, capacity))
                        <= capacity * Cardinality(Process) + unseen'
  BY DEF WithinBound, conditions
<1>6. Confirmed + Cardinality(Tokens(old, capacity)) <= capacity * Cardinality(Process) + unseen
  BY DEF WithinBound
<1>7. unseen' \in Nat
  BY <1>1
<1> HIDE DEF old, new
<1> DEFINE all == capacity * Cardinality(Process)
           before == Cardinality(Tokens(old, capacity))
           after == Cardinality(Tokens(new, capacity))
<1>8. all \in Nat /\ before \in Nat /\ after \in Nat /\ after <= before
      /\ Confirmed + before <= all + unseen
  BY <1>3, <1>4, <1>6
<1>9. ASSUME NEW b \in Nat, NEW a \in Nat, NEW n \in Nat, NEW c \in Nat, NEW d \in Nat,
             NEW u \in Nat, NEW v \in Nat, a <= b, c + b <= n + u, d + u <= c + v
      PROVE  d + a <= n + v
  BY <1>9
<1> HIDE DEF all, before, after
<1>10. Confirmed' + after <= all + unseen'
  BY <1>1, <1>7, <1>8, <1>9
<1> QED BY <1>5, <1>10 DEF all, after

(* A step that gives one place it owed.                                    *)
LEMMA GivesWhatIsOwed ==
  ASSUME SignupInv, WithinBound, UNCHANGED conditions, NEW p \in Process, NEW q \in Doing,
         Become(p, q), Owed(q) < Owed(proc[p]), unseen' = unseen,
         Confirmed' \in Nat, Confirmed' <= Confirmed + 1
  PROVE  WithinBound'
<1> DEFINE old == OwedBy(proc)
           new == OwedBy(proc')
<1>1. capacity \in Nat /\ Confirmed \in Nat /\ unseen \in Nat /\ old \in [Process -> Nat] /\ new \in [Process -> Nat]
  BY OwedTyped, OwedAfter
<1>2. \A r \in Process : new[r] <= old[r]
  BY <1>1, OwedAfter
<1>3. old[p] \in 1..capacity /\ new[p] < old[p]
  <2>1. Owed(proc[p]) \in 0..capacity /\ Owed(q) \in 0..capacity
    BY OwedTyped, Typed DEF SignupInv
  <2> QED BY <1>1, <2>1, OwedAfter
<1>4. Cardinality(Tokens(new, capacity)) + 1 <= Cardinality(Tokens(old, capacity))
  BY <1>1, <1>2, <1>3, OneTokenFewer
<1>5. Cardinality(Tokens(new, capacity)) \in Nat /\ Cardinality(Tokens(old, capacity)) \in Nat
      /\ Cardinality(Process) \in Nat
  BY <1>1, TokensAreFinite
<1>6. capacity * Cardinality(Process) \in Nat
  BY <1>1, <1>5
<1>7. WithinBound' <=> Confirmed' + Cardinality(Tokens(new, capacity))
                        <= capacity * Cardinality(Process) + unseen'
  BY DEF WithinBound, conditions
<1>8. Confirmed + Cardinality(Tokens(old, capacity)) <= capacity * Cardinality(Process) + unseen
  BY DEF WithinBound
<1> HIDE DEF old, new
<1> QED BY <1>1, <1>4, <1>5, <1>6, <1>7, <1>8

(* A step that counts what is free now.                                    *)
LEMMA CountsWhatIsFree ==
  ASSUME SignupInv, UNCHANGED conditions, NEW p \in Process, NEW q \in Doing, Become(p, q),
         unseen' = unseen, Confirmed' = Confirmed, Confirmed + Owed(q) <= capacity
  PROVE  WithinBound'
<1> DEFINE new == OwedBy(proc')
<1>1. capacity \in Nat /\ Confirmed \in Nat /\ unseen \in Nat /\ new \in [Process -> Nat] /\ new[p] = Owed(q)
      /\ Owed(q) \in 0..capacity
  BY OwedTyped, OwedAfter
<1>2. Cardinality(Tokens(new, capacity)) + capacity <= capacity * Cardinality(Process) + new[p]
  BY <1>1, TokensOfOthers
<1>3. Cardinality(Tokens(new, capacity)) \in Nat /\ Cardinality(Process) \in Nat
  BY <1>1, TokensAreFinite
<1>4. capacity * Cardinality(Process) \in Nat
  BY <1>1, <1>3
<1>5. WithinBound' <=> Confirmed' + Cardinality(Tokens(new, capacity))
                        <= capacity * Cardinality(Process) + unseen'
  BY DEF WithinBound, conditions
<1> HIDE DEF new
<1> QED BY <1>1, <1>2, <1>3, <1>4, <1>5

LEMMA SameRows == row' = row => Confirmed' = Confirmed
  BY DEF Confirmed, Of

(* A step that leaves the rows alone and owes nothing after.               *)
LEMMA OwesNothing ==
  ASSUME SignupInv, Unbilled, WithinBound, UNCHANGED conditions, NEW p \in Process, NEW q \in Doing,
         Become(p, q), Owed(q) = 0, NotBilling(q), unseen' = unseen,
         Confirmed' \in Nat, Confirmed' <= Confirmed
  PROVE  Unbilled' /\ WithinBound'
<1>1. proc[p] \in Doing
  BY Typed DEF SignupInv
<1>2. Owed(proc[p]) >= 0
  BY <1>1, OwedTyped
<1>3. Confirmed' + unseen <= Confirmed + unseen'
  BY OwedTyped
<1> QED BY <1>2, <1>3, OwesNoMore, OwedAfter

LEMMA GuardianBounded ==
  ASSUME SignupInv, Unbilled, WithinBound, UNCHANGED conditions, unseen' = unseen,
         NEW p \in Process, Guardian(p)
  PROVE  Unbilled' /\ WithinBound'
<1> DEFINE q == proc[p]
<1>0. q \in Doing /\ Confirmed \in Nat /\ capacity \in Nat /\ Idle \in Doing
  BY Typed, OwedTyped, NotBusy DEF SignupInv
<1>1. ASSUME NEW phase \in {"count", "find"}, NEW c \in Child, Begin(p, phase, c)
      PROVE  Unbilled' /\ WithinBound'
  <2>1. Become(p, Started(phase, c, activity)) /\ Confirmed' = Confirmed
    BY <1>1, SameRows DEF Begin, Started
  <2>2. phase \in Phase \ {"promote"} /\ activity \in Offer
    BY DEF Phase, SignupInv, TypeOK
  <2>3. Started(phase, c, activity) \in Doing /\ Started(phase, c, activity).phase = phase
    BY <2>2, StartedIs
  <2>4. Owed(Started(phase, c, activity)) = 0 /\ NotBilling(Started(phase, c, activity))
    BY <2>3 DEF Owed, NotBilling
  <2> QED BY <1>0, <2>1, <2>3, <2>4, OwesNothing
<1>2. CASE Become(p, Idle) /\ row' = row
  BY <1>0, <1>2, SameRows, OwedTyped, OwesNothing
<1>3. CASE CheckSignup(p)
  <2> DEFINE new == [q EXCEPT !.phase = "signup", !.status = StatusForNewSignup(q)]
  <2>1. new \in Doing /\ new.phase = "signup" /\ new.status = StatusForNewSignup(q)
    BY <1>0 DEF Doing, Phase, Status, StatusForNewSignup
  <2>2. row' = row /\ Confirmed' = Confirmed
    BY <1>3, SameRows DEF CheckSignup
  <2>3. CASE Become(p, new) /\ StatusForNewSignup(q) = "confirmed"
    <3>1. Confirmed < q.activity.places /\ q.activity.places \in 0..capacity
      BY <1>0, <2>3 DEF StatusForNewSignup, Doing, Offer
    <3>2. Owed(new) = 1 /\ NotBilling(new)
      BY <2>1, <2>3 DEF Owed, NotBilling
    <3> QED BY <1>0, <2>1, <2>2, <2>3, <3>1, <3>2, CountsWhatIsFree, OwedAfter
  <2>4. CASE Become(p, new) /\ StatusForNewSignup(q) # "confirmed"
    <3>1. Owed(new) = 0 /\ NotBilling(new)
      BY <2>1, <2>4 DEF Owed, NotBilling
    <3> QED BY <1>0, <2>1, <2>2, <2>4, <3>1, OwesNothing
  <2> QED BY <1>2, <1>3, <2>2, <2>3, <2>4 DEF CheckSignup, Refuse
<1>4. CASE WriteSignup(p)
  <2>1. CASE row' = row
    BY <1>2, <1>4, <2>1 DEF WriteSignup
  <2>2. ASSUME NEW s \in Of(row, "none"),
               row' = [row EXCEPT ![s] = [child |-> q.child, status |-> q.status,
                                          at |-> now, billed |-> FALSE]]
        PROVE  Unbilled' /\ WithinBound'
    <3> DEFINE r == [child |-> q.child, status |-> q.status, at |-> now, billed |-> FALSE]
    <3>1. r \in Row /\ r.status = q.status /\ s \in Slot
      BY <1>0, Typed DEF SignupInv, Row, Doing, Of
    <3>2. /\ Confirmed' \in Nat /\ Confirmed' <= Confirmed + 1
          /\ q.status # "confirmed" => Confirmed' <= Confirmed
      <4> HIDE DEF r
      <4> QED BY <2>2, <3>1, ConfirmedAfter DEF r
    <3>3. q.phase = "signup" /\ Become(p, Idle)
      BY <1>4 DEF WriteSignup
    <3>4. CASE q.status = "confirmed"
      <4>1. Owed(Idle) < Owed(q)
        BY <3>3, <3>4, OwedTyped DEF Owed
      <4> QED BY <1>0, <3>2, <3>3, <4>1, GivesWhatIsOwed, OwedTyped, OwedAfter
    <3>5. CASE q.status # "confirmed"
      BY <1>0, <3>2, <3>3, <3>5, OwesNothing, OwedTyped
    <3> QED BY <3>4, <3>5
  <2> QED BY <1>4, <2>1, <2>2 DEF WriteSignup
<1>5. CASE FindSignup(p)
  <2>1. row' = row /\ Confirmed' = Confirmed
    BY <1>5, SameRows DEF FindSignup
  <2>2. ASSUME NEW s \in ActiveFor(row, q.child), Become(p, Holding(q, "withdraw", {s}))
        PROVE  Unbilled' /\ WithinBound'
    <3>1. {s} \in SUBSET Slot
      BY DEF ActiveFor, Of
    <3>2. Holding(q, "withdraw", {s}) \in Doing /\ Holding(q, "withdraw", {s}).phase = "withdraw"
      BY <1>0, <3>1, HoldingIs DEF SignupInv, Phase
    <3>3. Owed(Holding(q, "withdraw", {s})) = 0 /\ NotBilling(Holding(q, "withdraw", {s}))
      BY <3>2 DEF Owed, NotBilling
    <3> QED BY <1>0, <2>1, <2>2, <3>2, <3>3, OwesNothing
  <2> QED BY <1>2, <1>5, <2>1, <2>2 DEF FindSignup, Refuse
<1>6. CASE WriteWithdrawal(p)
  <2> DEFINE next == [Idle EXCEPT !.phase = "waitlist", !.activity = q.activity]
  <2>1. CASE Become(p, Idle) /\ row' = row
    BY <1>2, <2>1
  <2>2. ASSUME NEW s \in q.todo, row' = [row EXCEPT ![s] = [q.seen[s] EXCEPT !.status = "withdrawn"]],
               Become(p, next) \/ Become(p, Idle)
        PROVE  Unbilled' /\ WithinBound'
    <3> DEFINE r == [q.seen[s] EXCEPT !.status = "withdrawn"]
    <3>1. s \in Slot /\ q.seen[s] \in Row
      BY <1>0 DEF Doing
    <3>2. r \in Row /\ r.status = "withdrawn"
      BY <3>1 DEF Row, Status
    <3>3. Confirmed' \in Nat /\ Confirmed' <= Confirmed
      <4> HIDE DEF r
      <4> QED BY <2>2, <3>1, <3>2, ConfirmedAfter DEF r
    <3>4. next = Started("waitlist", NoChild, q.activity)
      BY StartedByNobody
    <3>5. "waitlist" \in Phase \ {"promote"} /\ q.activity \in Offer
      BY <1>0 DEF Phase, Doing
    <3> HIDE DEF next
    <3>6. next \in Doing /\ next.phase = "waitlist"
      <4>1. /\ Started("waitlist", NoChild, q.activity) \in Doing
            /\ Started("waitlist", NoChild, q.activity).phase = "waitlist"
        <5> HIDE DEF q
        <5> QED BY <3>5, StartedIs
      <4> QED BY <3>4, <4>1
    <3>7. Owed(next) = 0 /\ NotBilling(next)
      BY <3>6 DEF Owed, NotBilling
    <3> QED BY <1>0, <2>2, <3>3, <3>6, <3>7, OwesNothing, OwedTyped
  <2> QED BY <1>6, <2>1, <2>2 DEF WriteWithdrawal
<1> QED BY <1>1, <1>3, <1>4, <1>5, <1>6 DEF Guardian, SignUp, Withdraw

LEMMA PromotionBounded ==
  ASSUME SignupInv, Unbilled, WithinBound, UNCHANGED conditions, NEW p \in Process, Promotion(p)
  PROVE  Unbilled' /\ WithinBound'
<1> DEFINE q == proc[p]
<1>0. q \in Doing /\ Confirmed \in Nat /\ capacity \in Nat /\ Idle \in Doing
  BY Typed, OwedTyped, NotBusy DEF SignupInv
<1>1. CASE ReadWaitlist(p) /\ unseen' = unseen
  <2> DEFINE free == q.activity.places - Confirmed
             waiting == Of(row, "waitlisted")
             new == Promoting(q, free, waiting)
  <2>1. row' = row /\ Confirmed' = Confirmed /\ waiting \in SUBSET Slot
    BY <1>1, ReadWaitlistIs, SameRows
  <2>2. CASE free \in 1..capacity /\ Become(p, new)
    <3>1. new \in Doing /\ new.phase = "promote" /\ new.free = free
      BY <1>0, <2>1, <2>2, PromotingIs
    <3>2. Owed(new) = free /\ NotBilling(new) /\ q.activity.places <= capacity
          /\ q.activity.places \in Nat
      BY <1>0, <3>1 DEF Owed, NotBilling, Doing, Offer
    <3> HIDE DEF new
    <3> QED BY <1>0, <1>1, <2>1, <2>2, <3>1, <3>2, CountsWhatIsFree, OwedAfter
  <2>3. CASE Become(p, Idle)
    BY <1>0, <1>1, <2>1, <2>3, OwedTyped, OwesNothing
  <2> QED BY <1>1, <2>2, <2>3, ReadWaitlistIs
<1>2. CASE PromoteOne(p)
  <2>1. PICK s \in First(q.seen, q.todo), free \in {q.free, q.free - 1} :
          /\ q.phase = "promote" /\ s \in Slot /\ s \in q.todo /\ free \in 0..capacity
          /\ Become(p, IF free = 0 \/ q.todo = {s} THEN Idle ELSE Without1(q, s, free))
          /\ \/ /\ row' = [row EXCEPT ![s] = [q.seen[s] EXCEPT !.status = "confirmed"]]
                /\ \/ free = q.free - 1 /\ unseen' = unseen
                   \/ free = q.free /\ unseen' = unseen + 1
             \/ free = q.free /\ row' = row /\ unseen' = unseen
    BY <1>2, PromoteOneIs
  <2> DEFINE new == IF free = 0 \/ q.todo = {s} THEN Idle ELSE Without1(q, s, free)
  <2>2. Owed(q) = q.free /\ q.free \in Nat /\ q.free > 0
    BY <1>0, <2>1 DEF Owed, Doing, SignupInv, PromotesInto
  <2>3. new \in Doing /\ Owed(new) <= free /\ NotBilling(new) /\ Owed(new) \in Nat
    <3>1. CASE free = 0 \/ q.todo = {s}
      BY <1>0, <2>1, <3>1, OwedTyped
    <3>2. CASE ~(free = 0 \/ q.todo = {s})
      <4>1. /\ Without1(q, s, free) \in Doing /\ Without1(q, s, free).phase = "promote"
            /\ Without1(q, s, free).free = free
        BY <1>0, <2>1, WithoutOne
      <4> QED BY <1>0, <2>1, <3>2, <4>1 DEF Owed, NotBilling
    <3> QED BY <3>1, <3>2
  <2>4. Become(p, new)
    BY <2>1
  <2> HIDE DEF new
  <2>5. CASE row' = [row EXCEPT ![s] = [q.seen[s] EXCEPT !.status = "confirmed"]]
             /\ \/ free = q.free - 1 /\ unseen' = unseen
                \/ free = q.free /\ unseen' = unseen + 1
    <3> DEFINE r == [q.seen[s] EXCEPT !.status = "confirmed"]
    <3>1. q.seen[s] \in Row
      BY <1>0, <2>1 DEF Doing
    <3>2. r \in Row
      BY <3>1 DEF Row, Status
    <3>3. Confirmed' \in Nat /\ Confirmed' <= Confirmed + 1
      <4> HIDE DEF r
      <4> QED BY <2>1, <2>5, <3>2, ConfirmedAfter DEF r
    <3>4. CASE free = q.free - 1 /\ unseen' = unseen
      <4>1. Owed(new) < Owed(q)
        BY <2>2, <2>3, <3>4
      <4> QED BY <1>0, <2>3, <2>4, <3>3, <3>4, <4>1, GivesWhatIsOwed, OwedAfter
    <3>5. CASE free = q.free /\ unseen' = unseen + 1
      <4>1. Owed(new) <= Owed(q)
        BY <2>2, <2>3, <3>5
      <4>2. Confirmed' + unseen <= Confirmed + unseen'
        BY <1>0, <3>3, <3>5, OwedTyped
      <4> QED BY <1>0, <2>3, <2>4, <3>3, <3>5, <4>1, <4>2, OwesNoMore, OwedAfter
    <3> QED BY <2>5, <3>4, <3>5
  <2>6. CASE free = q.free /\ row' = row /\ unseen' = unseen
    <3>1. Owed(new) <= Owed(q) /\ Confirmed' = Confirmed
      BY <2>2, <2>3, <2>6, SameRows
    <3>2. Confirmed' + unseen <= Confirmed + unseen'
      BY <1>0, <2>6, <3>1, OwedTyped
    <3> QED BY <1>0, <2>3, <2>4, <2>6, <3>1, <3>2, OwesNoMore, OwedAfter
  <2> QED BY <2>1, <2>5, <2>6
<1> QED BY <1>1, <1>2 DEF Promotion

LEMMA StaffBounded ==
  ASSUME SignupInv, Unbilled, WithinBound, UNCHANGED conditions, unseen' = unseen,
         NEW p \in Process, Staff(p)
  PROVE  Unbilled' /\ WithinBound'
<1> DEFINE q == proc[p]
<1>0. q \in Doing /\ Confirmed \in Nat /\ capacity \in Nat /\ Idle \in Doing
  BY Typed, OwedTyped, NotBusy DEF SignupInv
<1>1. row' = row /\ Confirmed' = Confirmed
  BY SameRows DEF Staff, SetStatus, SetSupervisors, SaveActivity
<1>2. ASSUME NEW phase \in {"status", "supervise"}, NEW offer \in Offer,
             Become(p, [Idle EXCEPT !.phase = phase, !.activity = offer])
      PROVE  Unbilled' /\ WithinBound'
  <2> DEFINE new == [Idle EXCEPT !.phase = phase, !.activity = offer]
  <2>1. new = Started(phase, NoChild, offer)
    BY StartedByNobody
  <2>2. phase \in Phase \ {"promote"}
    BY DEF Phase
  <2> HIDE DEF new
  <2>3. new \in Doing /\ new.phase = phase
    BY <2>1, <2>2, StartedIs
  <2>4. Owed(new) = 0 /\ NotBilling(new)
    BY <2>3 DEF Owed, NotBilling
  <2> QED BY <1>0, <1>1, <1>2, <2>3, <2>4, OwesNothing DEF new
<1>3. ASSUME NEW open \in BOOLEAN, SetStatus(p, open) PROVE Unbilled' /\ WithinBound'
  <2>1. [activity EXCEPT !.open = open] \in Offer
    BY Typed DEF SignupInv, Offer
  <2> QED BY <1>2, <1>3, <2>1 DEF SetStatus
<1>4. ASSUME NEW places \in 0..capacity, SetSupervisors(p, places) PROVE Unbilled' /\ WithinBound'
  <2>1. [activity EXCEPT !.places = places] \in Offer
    BY Typed DEF SignupInv, Offer
  <2> QED BY <1>2, <1>4, <2>1 DEF SetSupervisors
<1>5. CASE SaveActivity(p)
  <2> DEFINE new == [q EXCEPT !.phase = "waitlist"]
  <2>1. new \in Doing /\ new.phase = "waitlist"
    BY <1>0 DEF Doing, Phase
  <2>2. Owed(new) = 0 /\ NotBilling(new)
    BY <2>1 DEF Owed, NotBilling
  <2>3. Become(p, new) \/ Become(p, Idle)
    BY <1>5 DEF SaveActivity
  <2> HIDE DEF new
  <2> QED BY <1>0, <1>1, <2>1, <2>2, <2>3, OwesNothing, OwedTyped
<1> QED BY <1>3, <1>4, <1>5 DEF Staff

LEMMA BoundKeeps == SignupInv /\ Bounded /\ [Next]_vars => Bounded'
<1> SUFFICES ASSUME SignupInv, Bounded, [Next]_vars PROVE Bounded'
  OBVIOUS
<1>0. UNCHANGED conditions /\ billing' = billing
  BY DEF Next, vars, conditions
<1> SUFFICES ASSUME ~billing PROVE Unbilled' /\ WithinBound'
  BY <1>0 DEF Bounded
<1>1. Unbilled /\ WithinBound
  BY DEF Bounded
<1>2. ASSUME UNCHANGED <<row, proc, unseen>> PROVE Unbilled' /\ WithinBound'
  BY <1>0, <1>1, <1>2, SameRows DEF Unbilled, WithinBound, conditions
<1>3. ASSUME NEW p \in Process, Billing(p) PROVE FALSE
  BY <1>1, <1>3 DEF Billing, Bill, RaiseContributions, WriteReference, Unbilled, NotBilling
<1> QED BY <1>0, <1>1, <1>2, <1>3, GuardianBounded, PromotionBounded, StaffBounded
        DEF Next, SignupStep, Tick, vars

LEMMA BoundInit == Init => Bounded
<1> SUFFICES ASSUME Init PROVE Unbilled /\ WithinBound
  BY DEF Bounded
<1>1. SignupInv /\ capacity \in Nat /\ unseen = 0
  BY SignupInit, OwedTyped DEF Init
<1>2. Of(row, "confirmed") = {}
  BY DEF Init, NoRows, NoRow, Of
<1>3. Confirmed = 0
  BY <1>2, FS_EmptySet DEF Confirmed
<1>4. \A p \in Process : OwedBy(proc)[p] = 0
  BY <1>1, OwedTyped DEF Init, OwedBy
<1>5. Tokens(OwedBy(proc), capacity) = {}
  <2> SUFFICES ASSUME NEW t \in Process \X (1..capacity), t[2] <= OwedBy(proc)[t[1]] PROVE FALSE
    BY DEF Tokens
  <2>1. t[1] \in Process /\ t[2] \in Nat /\ t[2] > 0
    BY <1>1
  <2> QED BY <1>4, <2>1
<1>6. Cardinality(Tokens(OwedBy(proc), capacity)) = 0 /\ Cardinality(Process) \in Nat
  BY <1>1, <1>5, FS_EmptySet, TokensAreFinite
<1>7. capacity * Cardinality(Process) \in Nat
  BY <1>1, <1>6
<1>8. Unbilled
  BY <1>1, OwedTyped DEF Init, Unbilled
<1> QED BY <1>1, <1>3, <1>6, <1>7, <1>8 DEF WithinBound

(* As long as nothing is billed, requests that overlap over-fill the       *)
(* activity by no more than its places for each of them, however many      *)
(* there are (checkedSignup, 141-170, and promote, 278-302), and one more  *)
(* for each promotion stored while the store said it was not.              *)
THEOREM OverfillIsBounded == Spec => []OverfillBoundedParallel
<1>1. SignupInv /\ Bounded => OverfillBoundedParallel
  <2> SUFFICES ASSUME SignupInv, WithinBound
               PROVE  Confirmed <= capacity * Cardinality(Process) + unseen
    BY DEF Bounded, OverfillBoundedParallel
  <2>1. capacity \in Nat /\ Confirmed \in Nat /\ unseen \in Nat
    BY OwedTyped
  <2>2. Cardinality(Tokens(OwedBy(proc), capacity)) \in Nat /\ Cardinality(Process) \in Nat
    BY <2>1, TokensAreFinite
  <2>3. capacity * Cardinality(Process) \in Nat
    BY <2>1, <2>2
  <2> QED BY <2>1, <2>2, <2>3 DEF WithinBound
<1>2. SignupInv /\ Bounded /\ [Next]_vars => (SignupInv /\ Bounded)'
  BY SignupKeeps, BoundKeeps
<1> QED BY <1>1, <1>2, SignupInit, BoundInit, PTL DEF Spec

-----------------------------------------------------------------------------
(* Requests that come one by one                                           *)

Active == {"confirmed", "waitlisted"}
Full(rows, offer) == Of(rows, "waitlisted") # {} => Cardinality(Of(rows, "confirmed")) >= offer.places
Giving(q) == q.phase \in {"waitlist", "promote"}

(* What a request read is what is still there.                             *)
UpToDate(q, rows) == q.phase \in {"withdraw", "promote", "bill"} => \A s \in q.todo : q.seen[s] = rows[s]
Calm(q, rows, offer) ==
  /\ q.phase \in {"count", "signup", "find", "withdraw", "waitlist", "promote"} => q.activity = offer
  /\ q.phase = "status" => q.activity.places = offer.places
  /\ UpToDate(q, rows)
  /\ q.phase = "signup" =>
       /\ ActiveFor(rows, q.child) = {}
       /\ q.status \in Active
       /\ q.status = "confirmed" <=> Cardinality(Of(rows, "confirmed")) < offer.places
  /\ q.phase = "withdraw" => \A s \in q.todo : rows[s].status \in Active
  /\ q.phase = "promote" =>
       /\ q.todo = Of(rows, "waitlisted")
       /\ q.free = offer.places - Cardinality(Of(rows, "confirmed"))
  /\ q.phase = "bill" => \A s \in q.todo : rows[s].status = "confirmed"

Lone == \A p, r \in Process : proc[p] # Idle /\ proc[r] # Idle => p = r
EachCalm == \A p \in Process : Calm(proc[p], row, activity)
Filled == (\A p \in Process : ~Giving(proc[p])) => Full(row, activity)
Once(rows) ==
  \A s, t \in Slot : /\ rows[s].status \in Active /\ rows[t].status \in Active
                     /\ rows[s].child = rows[t].child
                     => s = t
InSeries == Lone /\ EachCalm /\ Filled /\ Once(row)
Serial == calm => InSeries

LEMMA IdleIsCalm == \A rows, offer : Calm(Idle, rows, offer) /\ ~Giving(Idle)
  BY DEF Calm, Idle, UpToDate, Giving

LEMMA OneAtATime ==
  ASSUME SignupInv, InSeries, calm, NEW p \in Process, proc[p] # Idle \/ MayBegin(p),
         NEW q \in Doing, Become(p, q)
  PROVE  /\ Lone' /\ proc'[p] = q
         /\ \A r \in Process \ {p} : proc[r] = Idle /\ proc'[r] = Idle
         /\ ~Giving(proc[p]) => Full(row, activity)
<1>1. \A r \in Process \ {p} : proc[r] = Idle
  BY DEF InSeries, Lone, MayBegin
<1>2. proc'[p] = q /\ \A r \in Process \ {p} : proc'[r] = Idle
  BY <1>1, Typed DEF Become, SignupInv
<1>3. ~Giving(proc[p]) => Full(row, activity)
  BY <1>1, IdleIsCalm DEF InSeries, Filled
<1> QED BY <1>1, <1>2, <1>3 DEF Lone

(* What is left to show of the step of a request.                          *)
LEMMA SeriesStep ==
  ASSUME SignupInv, InSeries, calm, NEW p \in Process, proc[p] # Idle \/ MayBegin(p),
         NEW q \in Doing, Become(p, q), Calm(q, row', activity'),
         Giving(q) \/ Full(row', activity'), Once(row')
  PROVE  InSeries'
<1>1. Lone' /\ proc'[p] = q /\ \A r \in Process \ {p} : proc'[r] = Idle
  BY OneAtATime
<1>2. EachCalm'
  BY <1>1, IdleIsCalm DEF EachCalm
<1>3. Filled'
  BY <1>1 DEF Filled
<1> QED BY <1>1, <1>2, <1>3 DEF InSeries

(* The step of a request that writes nothing.                              *)
LEMMA SeriesRead ==
  ASSUME SignupInv, InSeries, calm, NEW p \in Process, proc[p] # Idle \/ MayBegin(p),
         NEW q \in Doing, Become(p, q), Calm(q, row, activity), UNCHANGED <<row, activity>>,
         Giving(q) \/ Full(row, activity) \/ ~Giving(proc[p])
  PROVE  InSeries'
<1>1. Giving(q) \/ Full(row, activity)
  BY OneAtATime
<1> QED BY <1>1, SeriesStep DEF InSeries

LEMMA BeginSeries ==
  ASSUME SignupInv, InSeries, calm, NEW p \in Process, NEW c \in Child \cup {NoChild},
         NEW phase \in {"count", "find", "unbilled"}, Begin(p, phase, c)
  PROVE  InSeries'
<1> DEFINE new == Started(phase, c, activity)
<1>1. Become(p, new) /\ MayBegin(p) /\ proc[p] = Idle /\ UNCHANGED <<row, activity>>
  BY DEF Begin, Started, MayBegin
<1>2. phase \in Phase \ {"promote"} /\ activity \in Offer
  BY DEF Phase, SignupInv, TypeOK
<1>3. new \in Doing /\ new.phase = phase /\ new.activity = activity
  BY <1>2, StartedIs
<1> HIDE DEF new
<1>4. Calm(new, row, activity)
  BY <1>3 DEF Calm, UpToDate
<1> QED BY <1>1, <1>3, <1>4, IdleIsCalm, SeriesRead

LEMMA BusyIsNotIdle == \A q : q.phase # "idle" => q # Idle
  BY DEF Idle

LEMMA CheckSignupSeries ==
  ASSUME SignupInv, InSeries, calm, NEW p \in Process, CheckSignup(p)
  PROVE  InSeries'
<1> DEFINE q == proc[p]
           new == [q EXCEPT !.phase = "signup", !.status = StatusForNewSignup(q)]
<1>0. q \in Doing /\ q.phase = "count" /\ UNCHANGED <<row, activity>> /\ Idle \in Doing
  BY Typed, NotBusy, OwedTyped DEF SignupInv, CheckSignup
<1>1. q # Idle /\ ~Giving(q) /\ q.activity = activity
  BY <1>0, BusyIsNotIdle DEF Giving, InSeries, EachCalm, Calm
<1>2. CASE Become(p, Idle)
  BY <1>0, <1>1, <1>2, IdleIsCalm, SeriesRead
<1>3. CASE ActiveFor(row, q.child) = {} /\ StatusForNewSignup(q) # "none" /\ Become(p, new)
  <2>1. new \in Doing /\ new.phase = "signup" /\ new.status = StatusForNewSignup(q)
        /\ new.child = q.child /\ new.activity = q.activity
    BY <1>0 DEF Doing, Phase, Status, StatusForNewSignup
  <2>2. /\ StatusForNewSignup(q) \in Active
        /\ StatusForNewSignup(q) = "confirmed" <=> Cardinality(Of(row, "confirmed")) < activity.places
    BY <1>1, <1>3 DEF StatusForNewSignup, Active, Confirmed
  <2> HIDE DEF new
  <2>3. Calm(new, row, activity)
    BY <1>1, <1>3, <2>1, <2>2 DEF Calm, UpToDate
  <2> QED BY <1>0, <1>1, <1>3, <2>1, <2>3, SeriesRead
<1> QED BY <1>2, <1>3 DEF CheckSignup, Refuse

(* What a sign-up writes, one by one: into a place that is free and for    *)
(* which nobody waits, or on a list that is no shorter for it.             *)
LEMMA SignupWrites ==
  ASSUME SignupInv, InSeries, calm, NEW p \in Process, WriteSignup(p)
  PROVE  \E s \in Slot, r \in Row :
           /\ row' = [row EXCEPT ![s] = r] /\ row[s].status = "none"
           /\ UNCHANGED activity /\ Become(p, Idle) /\ proc[p] # Idle
           /\ r.status \in Active /\ ActiveFor(row, r.child) = {}
           /\ r.status = "confirmed" => Confirmed < activity.places /\ Of(row, "waitlisted") = {}
           /\ r.status = "waitlisted" => Confirmed >= activity.places
<1> DEFINE q == proc[p]
<1>1. q \in Doing /\ q.phase = "signup" /\ q # Idle /\ ~Giving(q)
  BY Typed, BusyIsNotIdle DEF SignupInv, WriteSignup, Giving
<1>2. PICK s \in Of(row, "none") :
        row' = [row EXCEPT ![s] = [child |-> q.child, status |-> q.status, at |-> now, billed |-> FALSE]]
  BY DEF WriteSignup
<1> DEFINE r == [child |-> q.child, status |-> q.status, at |-> now, billed |-> FALSE]
<1>3. r \in Row /\ r.status = q.status /\ r.child = q.child /\ s \in Slot /\ row[s].status = "none"
  BY <1>1, Typed DEF SignupInv, Row, Doing, Of
<1>4. /\ ActiveFor(row, q.child) = {} /\ q.status \in Active
      /\ q.status = "confirmed" <=> Confirmed < activity.places
  BY <1>1 DEF InSeries, EachCalm, Calm, Confirmed
<1>5. Become(p, Idle) /\ UNCHANGED activity
  BY DEF WriteSignup
<1>6. Full(row, activity)
  BY <1>1, <1>5, OneAtATime, NotBusy, OwedTyped
<1>7. Confirmed \in Nat /\ activity.places \in Nat
  BY OwedTyped, Typed DEF SignupInv, Offer
<1>8. /\ Confirmed < activity.places => Of(row, "waitlisted") = {}
      /\ ~(Confirmed < activity.places) => Confirmed >= activity.places
  BY <1>6, <1>7 DEF Full, Confirmed
<1> HIDE DEF r, q
<1> QED BY <1>1, <1>2, <1>3, <1>4, <1>5, <1>8 DEF r, q, Active

LEMMA WriteSignupSeries ==
  ASSUME SignupInv, InSeries, calm, NEW p \in Process, WriteSignup(p)
  PROVE  InSeries'
<1>1. PICK s \in Slot, r \in Row :
        /\ row' = [row EXCEPT ![s] = r] /\ row[s].status = "none"
        /\ UNCHANGED activity /\ Become(p, Idle) /\ proc[p] # Idle
        /\ r.status \in Active /\ ActiveFor(row, r.child) = {}
        /\ r.status = "confirmed" => Confirmed < activity.places /\ Of(row, "waitlisted") = {}
        /\ r.status = "waitlisted" => Confirmed >= activity.places
  BY SignupWrites
<1>2. row \in [Slot -> Row] /\ Confirmed \in Nat /\ activity.places \in Nat /\ Idle \in Doing
  BY Typed, NotBusy, OwedTyped DEF SignupInv, Offer
<1>3. Full(row', activity')
  <2>1. CASE r.status = "confirmed"
    <3>1. Of(row', "waitlisted") = {}
      BY <1>1, <1>2, <2>1 DEF Of
    <3> QED BY <3>1 DEF Full
  <2>2. CASE r.status = "waitlisted"
    <3>1. Confirmed' = Confirmed
      <4>1. Of(row', "confirmed") = Of(row, "confirmed")
        BY <1>1, <1>2, <2>2 DEF Of
      <4> QED BY <4>1 DEF Confirmed
    <3> QED BY <1>1, <2>2, <3>1 DEF Full, Confirmed
  <2> QED BY <1>1, <2>1, <2>2 DEF Active
<1>4. Once(row')
  <2>1. \A t \in Slot : row[t].status \in Active => row[t].child # r.child
    BY <1>1 DEF ActiveFor, Of, Active
  <2>2. Once(row)
    BY DEF InSeries
  <2> QED BY <1>1, <1>2, <2>1, <2>2 DEF Once
<1> QED BY <1>1, <1>2, <1>3, <1>4, IdleIsCalm, SeriesStep

LEMMA FindSignupSeries ==
  ASSUME SignupInv, InSeries, calm, NEW p \in Process, FindSignup(p)
  PROVE  InSeries'
<1> DEFINE q == proc[p]
<1>0. q \in Doing /\ q.phase = "find" /\ UNCHANGED <<row, activity>> /\ Idle \in Doing
  BY Typed, NotBusy, OwedTyped DEF SignupInv, FindSignup
<1>1. q # Idle /\ ~Giving(q) /\ q.activity = activity
  BY <1>0, BusyIsNotIdle DEF Giving, InSeries, EachCalm, Calm
<1>2. CASE Become(p, Idle)
  BY <1>0, <1>1, <1>2, IdleIsCalm, SeriesRead
<1>3. ASSUME NEW s \in ActiveFor(row, q.child), Become(p, Holding(q, "withdraw", {s}))
      PROVE  InSeries'
  <2> DEFINE new == Holding(q, "withdraw", {s})
  <2>1. {s} \in SUBSET Slot /\ row[s].status \in Active
    BY DEF ActiveFor, Of, Active
  <2>2. /\ new \in Doing /\ new.phase = "withdraw" /\ new.todo = {s} /\ new.activity = q.activity
        /\ new.seen[s] = row[s]
    BY <1>0, <2>1, HoldingIs DEF SignupInv, Phase
  <2> HIDE DEF new
  <2>3. Calm(new, row, activity)
    BY <1>1, <2>1, <2>2 DEF Calm, UpToDate
  <2> QED BY <1>0, <1>1, <1>3, <2>2, <2>3, SeriesRead DEF new
<1> QED BY <1>2, <1>3 DEF FindSignup, Refuse

LEMMA WriteWithdrawalSeries ==
  ASSUME SignupInv, InSeries, calm, NEW p \in Process, WriteWithdrawal(p)
  PROVE  InSeries'
<1> DEFINE q == proc[p]
           next == [Idle EXCEPT !.phase = "waitlist", !.activity = q.activity]
<1>0. q \in Doing /\ q.phase = "withdraw" /\ UNCHANGED activity /\ Idle \in Doing
      /\ row \in [Slot -> Row]
  BY Typed, NotBusy, OwedTyped DEF SignupInv, WriteWithdrawal
<1>1. q # Idle /\ ~Giving(q) /\ q.activity = activity
      /\ \A s \in q.todo : q.seen[s] = row[s] /\ row[s].status \in Active
  BY <1>0, BusyIsNotIdle DEF Giving, InSeries, EachCalm, Calm, UpToDate
<1>2. PICK s \in q.todo :
        /\ row' = [row EXCEPT ![s] = [q.seen[s] EXCEPT !.status = "withdrawn"]]
        /\ Become(p, IF q.seen[s].status = "confirmed" THEN next ELSE Idle)
  BY DEF WriteWithdrawal
<1> DEFINE r == [row[s] EXCEPT !.status = "withdrawn"]
<1>3. s \in Slot /\ r \in Row /\ r.status = "withdrawn" /\ row' = [row EXCEPT ![s] = r]
  <2>1. s \in Slot /\ q.seen[s] = row[s] /\ row[s] \in Row
    BY <1>0, <1>1 DEF Doing
  <2>2. row' = [row EXCEPT ![s] = r]
    BY <1>2, <2>1
  <2> QED BY <2>1, <2>2 DEF Row, Status
<1> HIDE DEF r
<1>4. Once(row')
  <2>1. \A t \in Slot : row'[t].status \in Active => row'[t] = row[t]
    BY <1>0, <1>3 DEF Active
  <2> QED BY <2>1 DEF InSeries, Once
<1>5. CASE row[s].status = "confirmed"
  <2>1. Become(p, next)
    BY <1>1, <1>2, <1>5
  <2>2. next = Started("waitlist", NoChild, q.activity)
    BY StartedByNobody
  <2> HIDE DEF next
  <2>3. next \in Doing /\ next.phase = "waitlist" /\ next.activity = q.activity
    <3>1. "waitlist" \in Phase \ {"promote"} /\ q.activity \in Offer
      BY <1>0 DEF Phase, Doing
    <3>2. /\ Started("waitlist", NoChild, q.activity) \in Doing
          /\ Started("waitlist", NoChild, q.activity).phase = "waitlist"
          /\ Started("waitlist", NoChild, q.activity).activity = q.activity
      <4> HIDE DEF q
      <4> QED BY <3>1, StartedIs
    <3> QED BY <2>2, <3>2
  <2>4. Calm(next, row', activity') /\ Giving(next)
    BY <1>0, <1>1, <2>3 DEF Calm, UpToDate, Giving
  <2> QED BY <1>1, <1>4, <2>1, <2>3, <2>4, SeriesStep
<1>6. CASE row[s].status = "waitlisted"
  <2>1. Become(p, Idle)
    BY <1>1, <1>2, <1>6
  <2>2. Full(row, activity)
    BY <1>0, <1>1, <2>1, OneAtATime
  <2>3. /\ Of(row', "confirmed") = Of(row, "confirmed")
        /\ Of(row', "waitlisted") \subseteq Of(row, "waitlisted")
    BY <1>0, <1>3, <1>6 DEF Of
  <2>4. Full(row', activity')
    BY <1>0, <2>2, <2>3 DEF Full
  <2> QED BY <1>0, <1>1, <1>4, <2>1, <2>4, IdleIsCalm, SeriesStep
<1> QED BY <1>1, <1>5, <1>6 DEF Active

LEMMA ReadWaitlistSeries ==
  ASSUME SignupInv, InSeries, calm, NEW p \in Process, ReadWaitlist(p)
  PROVE  InSeries'
<1> DEFINE q == proc[p]
           free == q.activity.places - Confirmed
           waiting == Of(row, "waitlisted")
           new == Promoting(q, free, waiting)
<1>0. q \in Doing /\ Idle \in Doing /\ Confirmed \in Nat /\ activity.places \in Nat
  BY Typed, NotBusy, OwedTyped DEF SignupInv, Offer
<1>1. /\ q.phase = "waitlist" /\ UNCHANGED <<row, activity>> /\ waiting \in SUBSET Slot
      /\ \/ free \in 1..capacity /\ waiting # {} /\ Become(p, new)
         \/ (free <= 0 \/ waiting = {}) /\ Become(p, Idle)
  BY ReadWaitlistIs
<1>2. q # Idle /\ q.activity = activity
  BY <1>1, BusyIsNotIdle DEF InSeries, EachCalm, Calm
<1>3. CASE free \in 1..capacity /\ waiting # {} /\ Become(p, new)
  <2>1. /\ new \in Doing /\ new.phase = "promote" /\ new.free = free /\ new.todo = waiting
        /\ new.activity = q.activity /\ \A s \in waiting : new.seen[s] = row[s]
    BY <1>0, <1>1, <1>3, PromotingIs
  <2> HIDE DEF new
  <2>2. Calm(new, row, activity) /\ Giving(new)
    BY <1>2, <2>1 DEF Calm, UpToDate, Giving, Confirmed
  <2> QED BY <1>1, <1>2, <1>3, <2>1, <2>2, SeriesRead
<1>4. CASE (free <= 0 \/ waiting = {}) /\ Become(p, Idle)
  <2>1. Full(row, activity)
    BY <1>0, <1>2, <1>4 DEF Full, Confirmed
  <2> QED BY <1>0, <1>1, <1>2, <1>4, <2>1, IdleIsCalm, SeriesRead
<1> QED BY <1>1, <1>3, <1>4

(* What a promotion writes, one by one: the row that waited longest, into  *)
(* a place that is free.                                                   *)
LEMMA PromotionWrites ==
  ASSUME SignupInv, InSeries, calm, NEW p \in Process, PromoteOne(p)
  PROVE  LET q == proc[p] IN
         \E s \in Slot, r \in Row, free \in 0..capacity :
           /\ s \in First(row, Of(row, "waitlisted")) /\ row[s].status = "waitlisted"
           /\ r = [row[s] EXCEPT !.status = "confirmed"]
           /\ r.status = "confirmed" /\ r.child = row[s].child /\ r.at = row[s].at
           /\ row' = [row EXCEPT ![s] = r] /\ UNCHANGED activity
           /\ q.phase = "promote" /\ q.todo = Of(row, "waitlisted")
           /\ \A t \in q.todo : q.seen[t] = row[t]
           /\ free = q.free - 1 /\ free = activity.places - Confirmed - 1
           /\ Become(p, IF free = 0 \/ q.todo = {s} THEN Idle ELSE Without1(q, s, free))
<1> DEFINE q == proc[p]
<1>1. PICK s \in First(q.seen, q.todo), free \in {q.free, q.free - 1} :
        /\ q.phase = "promote" /\ s \in Slot /\ s \in q.todo /\ free \in 0..capacity
        /\ UNCHANGED activity
        /\ Become(p, IF free = 0 \/ q.todo = {s} THEN Idle ELSE Without1(q, s, free))
        /\ free = q.free - 1 /\ row' = [row EXCEPT ![s] = [q.seen[s] EXCEPT !.status = "confirmed"]]
  BY PromoteOneIs
<1>2. /\ q.todo = Of(row, "waitlisted") /\ \A t \in q.todo : q.seen[t] = row[t]
      /\ q.free = activity.places - Confirmed
  BY <1>1 DEF InSeries, EachCalm, Calm, UpToDate, Confirmed
<1>3. s \in First(row, Of(row, "waitlisted")) /\ row[s].status = "waitlisted"
  BY <1>1, <1>2 DEF First, Of
<1> DEFINE r == [row[s] EXCEPT !.status = "confirmed"]
<1>4. r \in Row /\ r.status = "confirmed" /\ r.child = row[s].child /\ r.at = row[s].at
  <2>1. row[s] \in Row
    BY <1>1, Typed DEF SignupInv
  <2> QED BY <2>1 DEF Row, Status
<1>5. row' = [row EXCEPT ![s] = r]
  BY <1>1, <1>2
<1>6. free = activity.places - Confirmed - 1
  BY <1>1, <1>2
<1> HIDE DEF q
<1> QED BY <1>1, <1>2, <1>3, <1>4, <1>5, <1>6 DEF q

LEMMA PromoteOneSeries ==
  ASSUME SignupInv, InSeries, calm, NEW p \in Process, PromoteOne(p)
  PROVE  InSeries'
<1> DEFINE q == proc[p]
<1>1. PICK s \in Slot, r \in Row, free \in 0..capacity :
           /\ row[s].status = "waitlisted"
           /\ r.status = "confirmed" /\ r.child = row[s].child
           /\ row' = [row EXCEPT ![s] = r] /\ UNCHANGED activity
           /\ q.phase = "promote" /\ q.todo = Of(row, "waitlisted")
           /\ \A t \in q.todo : q.seen[t] = row[t]
           /\ free = q.free - 1 /\ free = activity.places - Confirmed - 1
           /\ Become(p, IF free = 0 \/ q.todo = {s} THEN Idle ELSE Without1(q, s, free))
  BY PromotionWrites
<1>2. /\ q \in Doing /\ q # Idle /\ q.activity = activity /\ Idle \in Doing
      /\ row \in [Slot -> Row] /\ Confirmed \in Nat /\ activity.places \in Nat
  BY <1>1, Typed, NotBusy, OwedTyped, BusyIsNotIdle DEF SignupInv, Offer, InSeries, EachCalm, Calm
<1>3. Once(row')
  <2>1. \A t \in Slot : /\ row'[t].status \in Active => row[t].status \in Active
                        /\ row'[t].child = row[t].child
    BY <1>1, <1>2 DEF Active
  <2> QED BY <2>1 DEF InSeries, Once
<1>4. Confirmed' = Confirmed + 1
  BY <1>1, ConfirmedAfter
<1>5. Of(row', "waitlisted") = q.todo \ {s}
  BY <1>1, <1>2 DEF Of
<1>6. CASE free = 0 \/ q.todo = {s}
  <2>1. Full(row', activity')
    <3>1. free = 0 => Confirmed' >= activity'.places
      BY <1>1, <1>2, <1>4
    <3>2. q.todo = {s} => Of(row', "waitlisted") = {}
      BY <1>5
    <3> QED BY <1>6, <3>1, <3>2 DEF Full, Confirmed
  <2> QED BY <1>1, <1>2, <1>3, <1>6, <2>1, IdleIsCalm, SeriesStep
<1>7. CASE ~(free = 0 \/ q.todo = {s})
  <2> DEFINE new == Without1(q, s, free)
  <2>1. /\ new \in Doing /\ new.phase = "promote" /\ new.todo = q.todo \ {s}
        /\ new.activity = q.activity /\ new.free = free
        /\ \A t \in Slot \ {s} : new.seen[t] = q.seen[t]
    BY <1>1, <1>2, WithoutOne
  <2>2. Become(p, new)
    BY <1>1, <1>7
  <2> HIDE DEF new
  <2>3. \A t \in new.todo : new.seen[t] = row'[t]
    BY <1>1, <1>2, <2>1 DEF Doing
  <2>4. new.free = activity'.places - Cardinality(Of(row', "confirmed"))
    BY <1>1, <1>2, <1>4, <2>1 DEF Confirmed
  <2>5. Calm(new, row', activity') /\ Giving(new)
    BY <1>1, <1>2, <1>5, <2>1, <2>3, <2>4 DEF Calm, UpToDate, Giving
  <2> QED BY <1>2, <1>3, <2>1, <2>2, <2>5, SeriesStep
<1> QED BY <1>6, <1>7

LEMMA StaffSeries ==
  ASSUME SignupInv, InSeries, calm, NEW p \in Process, Staff(p)
  PROVE  InSeries'
<1> DEFINE q == proc[p]
<1>0. q \in Doing /\ Idle \in Doing /\ row' = row /\ Once(row')
  BY Typed, NotBusy, OwedTyped
  DEF SignupInv, Staff, SetStatus, SetSupervisors, SaveActivity, InSeries
<1>1. ASSUME NEW phase \in {"status", "supervise"}, NEW offer \in Offer,
             MayBegin(p), UNCHANGED <<activity, row>>,
             Become(p, [Idle EXCEPT !.phase = phase, !.activity = offer]),
             phase = "status" => offer.places = activity.places
      PROVE  InSeries'
  <2> DEFINE new == [Idle EXCEPT !.phase = phase, !.activity = offer]
  <2>1. new = Started(phase, NoChild, offer)
    BY StartedByNobody
  <2>2. phase \in Phase \ {"promote"}
    BY DEF Phase
  <2>3. Become(p, new)
    BY <1>1
  <2> HIDE DEF new
  <2>4. new \in Doing /\ new.phase = phase /\ new.activity = offer
    BY <2>1, <2>2, StartedIs
  <2>5. Calm(new, row, activity)
    BY <1>1, <2>4 DEF Calm, UpToDate
  <2>6. ~Giving(proc[p])
    BY <1>1, IdleIsCalm DEF MayBegin
  <2> QED BY <1>1, <2>3, <2>4, <2>5, <2>6, SeriesRead
<1>2. ASSUME NEW open \in BOOLEAN, SetStatus(p, open) PROVE InSeries'
  <2>1. [activity EXCEPT !.open = open] \in Offer /\ [activity EXCEPT !.open = open].places = activity.places
    BY Typed DEF SignupInv, Offer
  <2> QED BY <1>1, <1>2, <2>1 DEF SetStatus
<1>3. ASSUME NEW places \in 0..capacity, SetSupervisors(p, places) PROVE InSeries'
  <2>1. [activity EXCEPT !.places = places] \in Offer
    BY Typed DEF SignupInv, Offer
  <2> QED BY <1>1, <1>3, <2>1 DEF SetSupervisors
<1>4. CASE SaveActivity(p)
  <2>1. q.phase \in {"status", "supervise"} /\ q # Idle /\ ~Giving(q) /\ activity' = q.activity
    BY <1>4, BusyIsNotIdle DEF SaveActivity, Giving
  <2>2. CASE q.phase = "supervise"
    <3> DEFINE new == [q EXCEPT !.phase = "waitlist"]
    <3>1. new \in Doing /\ new.phase = "waitlist" /\ new.activity = q.activity
      BY <1>0 DEF Doing, Phase
    <3>2. Become(p, new)
      BY <1>4, <2>2 DEF SaveActivity
    <3> HIDE DEF new
    <3>3. Calm(new, row', activity') /\ Giving(new)
      BY <2>1, <3>1 DEF Calm, UpToDate, Giving
    <3> QED BY <1>0, <2>1, <3>1, <3>2, <3>3, SeriesStep
  <2>3. CASE q.phase = "status"
    <3>1. Become(p, Idle)
      BY <1>4, <2>3 DEF SaveActivity
    <3>2. Full(row, activity) /\ q.activity.places = activity.places
      BY <1>0, <2>1, <2>3, <3>1, OneAtATime DEF InSeries, EachCalm, Calm
    <3>3. Full(row', activity')
      BY <1>0, <2>1, <3>2 DEF Full
    <3> QED BY <1>0, <2>1, <3>1, <3>3, IdleIsCalm, SeriesStep
  <2> QED BY <2>1, <2>2, <2>3
<1> QED BY <1>2, <1>3, <1>4 DEF Staff

(* The references a billing run writes change neither who has a place nor  *)
(* who waits.                                                              *)
LEMMA ReferenceWrites ==
  ASSUME SignupInv, InSeries, calm, NEW p \in Process, WriteReference(p)
  PROVE  LET q == proc[p] IN
         \E s \in Slot, r \in Row :
           /\ s \in q.todo /\ q.phase = "bill" /\ UNCHANGED activity
           /\ r.status = row[s].status /\ r.status = "confirmed" /\ r.child = row[s].child
           /\ row' = [row EXCEPT ![s] = r]
           /\ Become(p, IF q.todo = {s} THEN Idle ELSE Without1(q, s, q.free))
<1> DEFINE q == proc[p]
<1>1. q \in Doing /\ q.phase = "bill" /\ UNCHANGED activity
  BY Typed DEF SignupInv, WriteReference
<1>2. PICK s \in q.todo :
        /\ row' = [row EXCEPT ![s] = [q.seen[s] EXCEPT !.billed = TRUE]]
        /\ Become(p, IF q.todo = {s} THEN Idle ELSE [q EXCEPT !.todo = @ \ {s}, !.seen[s] = NoRow])
  BY DEF WriteReference
<1>3. s \in Slot /\ q.seen[s] = row[s] /\ row[s].status = "confirmed" /\ row[s] \in Row
  BY <1>1, Typed DEF Doing, SignupInv, InSeries, EachCalm, Calm, UpToDate
<1> DEFINE r == [row[s] EXCEPT !.billed = TRUE]
<1>4. r \in Row /\ r.status = row[s].status /\ r.child = row[s].child
  BY <1>3 DEF Row
<1>5. row' = [row EXCEPT ![s] = r]
  BY <1>2, <1>3
<1>6. [q EXCEPT !.todo = @ \ {s}, !.seen[s] = NoRow] = Without1(q, s, q.free)
  BY <1>1 DEF Without1, Doing
<1> HIDE DEF r, q
<1> QED BY <1>1, <1>2, <1>3, <1>4, <1>5, <1>6 DEF q

LEMMA BillingSeries ==
  ASSUME SignupInv, InSeries, calm, NEW p \in Process, Billing(p)
  PROVE  InSeries'
<1> DEFINE q == proc[p]
<1>0. q \in Doing /\ Idle \in Doing
  BY Typed, NotBusy, OwedTyped DEF SignupInv
<1>1. CASE Bill(p)
  BY <1>1, BeginSeries DEF Bill
<1>2. CASE RaiseContributions(p)
  <2>1. UNCHANGED <<activity, row>> /\ q.phase = "unbilled" /\ q # Idle /\ ~Giving(q)
    BY <1>2, BusyIsNotIdle DEF RaiseContributions, Giving
  <2>2. CASE Become(p, Idle)
    BY <1>0, <2>1, <2>2, IdleIsCalm, SeriesRead
  <2>3. ASSUME NEW billed \in SUBSET {s \in Of(row, "confirmed") : ~row[s].billed},
               Become(p, Holding(q, "bill", billed))
        PROVE  InSeries'
    <3> DEFINE new == Holding(q, "bill", billed)
    <3>1. billed \in SUBSET Slot /\ \A s \in billed : row[s].status = "confirmed"
      BY DEF Of
    <3>2. /\ new \in Doing /\ new.phase = "bill" /\ new.todo = billed
          /\ \A s \in billed : new.seen[s] = row[s]
      BY <1>0, <3>1, HoldingIs DEF SignupInv, Phase
    <3>3. Become(p, new)
      BY <2>3
    <3> HIDE DEF new
    <3>4. Calm(new, row, activity)
      BY <3>1, <3>2 DEF Calm, UpToDate
    <3> QED BY <2>1, <3>2, <3>3, <3>4, SeriesRead
  <2> QED BY <1>2, <2>2, <2>3 DEF RaiseContributions, Refuse
<1>3. CASE WriteReference(p)
  <2>1. PICK s \in Slot, r \in Row :
          /\ s \in q.todo /\ q.phase = "bill" /\ UNCHANGED activity
          /\ r.status = row[s].status /\ r.status = "confirmed" /\ r.child = row[s].child
          /\ row' = [row EXCEPT ![s] = r]
          /\ Become(p, IF q.todo = {s} THEN Idle ELSE Without1(q, s, q.free))
    BY <1>3, ReferenceWrites
  <2>2. q # Idle /\ ~Giving(q) /\ row \in [Slot -> Row] /\ q.free \in 0..capacity
        /\ \A t \in q.todo : q.seen[t] = row[t] /\ row[t].status = "confirmed"
    BY <1>0, <2>1, Typed, BusyIsNotIdle
    DEF Giving, SignupInv, Doing, InSeries, EachCalm, Calm, UpToDate
  <2>3. \A t \in Slot : row'[t].status = row[t].status /\ row'[t].child = row[t].child
    BY <2>1, <2>2
  <2>4. Once(row')
    BY <2>3 DEF InSeries, Once
  <2>5. \A status : Of(row', status) = Of(row, status)
    BY <2>3 DEF Of
  <2> DEFINE new == IF q.todo = {s} THEN Idle ELSE Without1(q, s, q.free)
  <2>6. new \in Doing /\ Calm(new, row', activity')
    <3>1. CASE q.todo = {s}
      BY <1>0, <3>1, IdleIsCalm
    <3>2. CASE q.todo # {s}
      <4> DEFINE w == Without1(q, s, q.free)
      <4>1. /\ w \in Doing /\ w.phase = "bill" /\ w.todo = q.todo \ {s}
            /\ \A t \in Slot \ {s} : w.seen[t] = q.seen[t]
        BY <1>0, <2>1, <2>2, WithoutOne
      <4>2. \A t \in q.todo \ {s} : row'[t] = row[t] /\ t \in Slot
        BY <1>0, <2>1, <2>2 DEF Doing
      <4> HIDE DEF w
      <4>3. Calm(w, row', activity')
        BY <2>2, <2>3, <4>1, <4>2 DEF Calm, UpToDate
      <4> QED BY <3>2, <4>1, <4>3 DEF w
    <3> QED BY <3>1, <3>2
  <2>7. Become(p, new)
    BY <2>1
  <2> HIDE DEF new
  <2>8. Full(row, activity)
    BY <2>2, <2>6, <2>7, OneAtATime
  <2>9. Full(row', activity')
    BY <2>1, <2>5, <2>8 DEF Full
  <2> QED BY <2>2, <2>4, <2>6, <2>7, <2>9, SeriesStep
<1> QED BY <1>1, <1>2, <1>3 DEF Billing

LEMMA SeriesKeeps == SignupInv /\ Serial /\ [Next]_vars => Serial'
<1> SUFFICES ASSUME SignupInv, Serial, [Next]_vars PROVE Serial'
  OBVIOUS
<1>0. calm' = calm
  BY DEF Next, vars, conditions
<1> SUFFICES ASSUME calm, InSeries PROVE InSeries'
  BY <1>0 DEF Serial
<1>1. ASSUME UNCHANGED <<activity, row, proc>> PROVE InSeries'
  BY <1>1 DEF InSeries, Lone, EachCalm, Filled
<1>2. ASSUME NEW p \in Process, Guardian(p) PROVE InSeries'
  <2>1. ASSUME NEW c \in Child, SignUp(p, c) \/ Withdraw(p, c) PROVE InSeries'
    BY <2>1, BeginSeries DEF SignUp, Withdraw
  <2> QED BY <1>2, <2>1, CheckSignupSeries, WriteSignupSeries, FindSignupSeries,
             WriteWithdrawalSeries DEF Guardian
<1>3. ASSUME NEW p \in Process, Promotion(p) PROVE InSeries'
  BY <1>3, ReadWaitlistSeries, PromoteOneSeries DEF Promotion
<1> QED BY <1>1, <1>2, <1>3, StaffSeries, BillingSeries DEF Next, SignupStep, Tick, vars

LEMMA SeriesInit == Init => Serial
<1> SUFFICES ASSUME Init PROVE InSeries
  BY DEF Serial
<1>1. \A s \in Slot : row[s].status = "none"
  BY DEF Init, NoRows, NoRow
<1>2. Of(row, "waitlisted") = {}
  BY <1>1 DEF Of
<1>3. Once(row)
  BY <1>1 DEF Once, Active
<1> QED BY <1>2, <1>3, IdleIsCalm DEF Init, InSeries, Lone, EachCalm, Filled, Full

LEMMA SeriesStepsKeep == SignupInv /\ Serial /\ [Next]_vars => (SignupInv /\ Serial)'
  BY SignupKeeps, SeriesKeeps

(* When requests come one by one, between two of them nobody waits while   *)
(* there is a place, and no child is signed up twice (withdraw, 241-266;   *)
(* setSupervisors, 317-334).                                               *)
THEOREM PlacesAreFilled == Spec => []PlacesAreFilledSerially
<1>1. SignupInv /\ Serial => PlacesAreFilledSerially
  <2> SUFFICES ASSUME SignupInv, InSeries, \A p \in Process : proc[p] = Idle
               PROVE  /\ Of(row, "waitlisted") # {} => Confirmed >= activity.places
                      /\ \A c \in Child : Cardinality(ActiveFor(row, c)) <= 1
    BY DEF Serial, PlacesAreFilledSerially
  <2>1. Full(row, activity)
    BY IdleIsCalm DEF InSeries, Filled
  <2>2. ASSUME NEW c \in Child PROVE Cardinality(ActiveFor(row, c)) <= 1
    <3>1. \A s, t \in ActiveFor(row, c) : s = t
      BY DEF InSeries, Once, ActiveFor, Of, Active
    <3>2. CASE ActiveFor(row, c) = {}
      BY <3>2, FS_EmptySet
    <3>3. CASE ActiveFor(row, c) # {}
      <4>1. PICK s : ActiveFor(row, c) = {s}
        BY <3>1, <3>3
      <4> QED BY <4>1, FS_Singleton
    <3> QED BY <3>2, <3>3
  <2> QED BY <2>1, <2>2 DEF Full, Confirmed
<1> QED BY <1>1, SignupInit, SeriesInit, SeriesStepsKeep, PTL DEF Spec

(* One by one, a place is given only when one is free, and never to a      *)
(* child while another waited longer (promote, 278-302;                    *)
(* ActivityPlaces::waitlist, 122-137).                                     *)
THEOREM TheLongestWaitingIsFirst == Spec => LongestWaitingFirstSerially
<1> DEFINE Fair == \A s \in Slot : GivesPlace(s) =>
                     /\ Confirmed' <= activity.places
                     /\ \A t \in Of(row, "waitlisted") \ {s} : row[t].at >= row'[s].at
<1>1. ASSUME SignupInv, Serial, [Next]_vars, calm PROVE Fair
  <2> USE <1>1
  <2>0. InSeries /\ Confirmed \in Nat /\ activity.places \in Nat /\ row \in [Slot -> Row]
    BY OwedTyped, Typed DEF Serial, SignupInv, Offer
  <2>1. CASE row' = row
    BY <2>1 DEF GivesPlace
  <2>2. ASSUME NEW p \in Process, WriteSignup(p) PROVE Fair
    <3>1. PICK s \in Slot, r \in Row :
            /\ row' = [row EXCEPT ![s] = r] /\ row[s].status = "none"
            /\ r.status = "confirmed" => Confirmed < activity.places /\ Of(row, "waitlisted") = {}
      BY <2>0, <2>2, SignupWrites
    <3>2. SUFFICES ASSUME NEW t \in Slot, GivesPlace(t)
                   PROVE  /\ Confirmed' <= activity.places
                          /\ \A u \in Of(row, "waitlisted") \ {t} : row[u].at >= row'[t].at
      OBVIOUS
    <3>3. t = s /\ r.status = "confirmed"
      BY <2>0, <3>1, <3>2 DEF GivesPlace
    <3>4. Confirmed' <= Confirmed + 1 /\ Confirmed' \in Nat
      BY <3>1, ConfirmedAfter
    <3> QED BY <2>0, <3>1, <3>3, <3>4
  <2>3. ASSUME NEW p \in Process, WriteWithdrawal(p) PROVE Fair
    <3>1. PICK s \in proc[p].todo : row' = [row EXCEPT ![s] = [proc[p].seen[s] EXCEPT !.status = "withdrawn"]]
      BY <2>3 DEF WriteWithdrawal
    <3>2. s \in Slot /\ proc[p].seen[s] \in Row
      BY Typed DEF SignupInv, Doing
    <3>3. [proc[p].seen[s] EXCEPT !.status = "withdrawn"].status = "withdrawn"
      BY <3>2 DEF Row
    <3>4. \A t \in Slot : row'[t].status \in {row[t].status, "withdrawn"}
      BY <2>0, <3>1, <3>2, <3>3
    <3> QED BY <3>4 DEF GivesPlace
  <2>4. ASSUME NEW p \in Process, PromoteOne(p) PROVE Fair
    <3>1. PICK s \in Slot, r \in Row, free \in 0..capacity :
           /\ s \in First(row, Of(row, "waitlisted"))
           /\ r.at = row[s].at /\ row' = [row EXCEPT ![s] = r]
           /\ free = activity.places - Confirmed - 1
      BY <2>0, <2>4, PromotionWrites
    <3>2. SUFFICES ASSUME NEW t \in Slot, GivesPlace(t)
                   PROVE  /\ Confirmed' <= activity.places
                          /\ \A u \in Of(row, "waitlisted") \ {t} : row[u].at >= row'[t].at
      OBVIOUS
    <3>3. t = s /\ row'[t].at = row[s].at
      BY <2>0, <3>1, <3>2 DEF GivesPlace
    <3>4. Confirmed' <= Confirmed + 1 /\ Confirmed' \in Nat
      BY <3>1, ConfirmedAfter
    <3>5. \A u \in Of(row, "waitlisted") : row[u].at >= row[s].at
      <4>1. \A u \in Slot : row[u].at \in 0..MaxTime
        BY <2>0 DEF Row
      <4>2. \A u \in Of(row, "waitlisted") : row[s].at < row[u].at \/ row[s].at = row[u].at
        BY <3>1 DEF First
      <4> QED BY <4>1, <4>2 DEF Of
    <3>6. Confirmed' <= activity.places
      BY <2>0, <3>1, <3>4, SignupConstants DEF SignupInv
    <3> QED BY <3>3, <3>5, <3>6
  <2>5. ASSUME NEW p \in Process, WriteReference(p) PROVE Fair
    <3>1. PICK s \in Slot, r \in Row :
            r.status = row[s].status /\ row' = [row EXCEPT ![s] = r]
      BY <2>0, <2>5, ReferenceWrites
    <3> QED BY <2>0, <3>1 DEF GivesPlace
  <2>6. ASSUME NEW p \in Process, Guardian(p) \/ Promotion(p) \/ Staff(p) \/ Billing(p) PROVE Fair
    BY <2>1, <2>2, <2>3, <2>4, <2>5, <2>6
    DEF Guardian, Promotion, Staff, Billing, SignUp, Withdraw, Begin, CheckSignup, FindSignup,
        ReadWaitlist, SetStatus, SetSupervisors, SaveActivity, Bill, RaiseContributions
  <2> QED BY <2>1, <2>6 DEF Next, SignupStep, Tick, vars
<1>2. SignupInv /\ Serial /\ [Next]_vars => (calm => Fair)
  BY <1>1
<1> QED BY <1>2, SignupInit, SeriesInit, SeriesStepsKeep, PTL DEF Spec, LongestWaitingFirstSerially
=============================================================================
