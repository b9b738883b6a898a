------------------------------ MODULE MCAccounts ------------------------------
(***************************************************************************)
(* How a person comes by an account, on small instances: the sign-in that  *)
(* finds or makes one (SignIn), and the waiting accounts whose claims a     *)
(* person takes over (WaitingAccountClaim).  A behaviour runs one of the    *)
(* two, under the scenario chosen at its start: which operations meet each  *)
(* other, whether the store answers, and who is there.                      *)
(***************************************************************************)
EXTENDS SignIn, WaitingAccountClaim, TLC

CONSTANTS
  Scenarios,    \* the scenarios this instance explores
  AnyRequests,  \* bound: requests of a behaviour where every operation may run
  Guessers,     \* who redeems, alone, in the scenario "guessing"
  Invitations,  \* and the accounts that wait for them
  Guesses,      \* bound: requests of the scenario "counting"
  GuessingTime, \* bound: its clock
  StoreMayFail

VARIABLE scenario

mcVars == <<signInVars, vars, scenario>>

SignInScenarios == {"callbacks", "one callback"}
OperationsOf ==
  [any |-> AllOperations,
   joining |-> AllOperations \ {"claim"},
   guarded |-> {"redeem", "confirm"},
   guessing |-> {"redeem"},
   counting |-> {"redeem"}]

(* One person redeems from two sessions at once.                           *)
Guessing == INSTANCE WaitingAccountClaim WITH
  Account <- Guessers, Waiting <- Invitations, Session <- {"j1", "j2"}, Code <- {},
  ClaimName <- {"c1", "c2"}, PerAccount <- 1, PerSession <- 1

(* One person guesses on and on, until a window closes and the next opens. *)
Counting == INSTANCE WaitingAccountClaim WITH
  Account <- Guessers, Waiting <- Invitations, Code <- {},
  PerSession <- Guesses, MaxRequests <- Guesses, MaxTime <- GuessingTime

(* The component that rests starts without rows of interest.  Addresses     *)
(* of accounts and their claims only vary where every operation runs.       *)
MCInit ==
  /\ scenario \in Scenarios
  /\ SignInInit /\ calm = (scenario # "callbacks")
  /\ scenario \notin SignInScenarios => account = [a \in PortalAccount |-> NoAccount]
  /\ \/ scenario \notin {"guessing", "counting"} /\ Init
     \/ scenario = "guessing" /\ Guessing!Init
     \/ scenario = "counting" /\ Counting!Init /\ Cardinality(issued) <= 1
  /\ operations = IF scenario \in SignInScenarios THEN {} ELSE OperationsOf[scenario]
  /\ storeMayFail = (StoreMayFail /\ scenario \in {"any", "joining"})
  /\ scenario \in SignInScenarios => issued = {}
  /\ scenario \in SignInScenarios \cup {"counting"} =>
       \A x \in DOMAIN row, c \in ClaimName : row[x].claims[c] = NoValue
  /\ scenario \notin {"any", "guessing"} =>
       \A a \in DOMAIN tries : row[a].email = "none" /\ \A c \in ClaimName : row[a].claims[c] = NoValue
  /\ scenario = "guessing" => \A a \in Guessers, c \in {"c1", "c2"} : row[a].claims[c] = NoValue

ClaimNext ==
  /\ CASE scenario = "guessing" -> Guessing!Next
       [] scenario = "counting" -> Counting!Next
       [] OTHER -> Next
  /\ scenario = "any" => started' <= AnyRequests

MCNext ==
  /\ \/ scenario \in SignInScenarios /\ SignInNext /\ UNCHANGED vars
     \/ scenario \notin SignInScenarios /\ ClaimNext /\ UNCHANGED signInVars
  /\ UNCHANGED scenario

MCSpec == MCInit /\ [][MCNext]_mcVars

(* Accounts, workers, people and states are interchangeable; both           *)
(* components use the same values for accounts and workers, and for states  *)
(* and the accounts that wait.                                             *)
Symmetry ==
  Permutations(Account) \cup Permutations(Process) \cup Permutations(Person)
    \cup Permutations(State)

=============================================================================
