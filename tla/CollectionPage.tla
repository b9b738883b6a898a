----------------------------- MODULE CollectionPage -----------------------------
(***************************************************************************)
(* A page of a contribution that shows rows of an app                       *)
(* (site/pages/collections/ContributionPage.vue), and the loader beneath it *)
(* (collectionLoader.js): reads of one collection that overlap, and what is *)
(* loaded again after a write.  All collections here are of one register    *)
(* and schema.  Rows are abstracted to how many writes they show.           *)
(***************************************************************************)
EXTENDS Integers, FiniteSets, FiniteSetsExt

CONSTANTS
  Collections,
  MaxRowWrites,  \* bound: writes, this resident's and others'
  MaxLoads       \* bound: reads sent

ASSUME CollectionPageAssumption == MaxRowWrites \in Nat /\ MaxLoads \in Nat

VARIABLES
  written,  \* writes the app's store has taken
  table,    \* per collection: what the page shows
  turn,     \* per collection: the loader's generation
  reads,    \* reads under way, with what the store answered
  acts,     \* this resident's writes under way
  own       \* history: per collection, the last answered write whose rows it loads again

collectionVars == <<written, table, turn, reads, acts, own>>

Unanswered == -1
Failed == -2

CollectionInit ==
  /\ written = 0
  /\ table = [c \in Collections |-> [loading |-> FALSE, failed |-> FALSE, shows |-> 0]]
  /\ turn = [c \in Collections |-> 0]
  /\ reads = {} /\ acts = {}
  /\ own = [c \in Collections |-> 0]

-----------------------------------------------------------------------------

(* load() of several collections at once: the rows stay while it reads.    *)
Load(cs) ==
  /\ MapThenSumSet(LAMBDA c : turn[c], Collections) + Cardinality(cs) <= MaxLoads
  /\ turn' = [c \in Collections |-> IF c \in cs THEN turn[c] + 1 ELSE turn[c]]
  /\ table' = [c \in Collections |->
       IF c \in cs THEN [table[c] EXCEPT !.loading = TRUE, !.failed = FALSE] ELSE table[c]]
  /\ reads' = reads \cup {[of |-> c, turn |-> turn[c] + 1, shows |-> Unanswered] : c \in cs}

(* The page is shown, or the contributions are read again under it.        *)
LoadPage ==
  /\ Load(Collections)
  /\ UNCHANGED <<written, acts, own>>

(* The store answers a read, or fails it.                                  *)
ReadReached(r) ==
  /\ r.shows = Unanswered
  /\ \E shows \in {written, Failed} : reads' = (reads \ {r}) \cup {[r EXCEPT !.shows = shows]}
  /\ UNCHANGED <<written, table, turn, acts, own>>

(* Mutant: whichever answer comes last is shown.                           *)
IsLatestAlways(r) == TRUE

IsLatest(r) == r.turn = turn[r.of]

ReadAnswered(r) ==
  /\ r.shows # Unanswered
  /\ reads' = reads \ {r}
  /\ table' = [table EXCEPT ![r.of] =
       IF ~IsLatest(r) THEN @
       ELSE [loading |-> FALSE, failed |-> r.shows = Failed,
             shows |-> IF r.shows = Failed THEN 0 ELSE r.shows]]
  /\ UNCHANGED <<written, turn, acts, own>>

-----------------------------------------------------------------------------

(* A write is a transition of a row of `of', or a dialog or form over all.  *)
(* Bound: one of each under way.                                           *)
Kinds == [kind : {"transition"}, of : {{c} : c \in Collections}]
           \cup [kind : {"form"}, of : {Collections}]

(* The buttons of other rows stay open while one is written.               *)
StartWrite(k) ==
  /\ Cardinality(acts) + written < MaxRowWrites
  /\ \A w \in acts : w.as # k
  /\ acts' = acts \cup {[as |-> k, number |-> Unanswered]}
  /\ UNCHANGED <<written, table, turn, reads, own>>

(* The store takes the write or not; the answer says so, or is lost.       *)
WriteReached(w) ==
  /\ w.number = Unanswered
  /\ \/ /\ written' = written + 1
        /\ \E number \in {written + 1, Failed} :
             acts' = (acts \ {w}) \cup {[w EXCEPT !.number = number]}
     \/ acts' = (acts \ {w}) \cup {[w EXCEPT !.number = Failed]} /\ UNCHANGED written
  /\ UNCHANGED <<table, turn, reads, own>>

(* transition() loads its collection again whatever came of it; after a     *)
(* dialog or form that was answered, afterWrite() loads every collection of *)
(* the schema.                                                             *)
LoadsAgain(w) ==
  IF w.as.kind = "form" /\ w.number = Failed THEN {} ELSE w.as.of

WriteAnswered(w) ==
  /\ w.number # Unanswered
  /\ acts' = acts \ {w}
  /\ own' = [c \in Collections |->
       IF c \in LoadsAgain(w) /\ w.number > own[c] THEN w.number ELSE own[c]]
  /\ Load(LoadsAgain(w))
  /\ UNCHANGED written

OtherWrites ==
  /\ Cardinality(acts) + written < MaxRowWrites
  /\ written' = written + 1
  /\ UNCHANGED <<table, turn, reads, acts, own>>

CollectionNext ==
  \/ LoadPage \/ OtherWrites
  \/ \E r \in reads : ReadReached(r) \/ ReadAnswered(r)
  \/ \E k \in Kinds : StartWrite(k)
  \/ \E w \in acts : WriteReached(w) \/ WriteAnswered(w)

CollectionSpec == CollectionInit /\ [][CollectionNext]_collectionVars

-----------------------------------------------------------------------------

(* A table that is neither loading nor failed shows every write of this     *)
(* resident that was answered and that it is loaded again after, over any   *)
(* order of reads and their answers (createCollectionLoader, 82-106;        *)
(* afterWrite; transition).                                                *)
OwnWritesShow ==
  \A c \in Collections :
    ~table[c].loading /\ ~table[c].failed => table[c].shows >= own[c]
=============================================================================
