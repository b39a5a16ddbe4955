------------------------------ MODULE UnitOfWork ------------------------------
(***************************************************************************)
(* A Unit of Work over PostgreSQL under READ COMMITTED, with its flushes,  *)
(* row locks and commit as steps of their own (storage/unit_of_work.py,    *)
(* storage/repositories/base.py).  The other modules take a commit for one *)
(* step; here is what makes that right.                                    *)
(*                                                                         *)
(* A repository keeps the row it loaded (_track), and the version read     *)
(* then is what the UPDATE matches on.  An UPDATE is flushed by the save   *)
(* itself: from then on the transaction holds the row's lock, and others   *)
(* that save the row wait, and find another version.  Nobody sees a        *)
(* flushed row before its commit.                                          *)
(*                                                                         *)
(* A row is reduced to what the properties tell apart: its version, who    *)
(* has written it (a write keeps all it read, and adds itself), and for a  *)
(* Work Package who rewrote its content and whether it has left DRAFT.     *)
(***************************************************************************)
EXTENDS Integers, FiniteSets

CONSTANTS
  Session,   \* one per Unit of Work: a session is never used again
  Row,       \* the rows Units of Work update
  Reason     \* what an audit line may give as a reason for a refusal

ASSUME UnitOfWorkAssumption == Session # {} /\ Row # {}

VARIABLES
  stored,    \* the committed rows
  ledger,    \* the committed audit lines, each with its event and wake-up
  state,     \* of each Unit of Work; "failed" is what an exception leaves
  loaded,    \* the rows it tracks, as it read or last flushed them
  written,   \* those it has flushed an UPDATE of, and so holds locked
  staged     \* the audit lines it has appended

rows == <<stored, ledger>>
uow  == <<state, loaded, written, staged>>

Outcome == {"ALLOWED", "REJECTED"}
Change  == {"status", "edit", "submit"}

AuditLine == [session : Session, outcome : Outcome, reasons : SUBSET Reason]

RowRecord == [version : Nat \ {0}, by : SUBSET Session, content : SUBSET Session,
              frozen : BOOLEAN]
NewRow    == [version |-> 1, by |-> {}, content |-> {}, frozen |-> FALSE]
NotLoaded == [version |-> 0, by |-> {}, content |-> {}, frozen |-> FALSE]

UnitsInit ==
  /\ stored = [r \in Row |-> NewRow]
  /\ ledger = {}
  /\ state = [s \in Session |-> "idle"]
  /\ loaded = [s \in Session |-> [r \in Row |-> NotLoaded]]
  /\ written = [s \in Session |-> {}]
  /\ staged = [s \in Session |-> {}]

IsLoaded(s, r) == loaded[s][r].version # 0

Open(s) ==
  /\ state[s] = "idle"
  /\ state' = [state EXCEPT ![s] = "open"]
  /\ UNCHANGED <<rows, loaded, written, staged>>

(* The first read of a row.  Any later one returns the row as tracked.     *)
Load(s, r) ==
  /\ state[s] = "open" /\ ~IsLoaded(s, r)
  /\ loaded' = [loaded EXCEPT ![s][r] = stored[r]]
  /\ UNCHANGED <<rows, state, written, staged>>

RereadToken(s, r) == stored[r].version      \* wrong: the tracked row was collected

(* The version the UPDATE of a loaded row matches on.                      *)
Token(s, r) == loaded[s][r].version

(* The row as s sets it and flushes it.                                    *)
Changed(s, r, change) ==
  [version |-> Token(s, r) + 1,
   by      |-> loaded[s][r].by \cup {s},
   content |-> IF change = "edit" THEN loaded[s][r].content \cup {s} ELSE loaded[s][r].content,
   frozen  |-> loaded[s][r].frozen \/ change = "submit"]

IsLockedByAny(s, r) == \E t \in Session : r \in written[t]   \* wrong: a session waits for itself
IsLocked(s, r) == \E t \in Session \ {s} : r \in written[t]

(* The UPDATE finds its row: its own flush, or the version it read.        *)
Matches(s, r) == r \in written[s] \/ stored[r].version = Token(s, r)

(* A Work Package that has left DRAFT refuses a write to its content.      *)
NeverRewrites(s, r, change) == FALSE        \* wrong: no freeze
Rewrites(s, r, change) == loaded[s][r].frozen /\ change = "edit"

Save(s, r, change) ==
  /\ state[s] = "open" /\ IsLoaded(s, r)
  /\ ~Rewrites(s, r, change)
  /\ ~IsLocked(s, r) /\ Matches(s, r)
  /\ loaded' = [loaded EXCEPT ![s][r] = Changed(s, r, change)]
  /\ written' = [written EXCEPT ![s] = @ \cup {r}]
  /\ UNCHANGED <<rows, state, staged>>

(* The save raises: at once on frozen content, and once nobody holds the   *)
(* lock any more on a version that is gone.                                *)
SaveRaises(s, r, change) ==
  \/ Rewrites(s, r, change)
  \/ ~IsLocked(s, r) /\ ~Matches(s, r)

AppendLine(s, line) ==
  /\ state[s] = "open"
  /\ line.session = s
  /\ staged' = [staged EXCEPT ![s] = @ \cup {line}]
  /\ UNCHANGED <<rows, state, loaded, written>>

----------------------------------------------------------------------------
Flushed(s) == [r \in Row |-> IF r \in written[s] THEN loaded[s][r] ELSE stored[r]]

EndHolding(s, how) ==                       \* wrong: the session is left open
  state' = [state EXCEPT ![s] = how] /\ UNCHANGED <<loaded, written, staged>>

(* The session is closed: it tracks nothing and holds no lock.             *)
End(s, how) ==
  /\ state' = [state EXCEPT ![s] = how]
  /\ loaded' = [loaded EXCEPT ![s] = [r \in Row |-> NotLoaded]]
  /\ written' = [written EXCEPT ![s] = {}]
  /\ staged' = [staged EXCEPT ![s] = {}]

(* The server commits, and says so or (the connection is lost) does not:   *)
(* the caller then sees an exception, and the rollback has nothing to undo. *)
Commit(s) ==
  /\ state[s] = "open"
  /\ stored' = Flushed(s)
  /\ ledger' = ledger \cup staged[s]
  /\ \E how \in {"committed", "failed"} : End(s, how)

AfterAnyExit(s) == Flushed(s)               \* wrong: an exit commits what is flushed
AfterExit(s) == stored

(* Leaving without a commit rolls back, whatever was flushed.              *)
RollBack(s) ==
  /\ state[s] = "open"
  /\ stored' = AfterExit(s)
  /\ End(s, "failed")
  /\ UNCHANGED ledger

(* What a Unit of Work can do, whoever owns it.                            *)
UnitsNext ==
  \E s \in Session :
    \/ Open(s) \/ Commit(s) \/ RollBack(s)
    \/ \E r \in Row : Load(s, r) \/ \E change \in Change : Save(s, r, change)
    \/ \E line \in AuditLine : AppendLine(s, line)

UnitsSpec == UnitsInit /\ [][UnitsNext]_<<rows, uow>>

----------------------------------------------------------------------------
UnitsTypeOK ==
  /\ stored \in [Row -> RowRecord]
  /\ state \in [Session -> {"idle", "open", "committed", "failed"}]
  /\ loaded \in [Session -> [Row -> RowRecord \cup {NotLoaded}]]
  /\ written \in [Session -> SUBSET Row]
  /\ \A s \in Session : \A r \in written[s] : IsLoaded(s, r)
  /\ ledger \subseteq AuditLine
  /\ staged \in [Session -> SUBSET AuditLine]
  /\ \A s \in Session : \A line \in staged[s] : line.session = s

(* What one Unit of Work wrote is there for good: another that read the    *)
(* row before cannot write over it (ConcurrencyConflictError).             *)
NothingIsLost == [][\A r \in Row : stored[r].by \subseteq stored'[r].by]_stored

(* A Work Package that has been submitted keeps its content, though the    *)
(* freeze is checked on the row as it was loaded.                          *)
ContentStaysFrozen ==
  [][\A r \in Row : stored[r].frozen =>
       stored'[r].frozen /\ stored'[r].content = stored[r].content]_stored

(* A commit that took many steps is one step to the reader.                *)
Atomic == INSTANCE AtomicStore
ImplementsAtomicStore == Atomic!Spec
=============================================================================
