--------------------------- MODULE UnitOfWorkProofs ---------------------------
(***************************************************************************)
(* Units of Work are atomic, for any number of sessions and rows and any   *)
(* callers.  The argument is the one optimistic locking rests on: a row    *)
(* that was read and still has its version is the row that was read        *)
(* (VersionsIdentifyRows), a flushed row is locked by one session          *)
(* (LocksExclude), and it is the stored row with that session's change     *)
(* (FlushesBuildOnStored), because the lock keeps the stored row as it is  *)
(* until the commit.                                                       *)
(***************************************************************************)
EXTENDS UnitOfWork, TLAPS

unitVars == <<rows, uow>>

LocksExclude ==
  \A s, t \in Session : s # t => written[s] \cap written[t] = {}

(* What b keeps of a, if s wrote b over a.                                 *)
BuildsOn(s, a, b) ==
  /\ b.version > a.version
  /\ b.by = a.by \cup {s}
  /\ a.content \subseteq b.content
  /\ a.frozen => b.frozen /\ b.content = a.content

FlushesBuildOnStored ==
  \A s \in Session : \A r \in written[s] : BuildsOn(s, stored[r], loaded[s][r])

VersionsIdentifyRows ==
  \A s \in Session : \A r \in Row :
    IsLoaded(s, r) /\ r \notin written[s] =>
      /\ loaded[s][r].version <= stored[r].version
      /\ loaded[s][r].version = stored[r].version => loaded[s][r] = stored[r]

ClosedHoldNothing ==
  \A s \in Session : state[s] # "open" =>
    /\ written[s] = {} /\ staged[s] = {}
    /\ \A r \in Row : ~IsLoaded(s, r)

StoreInv == LocksExclude /\ FlushesBuildOnStored /\ VersionsIdentifyRows /\ ClosedHoldNothing

----------------------------------------------------------------------------
LEMMA RowsAreRecords ==
  /\ NewRow \in RowRecord
  /\ NotLoaded.version = 0
  /\ \A x \in RowRecord : x.version \in Nat \ {0}
BY DEF NewRow, RowRecord, NotLoaded

LEMMA LoadedIsARow ==
  ASSUME UnitsTypeOK, NEW s \in Session, NEW r \in Row, IsLoaded(s, r)
  PROVE  /\ loaded[s][r] \in RowRecord
         /\ loaded[s][r].version \in Nat \ {0}
BY RowsAreRecords DEF UnitsTypeOK, IsLoaded

(* What a save flushes is a row, and builds on what it read.               *)
LEMMA ChangesBuild ==
  ASSUME UnitsTypeOK, NEW s \in Session, NEW r \in Row, NEW change \in Change,
         IsLoaded(s, r), ~Rewrites(s, r, change)
  PROVE  /\ Changed(s, r, change) \in RowRecord
         /\ BuildsOn(s, loaded[s][r], Changed(s, r, change))
<1>1. loaded[s][r] \in RowRecord
  BY LoadedIsARow
<1>2. Changed(s, r, change) \in RowRecord
  BY <1>1 DEF Changed, Token, RowRecord
<1>3. BuildsOn(s, loaded[s][r], Changed(s, r, change))
  BY <1>1 DEF BuildsOn, Changed, Token, RowRecord, Rewrites
<1>4. QED
  BY <1>2, <1>3

LEMMA BuildingIsTransitive ==
  ASSUME NEW s, NEW a \in RowRecord, NEW b \in RowRecord, NEW c \in RowRecord,
         BuildsOn(s, a, b), BuildsOn(s, b, c)
  PROVE  BuildsOn(s, a, c)
BY DEF BuildsOn, RowRecord

----------------------------------------------------------------------------
LEMMA UnitsTypesInit == UnitsInit => UnitsTypeOK
<1>1. SUFFICES ASSUME UnitsInit PROVE UnitsTypeOK
  OBVIOUS
<1>2. stored \in [Row -> RowRecord]
  BY <1>1, RowsAreRecords DEF UnitsInit
<1>3. loaded \in [Session -> [Row -> RowRecord \cup {NotLoaded}]]
  <2>1. [r \in Row |-> NotLoaded] \in [Row -> RowRecord \cup {NotLoaded}]
    OBVIOUS
  <2>2. QED
    BY <1>1, <2>1 DEF UnitsInit
<1>4. QED
  BY <1>1, <1>2, <1>3 DEF UnitsInit, UnitsTypeOK

LEMMA UnitsTypesNext == UnitsTypeOK /\ [UnitsNext]_unitVars => UnitsTypeOK'
<1>1. SUFFICES ASSUME UnitsTypeOK, [UnitsNext]_unitVars PROVE UnitsTypeOK'
  OBVIOUS
<1>2. CASE UNCHANGED unitVars
  BY <1>1, <1>2 DEF unitVars, rows, uow, UnitsTypeOK, IsLoaded
<1>3. ASSUME NEW s \in Session, Open(s) PROVE UnitsTypeOK'
  BY <1>1, <1>3 DEF Open, rows, UnitsTypeOK, IsLoaded
<1>4. ASSUME NEW s \in Session, Commit(s) PROVE UnitsTypeOK'
  <2>1. stored' \in [Row -> RowRecord]
    <3>1. \A r \in written[s] : loaded[s][r] \in RowRecord
      BY <1>1, LoadedIsARow DEF UnitsTypeOK
    <3>2. QED
      BY <1>1, <1>4, <3>1 DEF Commit, Flushed, UnitsTypeOK
  <2>2. QED
    BY <1>1, <1>4, <2>1 DEF Commit, End, UnitsTypeOK, IsLoaded
<1>5. ASSUME NEW s \in Session, RollBack(s) PROVE UnitsTypeOK'
  BY <1>1, <1>5 DEF RollBack, AfterExit, End, UnitsTypeOK, IsLoaded
<1>6. ASSUME NEW s \in Session, NEW r \in Row, Load(s, r) PROVE UnitsTypeOK'
  <2>1. stored[r].version # 0
    BY <1>1, RowsAreRecords DEF UnitsTypeOK
  <2>2. loaded' \in [Session -> [Row -> RowRecord \cup {NotLoaded}]]
    BY <1>1, <1>6 DEF Load, UnitsTypeOK
  <2>3. \A t \in Session : \A x \in written'[t] : loaded'[t][x].version # 0
    BY <1>1, <1>6, <2>1 DEF Load, UnitsTypeOK, IsLoaded
  <2>4. QED
    BY <1>1, <1>6, <2>2, <2>3 DEF Load, rows, UnitsTypeOK, IsLoaded
<1>7. ASSUME NEW s \in Session, NEW r \in Row, NEW change \in Change, Save(s, r, change)
      PROVE  UnitsTypeOK'
  <2>1. Changed(s, r, change) \in RowRecord
    BY <1>1, <1>7, ChangesBuild DEF Save
  <2>2. loaded' \in [Session -> [Row -> RowRecord \cup {NotLoaded}]]
    BY <1>1, <1>7, <2>1 DEF Save, UnitsTypeOK
  <2>3. \A t \in Session : \A x \in written'[t] : loaded'[t][x].version # 0
    <3>1. Changed(s, r, change).version # 0
      BY <2>1, RowsAreRecords
    <3>2. QED
      BY <1>1, <1>7, <3>1 DEF Save, UnitsTypeOK, IsLoaded
  <2>4. QED
    BY <1>1, <1>7, <2>2, <2>3 DEF Save, rows, UnitsTypeOK, IsLoaded
<1>8. ASSUME NEW s \in Session, NEW line \in AuditLine, AppendLine(s, line) PROVE UnitsTypeOK'
  BY <1>1, <1>8 DEF AppendLine, rows, UnitsTypeOK, IsLoaded
<1>9. QED
  BY <1>1, <1>2, <1>3, <1>4, <1>5, <1>6, <1>7, <1>8 DEF UnitsNext

----------------------------------------------------------------------------
LEMMA StoreInvInit == UnitsInit => StoreInv
<1>1. SUFFICES ASSUME UnitsInit PROVE StoreInv
  OBVIOUS
<1>2. \A s \in Session : written[s] = {} /\ staged[s] = {}
  BY <1>1 DEF UnitsInit
<1>3. \A s \in Session : \A r \in Row : ~IsLoaded(s, r)
  BY <1>1, RowsAreRecords DEF UnitsInit, IsLoaded
<1>4. QED
  BY <1>2, <1>3 DEF StoreInv, LocksExclude, FlushesBuildOnStored, VersionsIdentifyRows,
     ClosedHoldNothing

(* What a commit does to the stored rows, seen from outside.               *)
LEMMA CommitWrites ==
  ASSUME UnitsTypeOK, StoreInv, NEW s \in Session, Commit(s)
  PROVE  /\ \A r \in written[s] : BuildsOn(s, stored[r], stored'[r])
         /\ \A r \in Row \ written[s] : stored'[r] = stored[r]
<1>1. stored' = [r \in Row |-> IF r \in written[s] THEN loaded[s][r] ELSE stored[r]]
  BY DEF Commit, Flushed
<1>2. \A r \in written[s] : r \in Row /\ BuildsOn(s, stored[r], loaded[s][r])
  BY DEF UnitsTypeOK, StoreInv, FlushesBuildOnStored
<1>3. QED
  BY <1>1, <1>2

(* What a save flushes builds on the stored row: the first time because    *)
(* the version matched, and then because the row is locked.                *)
LEMMA SavesBuildOnStored ==
  ASSUME UnitsTypeOK, StoreInv, NEW s \in Session, NEW r \in Row, NEW change \in Change,
         Save(s, r, change)
  PROVE  BuildsOn(s, stored[r], Changed(s, r, change))
<1>1. IsLoaded(s, r) /\ ~Rewrites(s, r, change) /\ Matches(s, r)
  BY DEF Save
<1>2. /\ Changed(s, r, change) \in RowRecord
      /\ BuildsOn(s, loaded[s][r], Changed(s, r, change))
  BY <1>1, ChangesBuild
<1>3. stored[r] \in RowRecord /\ loaded[s][r] \in RowRecord
  BY <1>1, LoadedIsARow DEF UnitsTypeOK
<1>4. CASE r \in written[s]
  <2>1. BuildsOn(s, stored[r], loaded[s][r])
    BY <1>4 DEF StoreInv, FlushesBuildOnStored
  <2>2. QED
    BY <1>2, <1>3, <2>1, BuildingIsTransitive
<1>5. CASE r \notin written[s]
  <2>1. loaded[s][r].version = stored[r].version
    BY <1>1, <1>5 DEF Matches, Token
  <2>2. loaded[s][r] = stored[r]
    BY <1>1, <1>5, <2>1 DEF StoreInv, VersionsIdentifyRows
  <2>3. QED
    BY <1>2, <2>2
<1>6. QED
  BY <1>4, <1>5

(* A session that ends gives everything back, and disturbs no other.       *)
LEMMA EndingReleases ==
  ASSUME UnitsTypeOK, NEW s \in Session, NEW how, End(s, how)
  PROVE  /\ written'[s] = {} /\ staged'[s] = {}
         /\ \A r \in Row : loaded'[s][r].version = 0
         /\ \A t \in Session \ {s} : /\ state'[t] = state[t] /\ loaded'[t] = loaded[t]
                                     /\ written'[t] = written[t] /\ staged'[t] = staged[t]
<1>1. written'[s] = {} /\ loaded'[s] = [r \in Row |-> NotLoaded]
  BY DEF End, UnitsTypeOK
<1>2. staged'[s] = {}
  BY DEF End, UnitsTypeOK
<1>3. \A r \in Row : loaded'[s][r].version = 0
  BY <1>1, RowsAreRecords
<1>4. \A t \in Session \ {s} : /\ state'[t] = state[t] /\ loaded'[t] = loaded[t]
                              /\ written'[t] = written[t] /\ staged'[t] = staged[t]
  BY DEF End, UnitsTypeOK
<1>5. QED
  BY <1>1, <1>2, <1>3, <1>4

LEMMA StoreInvNext == UnitsTypeOK /\ StoreInv /\ [UnitsNext]_unitVars => StoreInv'
<1>1. SUFFICES ASSUME UnitsTypeOK, StoreInv, [UnitsNext]_unitVars PROVE StoreInv'
  OBVIOUS
<1> USE DEF StoreInv
<1>2. CASE UNCHANGED unitVars
  BY <1>1, <1>2 DEF unitVars, rows, uow, LocksExclude, FlushesBuildOnStored,
     VersionsIdentifyRows, ClosedHoldNothing, IsLoaded
<1>3. ASSUME NEW s \in Session, Open(s) PROVE StoreInv'
  BY <1>1, <1>3 DEF Open, rows, UnitsTypeOK, LocksExclude, FlushesBuildOnStored,
     VersionsIdentifyRows, ClosedHoldNothing, IsLoaded
<1>4. ASSUME NEW s \in Session, Commit(s) PROVE StoreInv'
  <2>1. /\ written'[s] = {} /\ staged'[s] = {}
        /\ \A r \in Row : loaded'[s][r].version = 0
        /\ \A t \in Session \ {s} : /\ state'[t] = state[t] /\ loaded'[t] = loaded[t]
                                    /\ written'[t] = written[t] /\ staged'[t] = staged[t]
    <3>1. PICK how : End(s, how)
      BY <1>4 DEF Commit
    <3>2. QED
      BY <1>1, <3>1, EndingReleases
  <2>2. /\ \A r \in written[s] : BuildsOn(s, stored[r], stored'[r])
        /\ \A r \in Row \ written[s] : stored'[r] = stored[r]
    BY <1>1, <1>4, CommitWrites
  <2>3. LocksExclude'
    BY <1>1, <2>1 DEF LocksExclude
  <2>4. FlushesBuildOnStored'
    <3>1. SUFFICES ASSUME NEW t \in Session, NEW r \in written'[t]
                   PROVE  BuildsOn(t, stored'[r], loaded'[t][r])
      BY DEF FlushesBuildOnStored, BuildsOn
    <3>2. t # s /\ r \in written[t] /\ r \in Row
      BY <1>1, <2>1, <3>1 DEF UnitsTypeOK
    <3>3. r \notin written[s]
      BY <1>1, <3>2 DEF LocksExclude
    <3>4. stored'[r] = stored[r] /\ loaded'[t] = loaded[t]
      BY <2>1, <2>2, <3>2, <3>3
    <3>5. BuildsOn(t, stored[r], loaded[t][r])
      BY <1>1, <3>2 DEF FlushesBuildOnStored
    <3>6. QED
      BY <3>4, <3>5
  <2>5. VersionsIdentifyRows'
    <3>1. SUFFICES ASSUME NEW t \in Session, NEW r \in Row,
                          loaded'[t][r].version # 0, r \notin written'[t]
                   PROVE  /\ loaded'[t][r].version <= stored'[r].version
                          /\ loaded'[t][r].version = stored'[r].version =>
                               loaded'[t][r] = stored'[r]
      BY DEF VersionsIdentifyRows, IsLoaded
    <3>2. t # s /\ loaded'[t] = loaded[t] /\ r \notin written[t] /\ loaded[t][r].version # 0
      BY <2>1, <3>1
    <3>3. /\ loaded[t][r].version <= stored[r].version
          /\ loaded[t][r].version = stored[r].version => loaded[t][r] = stored[r]
      BY <1>1, <3>2 DEF VersionsIdentifyRows, IsLoaded
    <3>4. CASE r \in written[s]
      <4>1. stored'[r].version > stored[r].version
        BY <2>2, <3>4 DEF BuildsOn
      <4>2. loaded[t][r].version \in Nat /\ stored[r].version \in Nat /\ stored'[r].version \in Nat
        <5>1. UnitsTypeOK'
          BY <1>1, UnitsTypesNext
        <5>2. stored[r] \in RowRecord /\ stored'[r] \in RowRecord
          BY <1>1, <5>1 DEF UnitsTypeOK
        <5>3. IsLoaded(t, r)
          BY <3>2 DEF IsLoaded
        <5>4. QED
          BY <1>1, <5>2, <5>3, LoadedIsARow, RowsAreRecords
      <4>3. QED
        BY <3>2, <3>3, <4>1, <4>2
    <3>5. CASE r \notin written[s]
      BY <2>2, <3>2, <3>3, <3>5
    <3>6. QED
      BY <3>4, <3>5
  <2>6. ClosedHoldNothing'
    BY <1>1, <2>1 DEF ClosedHoldNothing, IsLoaded
  <2>7. QED
    BY <2>3, <2>4, <2>5, <2>6
<1>5. ASSUME NEW s \in Session, RollBack(s) PROVE StoreInv'
  <2>1. /\ stored' = stored
        /\ written'[s] = {} /\ staged'[s] = {}
        /\ \A r \in Row : loaded'[s][r].version = 0
        /\ \A t \in Session \ {s} : /\ state'[t] = state[t] /\ loaded'[t] = loaded[t]
                                    /\ written'[t] = written[t] /\ staged'[t] = staged[t]
    BY <1>1, <1>5, EndingReleases DEF RollBack, AfterExit
  <2>2. LocksExclude'
    BY <1>1, <2>1 DEF LocksExclude
  <2>3. FlushesBuildOnStored'
    BY <1>1, <2>1 DEF FlushesBuildOnStored
  <2>4. VersionsIdentifyRows'
    BY <1>1, <2>1 DEF VersionsIdentifyRows, IsLoaded
  <2>5. ClosedHoldNothing'
    BY <1>1, <2>1 DEF ClosedHoldNothing, IsLoaded
  <2>6. QED
    BY <2>2, <2>3, <2>4, <2>5
<1>6. ASSUME NEW s \in Session, NEW r \in Row, Load(s, r) PROVE StoreInv'
  <2>1. /\ stored' = stored /\ written' = written /\ staged' = staged /\ state' = state
        /\ loaded'[s][r] = stored[r] /\ state[s] = "open" /\ r \notin written[s]
        /\ \A t \in Session : \A x \in Row :
             t # s \/ x # r => loaded'[t][x] = loaded[t][x]
    BY <1>1, <1>6 DEF Load, rows, UnitsTypeOK
  <2>2. LocksExclude'
    BY <1>1, <2>1 DEF LocksExclude
  <2>3. FlushesBuildOnStored'
    BY <1>1, <2>1 DEF FlushesBuildOnStored, UnitsTypeOK
  <2>4. VersionsIdentifyRows'
    <3>1. stored[r].version \in Nat
      BY <1>1, RowsAreRecords DEF UnitsTypeOK
    <3>2. QED
      BY <1>1, <2>1, <3>1 DEF VersionsIdentifyRows, IsLoaded
  <2>5. ClosedHoldNothing'
    BY <1>1, <2>1 DEF ClosedHoldNothing, IsLoaded
  <2>6. QED
    BY <2>2, <2>3, <2>4, <2>5
<1>7. ASSUME NEW s \in Session, NEW r \in Row, NEW change \in Change, Save(s, r, change)
      PROVE  StoreInv'
  <2> DEFINE new == Changed(s, r, change)
  <2>1. BuildsOn(s, stored[r], new)
    BY <1>1, <1>7, SavesBuildOnStored
  <2> HIDE DEF new
  <2>2. /\ stored' = stored /\ staged' = staged /\ state' = state
        /\ loaded'[s][r] = new /\ state[s] = "open"
        /\ \A t \in Session \ {s} : r \notin written[t]
        /\ written'[s] = written[s] \cup {r}
        /\ \A t \in Session \ {s} : written'[t] = written[t]
        /\ \A t \in Session : \A x \in Row :
             t # s \/ x # r => loaded'[t][x] = loaded[t][x]
    BY <1>1, <1>7 DEF Save, rows, UnitsTypeOK, IsLocked, new
  <2>3. LocksExclude'
    BY <1>1, <2>2 DEF LocksExclude
  <2>4. FlushesBuildOnStored'
    BY <1>1, <2>1, <2>2 DEF FlushesBuildOnStored, UnitsTypeOK
  <2>5. VersionsIdentifyRows'
    BY <1>1, <2>2 DEF VersionsIdentifyRows, IsLoaded
  <2>6. ClosedHoldNothing'
    BY <1>1, <2>2 DEF ClosedHoldNothing, IsLoaded
  <2>7. QED
    BY <2>3, <2>4, <2>5, <2>6
<1>8. ASSUME NEW s \in Session, NEW line \in AuditLine, AppendLine(s, line) PROVE StoreInv'
  BY <1>1, <1>8 DEF AppendLine, rows, UnitsTypeOK, LocksExclude, FlushesBuildOnStored,
     VersionsIdentifyRows, ClosedHoldNothing, IsLoaded
<1>9. QED
  BY <1>1, <1>2, <1>3, <1>4, <1>5, <1>6, <1>7, <1>8 DEF UnitsNext

----------------------------------------------------------------------------
(* Every variable stays what its comment says it is.                       *)
THEOREM UnitsTypes == UnitsSpec => []UnitsTypeOK
BY UnitsTypesInit, UnitsTypesNext, PTL DEF UnitsSpec, unitVars

LEMMA StoreIsSound == UnitsSpec => [](UnitsTypeOK /\ StoreInv)
BY UnitsTypesInit, UnitsTypesNext, StoreInvInit, StoreInvNext, PTL DEF UnitsSpec, unitVars

(* Every step is a transaction of the abstract store, or none.             *)
LEMMA StepsAreAtomic ==
  ASSUME UnitsTypeOK, StoreInv, [UnitsNext]_unitVars
  PROVE  [Atomic!Next]_<<stored, ledger>>
<1>1. ASSUME NEW s \in Session, Commit(s) PROVE Atomic!Transact(s)
  <2>1. /\ \A r \in written[s] : BuildsOn(s, stored[r], stored'[r])
        /\ \A r \in Row \ written[s] : stored'[r] = stored[r]
    BY <1>1, CommitWrites
  <2>2. written[s] \in SUBSET Row
    BY DEF UnitsTypeOK
  <2>3. \A r \in written[s] : Atomic!Rewritten(s, r)
    BY <2>1 DEF BuildsOn, Atomic!Rewritten
  <2>4. DOMAIN stored' = Row
    BY <1>1 DEF Commit, Flushed
  <2>5. ledger \subseteq ledger' /\ \A line \in ledger' \ ledger : line.session = s
    BY <1>1 DEF Commit, UnitsTypeOK
  <2>6. QED
    BY <2>1, <2>2, <2>3, <2>4, <2>5 DEF Atomic!Transact
<1>2. ASSUME ~(\E s \in Session : Commit(s)) PROVE UNCHANGED <<stored, ledger>>
  BY <1>2 DEF UnitsNext, unitVars, rows, Open, RollBack, AfterExit, Load, Save, AppendLine
<1>3. QED
  BY <1>1, <1>2 DEF Atomic!Next

(* What one Unit of Work wrote is there for good: whoever read the row     *)
(* before finds another version and raises ConcurrencyConflictError.       *)
THEOREM NoUpdateIsLost == UnitsSpec => NothingIsLost
<1>1. UnitsTypeOK /\ StoreInv /\ [UnitsNext]_unitVars
        => [\A r \in Row : stored[r].by \subseteq stored'[r].by]_stored
  BY StepsAreAtomic DEF Atomic!Next, Atomic!Transact, Atomic!Rewritten
<1>2. QED
  BY <1>1, StoreIsSound, PTL DEF UnitsSpec, NothingIsLost, unitVars

(* A submitted Work Package keeps its content, though the freeze is        *)
(* checked on the row as it was loaded.                                    *)
THEOREM FrozenContentStays == UnitsSpec => ContentStaysFrozen
<1>1. UnitsTypeOK /\ StoreInv /\ [UnitsNext]_unitVars
        => [\A r \in Row : stored[r].frozen =>
              stored'[r].frozen /\ stored'[r].content = stored[r].content]_stored
  BY StepsAreAtomic DEF Atomic!Next, Atomic!Transact, Atomic!Rewritten
<1>2. QED
  BY <1>1, StoreIsSound, PTL DEF UnitsSpec, ContentStaysFrozen, unitVars

(* A Unit of Work of many flushes is one step to whoever reads the         *)
(* database, for any number of sessions and rows and whatever they save.   *)
THEOREM UnitsAreAtomic == UnitsSpec => ImplementsAtomicStore
<1>1. UnitsInit => Atomic!Init
  BY DEF UnitsInit, Atomic!Init
<1>2. UnitsTypeOK /\ StoreInv /\ [UnitsNext]_unitVars => [Atomic!Next]_<<stored, ledger>>
  BY StepsAreAtomic
<1>3. QED
  BY <1>1, <1>2, StoreIsSound, PTL DEF UnitsSpec, ImplementsAtomicStore, Atomic!Spec, unitVars
=============================================================================
