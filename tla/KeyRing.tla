------------------------------ MODULE KeyRing ------------------------------
(***************************************************************************)
(* What the key table field_crypto_keys promises: the rows other           *)
(* transactions can see, and the four changes an operation may make to     *)
(* them, each in one atomic step.  The rows, their CHECK constraints and   *)
(* the SET clauses of the queries are the operators of the first half;     *)
(* KeyAdmin runs the same clauses statement by statement and implements    *)
(* the specification of the second half.                                   *)
(***************************************************************************)
EXTENDS Integers, FiniteSets

CONSTANTS
  NULL,         \* SQL NULL: an absent instant, number of days or material
  Materials,    \* the 32-byte key materials in play
  Versions,     \* the identity values the version column may draw
  RequestDays,  \* the numbers a grace_period_days member may hold
  MaxGraceDays, \* maxGracePeriodDays
  Day,          \* clock ticks of INTERVAL '1 day'
  MaxClock      \* bound: the clock stops here

ASSUME NullAssumption == NULL \notin Int /\ NULL \notin Materials
ASSUME VersionsAssumption == Versions \subseteq Nat \ {0}
ASSUME DaysAssumption == RequestDays \subseteq Int /\ MaxGraceDays \in Nat /\ Day \in Nat \ {0}
ASSUME ClockAssumption == MaxClock \in Nat

Instant == Nat \cup {NULL}

(* A row, without the bookkeeping columns created_at and updated_at. *)
KeyRow == [material : Materials, retired : Instant, until : Instant, compromised : Instant]

FreshRow(m) == [material |-> m, retired |-> NULL, until |-> NULL, compromised |-> NULL]

IsActive(row) == row.retired = NULL

(* The two CHECK constraints on the lifecycle columns.  (Definitions that   *)
(* only mutation uses stand directly before the one they replace.)         *)
RetiredOnlyFlags(row) == IsActive(row) => row.until = NULL /\ row.compromised = NULL
GraceStrictlyAfter(row) == row.until # NULL /\ row.retired # NULL => row.until > row.retired
GraceAfterRetirement(row) == row.until # NULL /\ row.retired # NULL => row.until >= row.retired
RowChecks(row) == RetiredOnlyFlags(row) /\ GraceAfterRetirement(row)

(* now() + grace_days * INTERVAL '1 day', NULL when the number is. *)
Deadline(at, days) == IF days = NULL THEN NULL ELSE at + days * Day

(* The SET clauses.  `at` is the now() of the transaction: when it began. *)
RetiredRow(row, at, days, compromised) ==
  [row EXCEPT !.retired = at,
              !.until = Deadline(at, days),
              !.compromised = IF compromised THEN at ELSE NULL]
ReflaggedRow(row, at) == [row EXCEPT !.compromised = at]
FlaggedRow(row, at) == [row EXCEPT !.compromised = IF @ = NULL THEN at ELSE @]
GraceRow(row, at, days) == [row EXCEPT !.until = Deadline(at, days)]

(* A table is a function from the versions on file to their rows. *)
NoRows == [v \in {} |-> NULL]
Put(table, v, row) == [w \in DOMAIN table \cup {v} |-> IF w = v THEN row ELSE table[w]]
Active(table) == {v \in DOMAIN table : IsActive(table[v])}
Usable(table, now) ==
  {v \in DOMAIN table : \/ IsActive(table[v])
                        \/ table[v].until = NULL
                        \/ table[v].until > now}
OnFile(table) == {table[v].material : v \in DOMAIN table}
IsTable(table) == table \in [DOMAIN table -> KeyRow] /\ DOMAIN table \subseteq Versions

(* The grace periods and rotation requests the handler lets through. *)
AllowedDays == {NULL} \cup {d \in RequestDays : 0 <= d /\ d <= MaxGraceDays}
RotationTerms ==
  {r \in [days : {NULL} \cup RequestDays, compromised : BOOLEAN] :
     /\ r.compromised => r.days = NULL
     /\ r.days # NULL => r.days >= 1
     /\ r.days \in AllowedDays}

-----------------------------------------------------------------------------

VARIABLES
  keys,   \* the committed rows
  clock   \* the database clock

ringVars == <<keys, clock>>

RingInit == keys = NoRows /\ clock = 0

NewestVersion(v) == \A w \in DOMAIN keys : w < v

(* The first process on an empty table establishes the first key. *)
Bootstrap ==
  /\ DOMAIN keys = {}
  /\ \E v \in Versions, m \in Materials : keys' = Put(keys, v, FreshRow(m))
  /\ UNCHANGED clock

(* A rotation demotes the active key and activates a newer one made of     *)
(* material the table has never held.  `at` is when its transaction began. *)
Rotate(at) ==
  /\ \E old \in Active(keys), new \in Versions, m \in Materials \ OnFile(keys),
        terms \in RotationTerms :
       /\ NewestVersion(new)
       /\ keys' = Put(Put(keys, old, RetiredRow(keys[old], at, terms.days, terms.compromised)),
                      new, FreshRow(m))
  /\ UNCHANGED clock

MarkCompromised(at) ==
  /\ \E v \in DOMAIN keys \ Active(keys) :
       keys' = Put(keys, v, FlaggedRow(keys[v], at))
  /\ UNCHANGED clock

SetGrace(at) ==
  /\ \E v \in DOMAIN keys \ Active(keys), days \in AllowedDays :
       LET row == GraceRow(keys[v], at, days)
       IN  RowChecks(row) /\ keys' = Put(keys, v, row)
  /\ UNCHANGED clock

Tick == clock < MaxClock /\ clock' = clock + 1 /\ UNCHANGED keys

RingNext ==
  \/ Bootstrap
  \/ \E at \in 0..clock : Rotate(at) \/ MarkCompromised(at) \/ SetGrace(at)
  \/ Tick

RingSpec == RingInit /\ [][RingNext]_ringVars
=============================================================================
