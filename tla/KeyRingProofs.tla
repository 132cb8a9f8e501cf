---------------------------- MODULE KeyRingProofs ----------------------------
(***************************************************************************)
(* What the SET clauses make of a row and Put of a table: the lemmas that  *)
(* the proofs about KeyAdmin and RotateOnRead share.                       *)
(***************************************************************************)
EXTENDS KeyRing, TLAPS

(* Tables *)

LEMMA PutTable ==
  ASSUME NEW t, IsTable(t), NEW v \in Versions, NEW row \in KeyRow
  PROVE  IsTable(Put(t, v, row))
BY DEF IsTable, Put

LEMMA PutFacts ==
  ASSUME NEW t, NEW v, NEW row
  PROVE  /\ DOMAIN Put(t, v, row) = DOMAIN t \cup {v} /\ Put(t, v, row)[v] = row
         /\ \A u \in DOMAIN t : u # v => Put(t, v, row)[u] = t[u]
BY DEF Put

LEMMA OnRow ==
  ASSUME NEW t, NEW v \in DOMAIN t, NEW row
  PROVE  /\ DOMAIN Put(t, v, row) = DOMAIN t /\ Put(t, v, row)[v] = row
         /\ \A u \in DOMAIN t : u # v => Put(t, v, row)[u] = t[u]
<1>1. DOMAIN t \cup {v} = DOMAIN t
  OBVIOUS
<1>2. DOMAIN Put(t, v, row) = DOMAIN t \cup {v}
  BY PutFacts
<1>3. DOMAIN Put(t, v, row) = DOMAIN t
  BY <1>1, <1>2, Zenon
<1>. QED
  BY <1>3 DEF Put

LEMMA NoRowsDomain == DOMAIN NoRows = {}
BY DEF NoRows

LEMMA NoRowsTable == IsTable(NoRows)
BY DEF IsTable, NoRows

-----------------------------------------------------------------------------
(* Rows *)

(* A deadline is an instant: the days let through are not negative. *)
LEMMA DeadlineInstant ==
  ASSUME NEW at \in Nat, NEW days \in AllowedDays
  PROVE  Deadline(at, days) \in Instant
<1>1. CASE days = NULL
  BY <1>1 DEF Deadline, Instant
<1>2. CASE days # NULL
  <2>1. days \in RequestDays /\ 0 <= days
    BY <1>2 DEF AllowedDays
  <2>2. days \in Nat /\ Day \in Nat
    BY <2>1, DaysAssumption
  <2>3. days * Day \in Nat
    BY <2>2
  <2>4. at + days * Day \in Nat
    BY <2>3
  <2>. QED
    BY <1>2, <2>4 DEF Deadline, Instant
<1>. QED
  BY <1>1, <1>2

LEMMA RowTypes ==
  ASSUME NEW row \in KeyRow, NEW at \in Nat, NEW days \in AllowedDays, NEW c \in BOOLEAN
  PROVE  /\ RetiredRow(row, at, days, c) \in KeyRow /\ ~IsActive(RetiredRow(row, at, days, c))
         /\ FlaggedRow(row, at) \in KeyRow /\ (IsActive(FlaggedRow(row, at)) <=> IsActive(row))
         /\ GraceRow(row, at, days) \in KeyRow
         /\ (IsActive(GraceRow(row, at, days)) <=> IsActive(row))
<1>1. Deadline(at, days) \in Instant
  BY DeadlineInstant
<1>3. RetiredRow(row, at, days, c) \in KeyRow /\ ~IsActive(RetiredRow(row, at, days, c))
  <2>1. at \in Instant /\ NULL \in Instant /\ at # NULL
    BY NullAssumption DEF Instant
  <2>2. (IF c THEN at ELSE NULL) \in Instant
    BY <2>1
  <2>3. RetiredRow(row, at, days, c) \in KeyRow /\ RetiredRow(row, at, days, c).retired = at
    BY <1>1, <2>1, <2>2 DEF RetiredRow, KeyRow
  <2>. QED
    BY <2>1, <2>3 DEF IsActive
<1>4. FlaggedRow(row, at) \in KeyRow /\ (IsActive(FlaggedRow(row, at)) <=> IsActive(row))
  BY DEF FlaggedRow, KeyRow, IsActive, Instant
<1>5. GraceRow(row, at, days) \in KeyRow /\ (IsActive(GraceRow(row, at, days)) <=> IsActive(row))
  BY <1>1 DEF GraceRow, KeyRow, IsActive
<1>. QED
  BY <1>3, <1>4, <1>5

LEMMA FreshRowTypes ==
  ASSUME NEW m \in Materials
  PROVE  FreshRow(m) \in KeyRow /\ IsActive(FreshRow(m))
BY DEF FreshRow, KeyRow, IsActive, Instant

LEMMA RetiredRowSound ==
  ASSUME NEW row \in KeyRow, NEW at \in Nat, NEW days \in AllowedDays, NEW c \in BOOLEAN
  PROVE  /\ RowChecks(RetiredRow(row, at, days, c))
         /\ RetiredRow(row, at, days, c).material = row.material
<1>. DEFINE new == RetiredRow(row, at, days, c)
<1>1. new.retired = at /\ new.until = Deadline(at, days) /\ new.material = row.material
  BY DEF RetiredRow, KeyRow
<1>2. at # NULL
  BY NullAssumption
<1>3. Deadline(at, days) # NULL => Deadline(at, days) >= at
  <2>1. SUFFICES ASSUME days # NULL PROVE Deadline(at, days) >= at
    BY DEF Deadline
  <2>2. days \in RequestDays /\ 0 <= days
    BY <2>1 DEF AllowedDays
  <2>3. days \in Nat /\ Day \in Nat
    BY <2>2, DaysAssumption
  <2>4. days * Day \in Nat
    BY <2>3
  <2>5. at + days * Day >= at
    BY <2>4
  <2>. QED
    BY <2>1, <2>5 DEF Deadline
<1>. HIDE DEF new
<1>4. RowChecks(new)
  BY <1>1, <1>2, <1>3 DEF RowChecks, RetiredOnlyFlags, GraceAfterRetirement, IsActive
<1>. QED
  BY <1>1, <1>4 DEF new

LEMMA FlaggedRowSound ==
  ASSUME NEW row \in KeyRow, NEW at \in Nat, ~IsActive(row)
  PROVE  /\ RowChecks(row) => RowChecks(FlaggedRow(row, at))
         /\ FlaggedRow(row, at).material = row.material
         /\ FlaggedRow(row, at).retired = row.retired
         /\ row.compromised # NULL => FlaggedRow(row, at).compromised = row.compromised
BY DEF FlaggedRow, KeyRow, RowChecks, RetiredOnlyFlags, GraceAfterRetirement, IsActive

LEMMA GraceRowKeeps ==
  ASSUME NEW row \in KeyRow, NEW at, NEW days
  PROVE  /\ GraceRow(row, at, days).material = row.material
         /\ GraceRow(row, at, days).retired = row.retired
         /\ GraceRow(row, at, days).compromised = row.compromised
BY DEF GraceRow, KeyRow

LEMMA FreshRowSound ==
  ASSUME NEW m
  PROVE  RowChecks(FreshRow(m)) /\ IsActive(FreshRow(m)) /\ FreshRow(m).material = m
BY DEF FreshRow, RowChecks, RetiredOnlyFlags, GraceAfterRetirement, IsActive
==============================================================================
