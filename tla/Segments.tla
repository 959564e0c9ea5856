------------------------------ MODULE Segments ------------------------------
(***************************************************************************)
(* Drives and charges, derived on every read from one vehicle's rows       *)
(* (backend/app/history/segments.py).  A row has a number, or Missing, for *)
(* each thing segments.py reads of it, 1 and 0 for a boolean; of a segment *)
(* its rows and times are kept, and none of the figures reported with it.  *)
(***************************************************************************)
EXTENDS Integers, SequencesExt

CONSTANTS
  RowKind,  \* what a row may say, whenever
  Gap,      \* times from one row to the next
  MaxRow    \* bound: rows of the vehicle

(* A row has a boolean or a number, or Missing, for each thing read of it; *)
(* the units are such that no number read is -1.                           *)
Missing == -1
SegmentRow == [at : Nat, active : {Missing, 0, 1}, inUse : {Missing, 0, 1}, agentInUse : {Missing, 0, 1},
               ready : {Missing, 0, 1}, power : Int, state : Int, speed : Int, place : Int, odometer : Int]
ASSUME RowAssumption == RowKind \subseteq SegmentRow /\ Gap \subseteq Nat

VARIABLE rows   \* in the order of recorded_at, sequence and id

JoinGap == 3        \* JOIN_GAP, in units of
MinimumSegment == 1 \* MINIMUM_SEGMENT
PowerFloor == 1     \* CHARGING_POWER_FLOOR_KW, in units of it

SegmentsInit == rows = <<>>

Record_row(kind, gap) ==
  /\ Len(rows) < MaxRow
  /\ rows' = Append(rows, [kind EXCEPT !.at = IF rows = <<>> THEN 0 ELSE Last(rows).at + gap])

SegmentsNext == \E kind \in RowKind, gap \in Gap : Record_row(kind, gap)
SegmentsSpec == SegmentsInit /\ [][SegmentsNext]_rows

-----------------------------------------------------------------------------
(* _charge_signal: the state, or else the power, or else nothing.          *)
ChargeSignal(r) ==
  IF r.active # Missing THEN r.active
  ELSE IF r.power # Missing THEN (IF r.power >= PowerFloor THEN 1 ELSE 0)
  ELSE Missing

(* Mutation only: a vehicle in use is driving, plugged in or not.          *)
DriveSignal_charging(r) ==
  IF r.inUse # Missing THEN r.inUse
  ELSE IF r.agentInUse # Missing THEN r.agentInUse
  ELSE r.ready

(* _drive_signal: a charge is never a drive; then what the vehicle, the    *)
(* agent and the ignition say, in that order.                              *)
DriveSignal(r) ==
  IF ChargeSignal(r) = 1 THEN 0
  ELSE IF r.inUse # Missing THEN r.inUse
  ELSE IF r.agentInUse # Missing THEN r.agentInUse
  ELSE r.ready

(* _drive_evidence of a row that has no signal.                            *)
Moving(index) ==
  LET r == rows[index]
  IN  \/ r.state = 1
      \/ r.speed > 1
      \/ /\ r.active = 0
         /\ index > 1
         /\ r.place # Missing /\ rows[index - 1].place # Missing
         /\ r.place # rows[index - 1].place

Active(index) ==
  \/ DriveSignal(rows[index]) = 1
  \/ DriveSignal(rows[index]) = Missing /\ Moving(index)

(* The drive being gathered: its first and its last active row, or none,   *)
(* and whether a signal says that it goes on.                              *)
Parked == [first |-> 0, last |-> 0, bounded |-> FALSE]

(* Mutation only: the gap rule splits every drive.                         *)
Splits_always(drive, index) ==
  drive.first # 0 /\ rows[index].at - rows[drive.last].at >= JoinGap

(* Only a drive that no signal keeps open ends in a gap.                   *)
Splits(drive, index) ==
  /\ drive.first # 0 /\ ~drive.bounded
  /\ rows[index].at - rows[drive.last].at >= JoinGap

Ended(drive, until) == IF drive.first = 0 THEN <<>> ELSE <<[first |-> drive.first, last |-> until]>>

(* One row of _drive_groups.                                               *)
GatherDrive(acc, index) ==
  LET drive == acc.drive
      split == Splits(drive, index)
  IN  IF DriveSignal(rows[index]) = 0
      THEN [groups |-> acc.groups \o Ended(drive, IF drive.bounded THEN index ELSE drive.last),
            drive |-> Parked]
      ELSE IF ~Active(index) THEN acc
      ELSE [groups |-> acc.groups \o (IF split THEN Ended(drive, drive.last) ELSE <<>>),
            drive  |-> [first   |-> IF drive.first = 0 \/ split THEN index ELSE drive.first,
                        last    |-> index,
                        bounded |-> drive.bounded \/ DriveSignal(rows[index]) = 1]]

(* _drive_groups, each as the indices of its first and last row.           *)
DriveScan[index \in 0..Len(rows)] ==
  IF index = 0 THEN [groups |-> <<>>, drive |-> Parked] ELSE GatherDrive(DriveScan[index - 1], index)
DriveGroups ==
  LET ended == DriveScan[Len(rows)] IN ended.groups \o Ended(ended.drive, ended.drive.last)

(* _charge_groups: the reading that ends a charge belongs to it.           *)
NoCharge == [first |-> 0, last |-> 0]
GatherCharge(acc, index) ==
  LET charge == acc.charge
  IN  IF ChargeSignal(rows[index]) = 1
      THEN [groups |-> acc.groups,
            charge |-> [first |-> IF charge.first = 0 THEN index ELSE charge.first, last |-> index]]
      ELSE IF ChargeSignal(rows[index]) = 0
      THEN [groups |-> acc.groups \o Ended(charge, index), charge |-> NoCharge]
      ELSE acc
ChargeScan[index \in 0..Len(rows)] ==
  IF index = 0 THEN [groups |-> <<>>, charge |-> NoCharge] ELSE GatherCharge(ChargeScan[index - 1], index)
ChargeGroups ==
  LET ended == ChargeScan[Len(rows)] IN ended.groups \o Ended(ended.charge, ended.charge.last)

(* _has_motion and _metric_edges: the odometer advances between the first  *)
(* and the last row that has it, a row has speed, or the place changes     *)
(* between rows that have one.                                             *)
HasMotion(g) ==
  LET within == g.first..g.last
      With(field(_)) == {i \in within : field(rows[i]) # Missing}
      odo == With(LAMBDA r : r.odometer)
  IN  \/ \E i, j \in odo : /\ \A k \in odo : i <= k /\ k <= j
                           /\ rows[j].odometer > rows[i].odometer
      \/ \E i \in within : rows[i].speed > 1
      \/ \E i, j \in With(LAMBDA r : r.place) : rows[i].place # rows[j].place

LongEnough(g) == rows[g.last].at - rows[g.first].at >= MinimumSegment

(* _drive_segment and _charge_segment keep a group or drop it.             *)
Drives == {g \in ToSet(DriveGroups) : LongEnough(g) /\ HasMotion(g)}
Charges == {g \in ToSet(ChargeGroups) : LongEnough(g)}

-----------------------------------------------------------------------------
(* A signal dates a drive ("recorded in-use state keeps traffic stops      *)
(* inside one drive and closes it on a parked reading",                    *)
(* architecture.md:147): whatever lies between two readings in use with no *)
(* parked one between them is one drive with them, a parked reading is at  *)
(* most the last row of a drive, and drives follow each other in time.     *)
DrivesFollowLifecycle ==
  LET groups == DriveGroups
      Signal(i) == DriveSignal(rows[i])
  IN  /\ \A i, j \in DOMAIN rows :
           i <= j /\ Signal(i) = 1 /\ Signal(j) = 1 /\ (\A k \in i..j : Signal(k) # 0)
             => \E n \in DOMAIN groups : groups[n].first <= i /\ j <= groups[n].last
      /\ \A n \in DOMAIN groups :
           /\ \A i \in groups[n].first..(groups[n].last - 1) : Signal(i) # 0
           /\ Signal(groups[n].last) = 0 => \E i \in groups[n].first..groups[n].last : Signal(i) = 1
           /\ n > 1 => groups[n - 1].last < groups[n].first

(* A drive and a charge of one list of rows share no time beyond the       *)
(* reading that ends the one and starts the other ("A charge is never a    *)
(* drive", segments.py:45), unless the charge has a reading inside it that *)
(* does not say whether the vehicle charges: it stays one charge across    *)
(* such readings, and what the vehicle does there is read as a drive.      *)
DrivesApartFromCharges ==
  \A d \in Drives, c \in Charges :
    \/ rows[d.last].at <= rows[c.first].at
    \/ rows[c.last].at <= rows[d.first].at
    \/ \E i \in c.first..c.last : ChargeSignal(rows[i]) = Missing
=============================================================================
