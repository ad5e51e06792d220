------------------------------ MODULE BinlogScan ------------------------------
(***************************************************************************)
(* How a recovery turns a wall-clock target into a transaction             *)
(* (scan_binlog_for_gtid and find_gtid_by_time in restore_pitr_84.py).     *)
(*                                                                         *)
(* A binlog is the sequence of its events.  An event has a timestamp and,  *)
(* when it opens a transaction, that transaction's GTID; GTIDs are         *)
(* numbered in commit order.                                               *)
(***************************************************************************)
EXTENDS Naturals, SequencesExt

NoGtid == 0      \* an event that opens no transaction; no GTID found

(* One file: the last GTID up to the target, and whether an event later than *)
(* the target followed it.  Every file starts with no GTID found.            *)
ScanEvent(target, s, e) ==
  IF s.stop THEN s
  ELSE IF e.ts > target /\ s.last # NoGtid THEN [s EXCEPT !.exceeded = TRUE, !.stop = TRUE]
  ELSE IF e.gtid = NoGtid THEN s
  ELSE IF e.ts <= target THEN [s EXCEPT !.last = e.gtid]
  ELSE [s EXCEPT !.stop = TRUE]

ScanStart == [last |-> NoGtid, exceeded |-> FALSE, stop |-> FALSE]

ScanBinlog(events, target) ==
  FoldLeft(LAMBDA s, e : ScanEvent(target, s, e), ScanStart, events)

\* Mutant of ScanFile: what an earlier file had is forgotten.
ScanFileForgetting(target, s, events) ==
  IF s.stop THEN s
  ELSE LET found == ScanBinlog(events, target) IN [last |-> found.last, stop |-> found.exceeded]

(* The files in turn, up to the first that exceeds the target.               *)
ScanFile(target, s, events) ==
  IF s.stop THEN s
  ELSE LET found == ScanBinlog(events, target)
           last == IF found.last # NoGtid THEN found.last ELSE s.last
       IN  [last |-> last, stop |-> found.exceeded /\ last # NoGtid]

FindStart == [last |-> NoGtid, stop |-> FALSE]

FindGtidByTime(files, target) ==
  FoldLeft(LAMBDA s, events : ScanFile(target, s, events), FindStart, files).last
=============================================================================
